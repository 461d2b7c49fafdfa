-------------------------- MODULE MCWsgiConnection --------------------------
(* Instances of WsgiConnection and WsgiExchange for TLC. *)
EXTENDS WsgiExchange, TLC

(* Every kind of request data, and every kind but Expect: 100-continue. *)
AllTokens   == Token
PlainTokens == Token \ {"expect"}
(* Messages that are complete, incomplete or malformed. *)
FewTokens   == {"end", "part", "bad"}

(* The slots differ only in their names. *)
Symmetry == Permutations(Clients)
=============================================================================
