----------------------------- MODULE MCTlsStream -----------------------------
(***************************************************************************)
(* TlsStream for TLC: what the peer sends.                                 *)
(***************************************************************************)
EXTENDS TlsStream

Requests == {"part", "end", "endClose", "expect", "bad"}
Either == {TRUE, FALSE}
=============================================================================
