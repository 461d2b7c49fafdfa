---------------------------- MODULE WsgiExchange ----------------------------
(***************************************************************************)
(* The connections of WsgiConnection keep the promise of HttpExchange.     *)
(***************************************************************************)
EXTENDS WsgiConnection

Phase(k) == CASE k.uv = "none"   -> "free"
              [] k.uv = "closed" -> "closed"
              [] Alive(k)        -> "live"
              [] OTHER           -> "dying"

Exchange ==
  INSTANCE HttpExchange WITH
    phase  <- [c \in Clients |-> Phase(conn[c])],
    busy   <- [c \in Clients |-> InFlight(conn[c]) # {}],
    served <- [c \in Clients |-> conn[c].done],
    calls  <- [c \in Clients |-> conn[c].calls]

(* Peers that never ask for 100-continue, and whose responses are bodies   *)
(* that neither raise nor lack a close(), get the exchanges HttpExchange   *)
(* promises, in order and one at a time (read_cb, write_cb, close_cb).     *)
KeepsExchanges == Exchange!Spec

(* ... and each exchange ends, each dying connection is closed.            *)
EndsExchanges == Exchange!FairSpec
=============================================================================
