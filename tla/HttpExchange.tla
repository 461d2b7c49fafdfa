---------------------------- MODULE HttpExchange ----------------------------
(***************************************************************************)
(* What a connection promises its peer and the application: exchanges run  *)
(* one at a time, the application is called only while the connection is   *)
(* live and nothing is being sent, every exchange ends, by a response that *)
(* has been written or by the end of the connection, and a connection that *)
(* began to end is closed.                                                 *)
(***************************************************************************)
EXTENDS Naturals

CONSTANT Clients    (* connection slots *)

VARIABLES
  phase,     (* phase[c]: free, live, dying or closed                       *)
  busy,      (* busy[c]: a response is being sent                           *)
  served,    (* served[c]: responses written out                            *)
  calls      (* calls[c]: calls of the application                          *)

vars == <<phase, busy, served, calls>>

TypeOK ==
  /\ phase \in [Clients -> {"free", "live", "dying", "closed"}]
  /\ busy \in [Clients -> BOOLEAN]
  /\ served \in [Clients -> Nat]
  /\ calls \in [Clients -> Nat]

Init ==
  /\ phase = [c \in Clients |-> "free"]
  /\ busy = [c \in Clients |-> FALSE]
  /\ served = [c \in Clients |-> 0]
  /\ calls = [c \in Clients |-> 0]

(* A connection is accepted, or refused at once. *)
Open(c) ==
  /\ phase[c] = "free"
  /\ \E p \in {"live", "dying"} : phase' = [phase EXCEPT ![c] = p]
  /\ UNCHANGED <<busy, served, calls>>

(* A new exchange: the application is called, or an error is answered      *)
(* without calling it; the connection may end with this exchange.          *)
Begin(c) ==
  /\ \E p \in {"live", "dying"} : phase' = [phase EXCEPT ![c] = p]
  /\ busy' = [busy EXCEPT ![c] = TRUE]
  /\ \E n \in {calls[c], calls[c] + 1} : calls' = [calls EXCEPT ![c] = n]

Serve(c) ==
  /\ phase[c] = "live" /\ ~busy[c]
  /\ Begin(c)
  /\ UNCHANGED served

(* The response is out; the connection stays or ends. *)
Finish(c) ==
  /\ busy[c]
  /\ busy' = [busy EXCEPT ![c] = FALSE]
  /\ served' = [served EXCEPT ![c] = @ + 1]
  /\ \E p \in {phase[c], "dying"} : phase' = [phase EXCEPT ![c] = p]
  /\ UNCHANGED calls

(* The response is out and the next pipelined request begins at once. *)
FinishAndServe(c) ==
  /\ phase[c] = "live" /\ busy[c]
  /\ served' = [served EXCEPT ![c] = @ + 1]
  /\ Begin(c)

(* The response cannot be finished. *)
Fail(c) ==
  /\ busy[c]
  /\ busy' = [busy EXCEPT ![c] = FALSE]
  /\ phase' = [phase EXCEPT ![c] = "dying"]
  /\ UNCHANGED <<served, calls>>

(* The peer, a timeout or an error ends the connection. *)
End(c) ==
  /\ phase[c] = "live"
  /\ phase' = [phase EXCEPT ![c] = "dying"]
  /\ UNCHANGED <<busy, served, calls>>

Close(c) ==
  /\ phase[c] = "dying" /\ ~busy[c]
  /\ phase' = [phase EXCEPT ![c] = "closed"]
  /\ UNCHANGED <<busy, served, calls>>

Next ==
  \E c \in Clients : \/ Open(c) \/ Serve(c) \/ Finish(c) \/ FinishAndServe(c)
                     \/ Fail(c) \/ End(c) \/ Close(c)

Spec == Init /\ [][Next]_vars

(* Every exchange ends and every dying connection is closed. *)
Fairness ==
  \A c \in Clients :
    /\ WF_vars(Finish(c) \/ FinishAndServe(c) \/ Fail(c))
    /\ WF_vars(Close(c))

FairSpec == Spec /\ Fairness
=============================================================================
