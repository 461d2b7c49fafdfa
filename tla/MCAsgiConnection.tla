-------------------------- MODULE MCAsgiConnection --------------------------
(***************************************************************************)
(* AsgiConnection for TLC: what the peer sends and how the application     *)
(* behaves.                                                                *)
(***************************************************************************)
EXTENDS AsgiConnection

Requests == {"part", "end", "endClose", "expect", "bad"}

(* A plain exchange, and each deviation from it. *)
EachHabit == {{}} \cup {{h} : h \in Habit}
Plain == {{}}
=============================================================================
