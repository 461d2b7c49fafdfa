---------------------------- MODULE MCWsgiResponse ----------------------------
(***************************************************************************)
(* WsgiResponse for TLC: the bodies that applications return.              *)
(***************************************************************************)
EXTENDS WsgiResponse

ItemSeqs(n) == UNION {[1 .. k -> {Raises, NotBytes, 0, 1, 2}] : k \in 0 .. n}

(* A body of n items or fewer, of either kind, fresh or not. *)
Iterables(n, lengths, bodiless) ==
  [kind : {"generator", "iterable"}, items : ItemSeqs(n), fresh : BOOLEAN,
   length : lengths, bodiless : bodiless]

(* Four items are two more than the array of MaxPreloaded = 1 holds.       *)
Bodies ==
  Iterables(4, {Absent, 2, 3, 4}, {"no"})
    \cup Iterables(3, {Absent, Malformed, 0, 1, 8}, {"no", "HEAD", "status"})
    \cup [kind : {"bytes"}, items : {<<0>>, <<2>>}, fresh : {FALSE},
          length : {Absent, 0, 1}, bodiless : {"no", "HEAD", "status"}]
    \cup {NoSource}
=============================================================================
