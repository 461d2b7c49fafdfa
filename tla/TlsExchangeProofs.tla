-------------------------- MODULE TlsExchangeProofs --------------------------
(***************************************************************************)
(* TLAPS proofs that TLS makes no difference to what a peer gets, as long  *)
(* as it asks for no 100-continue: the records that SSL produced reach it  *)
(* in order and none is missing, and a peer that waits for the last flight *)
(* of the handshake gets the exchanges that HttpExchange promises.         *)
(*                                                                         *)
(* The invariant Promised says of the queue of writes that it holds the    *)
(* flights of the handshake and behind them one response at most (Free,    *)
(* Busy), of the records that those in the queue are the next ones the     *)
(* peer expects (Numbered), and of a peer that waits that nothing is       *)
(* parsed and answered before the last flight has been written (Sober).    *)
(* Each C function of the HTTP connection is a lemma again: it leaves the  *)
(* queue as it is, or adds a response to it.                               *)
(***************************************************************************)
EXTENDS TlsPlaintextProofs

-----------------------------------------------------------------------------
(* What the functions of the HTTP connection leave alone.                  *)

Apart(q, k) ==
  /\ Typed(q)
  /\ q.buf = k.buf /\ q.parsed = k.parsed /\ q.rx = k.rx
  /\ q.parser = k.parser /\ q.keep = k.keep
  /\ q.reqT = k.reqT /\ q.lastT = k.lastT
  /\ q.calls = k.calls /\ q.done = k.done

(* Nothing is written, and no connection comes to life. *)
Mute(q, k) ==
  /\ Apart(q, k) /\ q.wq = k.wq /\ q.uv \in {k.uv, "closing"}
  /\ W!Alive(q) => W!Alive(k)

(* A response is written, and reading stops. *)
Spoke(q, k) ==
  /\ Apart(q, k) /\ q.wq = Append(k.wq, "resp") /\ ~q.reading
  /\ q.uv = k.uv /\ q.shut = k.shut

LEMMA MuteSelf == ASSUME NEW k, Typed(k) PROVE Mute(k, k)
  BY DEF Mute, Apart

LEMMA MuteOn ==
  ASSUME NEW k, NEW q, NEW p, Mute(q, k), Mute(p, q) PROVE Mute(p, k)
  BY DEF Mute, Apart

LEMMA MuteSpoke ==
  ASSUME NEW k, NEW q, NEW p, Mute(q, k), Spoke(p, q), q.uv = k.uv,
         q.shut = k.shut
  PROVE  Spoke(p, k)
  BY DEF Mute, Spoke, Apart

(* close_connection. *)
LEMMA CloseMute ==
  ASSUME NEW k, Typed(k)
  PROVE  LET q == W!close_connection(k)
         IN /\ Mute(q, k) /\ ~W!Alive(q) /\ q.uv # "open"
            /\ ~k.reading \/ k.uv = "open" => ~q.reading
<1> DEFINE q == W!close_connection(k)
<1>1. Typed(q)
  BY CloseKeeps DEF Keeps
<1>2. /\ q.buf = k.buf /\ q.parsed = k.parsed /\ q.rx = k.rx
      /\ q.parser = k.parser /\ q.keep = k.keep
      /\ q.reqT = k.reqT /\ q.lastT = k.lastT
      /\ q.calls = k.calls /\ q.done = k.done
      /\ q.wq = k.wq /\ q.uv \in {k.uv, "closing"} /\ q.uv # "open"
      /\ ~k.reading \/ k.uv = "open" => ~q.reading
  BY DEF W!close_connection, Typed, Shape, Fields
<1> HIDE DEF q
<1>3. ~W!Alive(q)
  BY <1>2 DEF W!Alive
<1> QED
  BY <1>1, <1>2, <1>3 DEF Mute, Apart, q

(* stream_read_stop. *)
LEMMA StopMute ==
  ASSUME NEW k, Typed(k)
  PROVE  LET q == W!stream_read_stop(k)
         IN /\ Mute(q, k) /\ ~q.reading /\ q.state = k.state
            /\ q.uv = k.uv /\ q.shut = k.shut
<1> DEFINE q == W!stream_read_stop(k)
<1>1. Typed(q)
  BY StopKeeps DEF Keeps
<1>2. /\ q.buf = k.buf /\ q.parsed = k.parsed /\ q.rx = k.rx
      /\ q.parser = k.parser /\ q.keep = k.keep
      /\ q.reqT = k.reqT /\ q.lastT = k.lastT
      /\ q.calls = k.calls /\ q.done = k.done /\ q.state = k.state
      /\ q.wq = k.wq /\ q.uv = k.uv /\ q.shut = k.shut /\ ~q.reading
  BY DEF W!stream_read_stop, Typed, Shape, Fields
<1> HIDE DEF q
<1> QED
  BY <1>1, <1>2 DEF Mute, Apart, W!Alive, q

(* shutdown_connection. *)
LEMMA ShutMute ==
  ASSUME NEW k, Typed(k)
  PROVE  LET q == W!shutdown_connection(k)
         IN Mute(q, k) /\ ~W!Alive(q) /\ (~k.reading => ~q.reading)
<1> DEFINE q == [k EXCEPT !.state = "CS_DESTROY", !.shut = TRUE]
<1>1. CASE W!NotConn(k)
  BY <1>1, CloseMute DEF W!shutdown_connection
<1>2. CASE ~W!NotConn(k)
  <2>1. W!shutdown_connection(k) = q
    BY <1>2 DEF W!shutdown_connection
  <2>2. Typed(q)
    BY <2>1, ShutKeeps DEF Keeps
  <2>3. /\ q.buf = k.buf /\ q.parsed = k.parsed /\ q.rx = k.rx
        /\ q.parser = k.parser /\ q.keep = k.keep
        /\ q.reqT = k.reqT /\ q.lastT = k.lastT
        /\ q.calls = k.calls /\ q.done = k.done
        /\ q.wq = k.wq /\ q.uv = k.uv /\ q.shut = TRUE
        /\ q.reading = k.reading
    BY DEF Typed, Shape, Fields
  <2> HIDE DEF q
  <2> QED
    BY <2>1, <2>2, <2>3 DEF Mute, Apart, W!Alive
<1> QED
  BY <1>1, <1>2

(* The last lines of read_cb. *)
LEMMA ActEnds ==
  ASSUME NEW k, Typed(k)
  PROVE  /\ W!TakeAction(k, "CA_OK") = k
         /\ \A act \in {"CA_CLOSE", "CA_SHUTDOWN"} :
              LET q == W!TakeAction(k, act)
              IN Mute(q, k) /\ ~W!Alive(q) /\ ~q.reading
<1>1. W!TakeAction(k, "CA_OK") = k
  BY DEF W!TakeAction
<1> DEFINE s == W!stream_read_stop(k)
<1>2. /\ W!TakeAction(k, "CA_CLOSE") = W!close_connection(s)
      /\ W!TakeAction(k, "CA_SHUTDOWN") = W!shutdown_connection(s)
  BY DEF W!TakeAction
<1>3. Mute(s, k) /\ ~s.reading /\ Typed(s)
  BY StopMute DEF Mute, Apart
<1> HIDE DEF s
<1>4. /\ Mute(W!close_connection(s), k) /\ ~W!Alive(W!close_connection(s))
      /\ ~W!close_connection(s).reading
  BY <1>3, CloseMute, MuteOn
<1>5. /\ Mute(W!shutdown_connection(s), k) /\ ~W!Alive(W!shutdown_connection(s))
      /\ ~W!shutdown_connection(s).reading
  BY <1>3, ShutMute, MuteOn
<1> QED
  BY <1>1, <1>2, <1>4, <1>5

(* stream_read_start: what sends does not read. *)
LEMMA StartMute ==
  ASSUME NEW k, Typed(k)
  PROVE  LET q == W!stream_read_start(k)
         IN /\ Mute(q, k) /\ (W!Alive(k) => W!Alive(q))
            /\ q.reading => k.reading \/ q.uv = "open"
            /\ k.state = "CS_RESP_SEND" => q = k
            /\ k.uv = "open" => q.uv = "open" /\ q.shut = k.shut
            /\ k.state # "CS_RESP_SEND" => q.state # "CS_RESP_SEND"
<1> DEFINE q == [k EXCEPT !.state = "CS_REQ_READ", !.reading = TRUE]
           c == W!close_connection(k)
<1>1. CASE k.rx = "RXS_FREEZED" \/ k.state = "CS_RESP_SEND"
  BY <1>1, MuteSelf DEF W!stream_read_start
<1>2. CASE k.uv = "open" /\ ~(k.rx = "RXS_FREEZED" \/ k.state = "CS_RESP_SEND")
  <2>1. W!stream_read_start(k) = q
    BY <1>2 DEF W!stream_read_start
  <2>2. Typed(q)
    BY <2>1, StartKeeps DEF Keeps
  <2>3. /\ q.buf = k.buf /\ q.parsed = k.parsed /\ q.rx = k.rx
        /\ q.parser = k.parser /\ q.keep = k.keep
        /\ q.reqT = k.reqT /\ q.lastT = k.lastT
        /\ q.calls = k.calls /\ q.done = k.done /\ q.state = "CS_REQ_READ"
        /\ q.wq = k.wq /\ q.uv = k.uv /\ q.shut = k.shut
    BY DEF Typed, Shape, Fields
  <2> HIDE DEF q
  <2> QED
    BY <1>2, <2>1, <2>2, <2>3 DEF Mute, Apart, W!Alive
<1>3. CASE k.uv # "open" /\ ~(k.rx = "RXS_FREEZED" \/ k.state = "CS_RESP_SEND")
  <2>1. W!stream_read_start(k) = c
    BY <1>3 DEF W!stream_read_start
  <2>2. Mute(c, k) /\ (~k.reading => ~c.reading)
    BY CloseMute
  <2>3. c.state = "CS_DESTROY"
    BY DEF W!close_connection, Typed, Shape, Fields
  <2>4. ~W!Alive(k)
    BY <1>3 DEF W!Alive
  <2> HIDE DEF c
  <2> QED
    BY <1>3, <2>1, <2>2, <2>3, <2>4
<1> QED
  BY <1>1, <1>2, <1>3

(* reset_response_body. *)
LEMMA ResetMute ==
  ASSUME NEW k, Typed(k)
  PROVE  LET q == W!reset_response_body(k)
         IN /\ Mute(q, k) /\ q.uv = k.uv /\ q.shut = k.shut
            /\ q.state = k.state /\ q.reading = k.reading
<1> DEFINE q == W!reset_response_body(k)
<1>1. Typed(q)
  BY ResetKeeps DEF Keeps
<1>2. /\ q.buf = k.buf /\ q.parsed = k.parsed /\ q.rx = k.rx
      /\ q.parser = k.parser /\ q.keep = k.keep
      /\ q.reqT = k.reqT /\ q.lastT = k.lastT
      /\ q.calls = k.calls /\ q.done = k.done /\ q.state = k.state
      /\ q.wq = k.wq /\ q.uv = k.uv /\ q.shut = k.shut
      /\ q.reading = k.reading
  BY DEF W!reset_response_body, Typed, Shape, Fields
<1> HIDE DEF q
<1> QED
  BY <1>1, <1>2 DEF Mute, Apart, W!Alive, q

(* When the last queued write is reported, libuv calls shutdown_cb. *)
LEMMA DrainMute ==
  ASSUME NEW k, Typed(k)
  PROVE  LET q == W!Drain(k)
         IN /\ Mute(q, k) /\ (W!Alive(k) \/ k.wq # <<>> => q = k)
            /\ k.wq = <<>> /\ ~W!Alive(k) => q.uv # "open"
            /\ ~k.reading => ~q.reading
<1>1. CASE k.shut /\ k.wq = <<>>
  BY <1>1, CloseMute DEF W!Drain, W!Alive
<1>2. CASE ~(k.shut /\ k.wq = <<>>)
  BY <1>2, MuteSelf DEF W!Drain, W!Alive
<1> QED
  BY <1>1, <1>2

-----------------------------------------------------------------------------
(* Answering.                                                              *)

(* stream_write: a live connection is given a response, another one stays  *)
(* as it is.                                                               *)
LEMMA WriteSays ==
  ASSUME NEW k, Typed(k), k.state # "CS_RESP_SEND"
  PROVE  LET q == W!stream_write(k)
         IN /\ W!Writable(k) <=> W!Alive(k)
            /\ W!Alive(k) => Spoke(q, k)
            /\ ~W!Alive(k) => Mute(q, k) /\ ~q.reading
<1> DEFINE q == W!stream_write(k)
<1>1. Typed(q)
  BY WriteKeeps DEF Keeps
<1>2. W!Writable(k) <=> W!Alive(k)
  BY DEF W!Writable, W!NotConn, W!Alive
<1>3. CASE W!Alive(k)
  <2>1. q = [k EXCEPT !.state = "CS_RESP_SEND", !.reading = FALSE,
                      !.wq = Append(@, "resp")]
    BY <1>2, <1>3 DEF W!stream_write
  <2>2. /\ q.buf = k.buf /\ q.parsed = k.parsed /\ q.rx = k.rx
        /\ q.parser = k.parser /\ q.keep = k.keep
        /\ q.reqT = k.reqT /\ q.lastT = k.lastT
        /\ q.calls = k.calls /\ q.done = k.done
        /\ q.wq = Append(k.wq, "resp") /\ q.uv = k.uv /\ q.shut = k.shut
        /\ ~q.reading
    BY <2>1 DEF Typed, Shape, Fields
  <2> HIDE DEF q
  <2> QED
    BY <1>1, <1>2, <1>3, <2>2 DEF Spoke, Apart, q
<1>4. CASE ~W!Alive(k)
  <2>1. q = [k EXCEPT !.state = "CS_DESTROY", !.reading = FALSE]
    BY <1>2, <1>4 DEF W!stream_write
  <2>2. /\ q.buf = k.buf /\ q.parsed = k.parsed /\ q.rx = k.rx
        /\ q.parser = k.parser /\ q.keep = k.keep
        /\ q.reqT = k.reqT /\ q.lastT = k.lastT
        /\ q.calls = k.calls /\ q.done = k.done
        /\ q.wq = k.wq /\ q.uv = k.uv /\ q.shut = k.shut
        /\ ~q.reading
    BY <2>1 DEF Typed, Shape, Fields
  <2> HIDE DEF q
  <2> QED
    BY <1>1, <1>2, <1>4, <2>2 DEF Mute, Apart, W!Alive, q
<1> QED
  BY <1>3, <1>4

(* The head of a response. *)
LEMMA HeadSays ==
  ASSUME NEW k, Typed(k), k.state # "CS_RESP_SEND", NEW status \in W!Status
  PROVE  LET q == W!WriteHead(k, status)
         IN /\ W!Alive(k) => Spoke(q, k)
            /\ ~W!Alive(k) => Mute(q, k) /\ ~q.reading
<1> DEFINE v == W!stream_write(k)
           q == [v EXCEPT !.begun = IF status = "stray500" THEN @ ELSE @ + 1,
                          !.status = status]
<1>1. /\ W!Writable(k) <=> W!Alive(k)
      /\ W!Alive(k) => Spoke(v, k)
      /\ ~W!Alive(k) => Mute(v, k) /\ ~v.reading
  BY WriteSays
<1>2. CASE W!Alive(k)
  <2>1. W!WriteHead(k, status) = q
    BY <1>1, <1>2 DEF W!WriteHead
  <2>2. Typed(q)
    BY <2>1, HeadKeeps DEF Keeps
  <2>3. Spoke(v, k) /\ Typed(v)
    BY <1>1, <1>2 DEF Spoke, Apart
  <2> HIDE DEF v
  <2>4. /\ q.buf = v.buf /\ q.parsed = v.parsed /\ q.rx = v.rx
        /\ q.parser = v.parser /\ q.keep = v.keep
        /\ q.reqT = v.reqT /\ q.lastT = v.lastT
        /\ q.calls = v.calls /\ q.done = v.done
        /\ q.wq = v.wq /\ q.uv = v.uv /\ q.shut = v.shut
        /\ q.reading = v.reading
    BY <2>3 DEF Typed, Shape, Fields
  <2> HIDE DEF q
  <2> QED
    BY <1>2, <2>1, <2>2, <2>3, <2>4 DEF Spoke, Apart
<1>3. CASE ~W!Alive(k)
  BY <1>1, <1>3 DEF W!WriteHead
<1> QED
  BY <1>2, <1>3

(* send_fatal and send_error. *)
LEMMA StatusSays ==
  ASSUME NEW k, Typed(k), k.state # "CS_RESP_SEND", NEW status \in W!Status
  PROVE  LET q == W!SendStatus(k, status)
         IN /\ W!Alive(k) => Spoke(q, k)
            /\ ~W!Alive(k) => Mute(q, k) /\ ~q.reading
<1> DEFINE b == W!BuildEmpty(k)
<1>1. /\ Mute(b, k) /\ b.uv = k.uv /\ b.shut = k.shut /\ b.state = k.state
  BY ResetMute, MuteSelf DEF W!BuildEmpty
<1>2. W!SendStatus(k, status) = W!WriteHead(b, status)
  BY DEF W!SendStatus
<1> HIDE DEF b
<1>3. Typed(b) /\ (W!Alive(b) <=> W!Alive(k))
  BY <1>1 DEF Mute, Apart, W!Alive
<1>4. LET q == W!WriteHead(b, status)
      IN /\ W!Alive(k) => Spoke(q, b)
         /\ ~W!Alive(k) => Mute(q, b) /\ ~q.reading
  BY <1>1, <1>3, HeadSays
<1> QED
  BY <1>1, <1>2, <1>4, MuteOn, MuteSpoke

(* What a response in the queue says of the connection: it does not read,  *)
(* and when the connection is shut down it goes no further.                *)
Held(k) ==
  /\ ~k.reading /\ k.uv \in {"open", "closing"} /\ k.parser # "mid"
  /\ W!Alive(k) => ~k.reqT /\ ~k.lastT
  /\ ~W!Alive(k) =>
       ~W!Persistent(k) \/ k.parser = "error" \/ k.rx # "RXS_FREEZED"

(* An exchange begins: the application, or an error, is answered. *)
Answered(q, k) ==
  /\ Typed(q) /\ Held(q) /\ q.wq = Append(k.wq, "resp")
  /\ q.done = k.done /\ q.calls \in {k.calls, k.calls + 1}
  /\ q.uv \in {k.uv, "closing"} /\ (W!Alive(q) => W!Alive(k))

(* A complete message before its answer. *)
Complete(k) ==
  /\ Typed(k) /\ W!Alive(k) /\ k.state # "CS_RESP_SEND"
  /\ k.parser = "idle" /\ ~k.reqT /\ ~k.lastT

(* send_error, and what read_cb ends with. *)
LEMMA ErrorSends ==
  ASSUME NEW k, Complete(k), NEW err \in W!Status, err # "none"
  PROVE  Answered(W!ReadFin(k, err, "CA_OK", FALSE), k)
<1> DEFINE s == W!SendStatus(k, err)
           f == W!TakeAction(s, "CA_SHUTDOWN")
<1>1. Spoke(s, k) /\ Typed(s)
  BY StatusSays DEF Complete, Spoke, Apart
<1>2. W!ReadFin(k, err, "CA_OK", FALSE) = IF W!Persistent(k) THEN s ELSE f
  BY DEF W!ReadFin, W!TakeAction
<1> HIDE DEF s
<1>3. Mute(f, s) /\ ~W!Alive(f) /\ ~f.reading
  BY <1>1, ActEnds
<1> HIDE DEF f
<1>4. Answered(s, k)
  BY <1>1 DEF Answered, Held, Spoke, Apart, Complete, W!Alive
<1>5. ASSUME ~W!Persistent(k) PROVE Answered(f, k)
  <2>1. ~W!Persistent(f)
    BY <1>1, <1>3, <1>5 DEF Mute, Spoke, Apart, W!Persistent
  <2> QED
    BY <1>1, <1>3, <2>1 DEF Answered, Held, Mute, Spoke, Apart, Complete, W!Alive
<1> QED
  BY <1>2, <1>4, <1>5

(* The application is called, and answered with what it returned. *)
LEMMA ApplicationSends ==
  ASSUME NEW k, Complete(k), NEW r \in W!Reply
  PROVE  Answered(W!RunApplication(k, r, FALSE), k)
<1> DEFINE n == k.calls + 1
           a == [k EXCEPT !.state = "CS_RESP_BILD", !.calls = n]
           ch == IF r.kind = "chunked" THEN 1 ELSE 0
           it == TRUE
           b == [a EXCEPT !.pre = r.pre, !.total = r.total,
                          !.chunked = ch, !.iter = it]
           h == W!WriteHead(b, "200")
<1>1. /\ r.pre \in Nat /\ r.total \in Nat /\ ch \in 0 .. 2 /\ it \in BOOLEAN
      /\ n \in Nat
  BY DEF W!Reply, Complete, Typed, Values
<1>2. W!RunApplication(k, r, FALSE) =
        IF r.kind = "fail" THEN W!ReadFin(a, "500", "CA_OK", FALSE)
        ELSE W!ReadFin(h, "none", IF W!Writable(b) THEN "CA_OK" ELSE "CA_SHUTDOWN",
                       FALSE)
  BY DEF W!RunApplication
<1> HIDE DEF n, ch, it
<1>3. Typed(a) /\ a.state = "CS_RESP_BILD" /\ a.calls = n
      /\ a.wq = k.wq /\ a.uv = k.uv /\ a.shut = k.shut /\ a.done = k.done
      /\ a.parser = k.parser /\ a.reqT = k.reqT /\ a.lastT = k.lastT
  <2>1. Shape(a) /\ Values(a)
    BY <1>1 DEF Complete, Typed, Shape, Fields, Values, W!ClientState
  <2>2. Flags(a)
    BY DEF Complete, Typed, Shape, Fields, Flags
  <2>3. /\ a.state = "CS_RESP_BILD" /\ a.calls = n
        /\ a.wq = k.wq /\ a.uv = k.uv /\ a.shut = k.shut /\ a.done = k.done
        /\ a.parser = k.parser /\ a.reqT = k.reqT /\ a.lastT = k.lastT
    BY DEF Complete, Typed, Shape, Fields
  <2> QED
    BY <2>1, <2>2, <2>3 DEF Typed
<1> HIDE DEF a
<1>4. Complete(a)
  BY <1>3 DEF Complete, W!Alive
<1>5. Typed(b) /\ b.state = "CS_RESP_BILD" /\ b.calls = n
      /\ b.wq = k.wq /\ b.uv = k.uv /\ b.shut = k.shut /\ b.done = k.done
      /\ b.parser = k.parser /\ b.reqT = k.reqT /\ b.lastT = k.lastT
  <2>0. Shape(a) /\ Values(a) /\ Flags(a)
    BY <1>3 DEF Typed
  <2>1. /\ DOMAIN b = Fields /\ b.pre = r.pre /\ b.total = r.total
        /\ b.chunked = ch /\ b.iter = it
        /\ b.state = a.state /\ b.rx = a.rx /\ b.reading = a.reading
        /\ b.buf = a.buf /\ b.parsed = a.parsed /\ b.parser = a.parser
        /\ b.keep = a.keep /\ b.reqT = a.reqT /\ b.lastT = a.lastT
        /\ b.written = a.written /\ b.uv = a.uv
        /\ b.shut = a.shut /\ b.wq = a.wq /\ b.recvd = a.recvd
        /\ b.ppos = a.ppos /\ b.asked = a.asked /\ b.calls = a.calls
        /\ b.begun = a.begun /\ b.done = a.done /\ b.status = a.status
    BY <2>0 DEF Shape, Fields
  <2> HIDE DEF b
  <2>2. Shape(b) /\ Values(b)
    BY <1>1, <2>0, <2>1 DEF Shape, Values
  <2>3. Flags(b)
    BY <1>1, <2>0, <2>1, Zenon DEF Flags
  <2> QED
    BY <1>3, <2>1, <2>2, <2>3 DEF Typed
<1> HIDE DEF b
<1>6. W!Alive(b)
  BY <1>5 DEF Complete, W!Alive
<1>7. W!Writable(b)
  BY <1>5, <1>6 DEF W!Alive, W!Writable, W!NotConn
<1>8. Spoke(h, b)
  <2>1. "200" \in W!Status
    BY DEF W!Status
  <2> QED
    BY <1>5, <1>6, <2>1, HeadSays
<1>9. W!ReadFin(h, "none", "CA_OK", FALSE) = h
  BY DEF W!ReadFin, W!TakeAction
<1> HIDE DEF h
<1>10. Answered(h, k)
  BY <1>5, <1>8 DEF Answered, Held, Spoke, Apart, Complete, W!Alive, n
<1>11. Answered(W!ReadFin(a, "500", "CA_OK", FALSE), k)
  <2> DEFINE f == W!ReadFin(a, "500", "CA_OK", FALSE)
  <2>1. Answered(f, a)
    <3>1. "500" \in W!Status
      BY DEF W!Status
    <3> QED
      BY <1>4, <3>1, ErrorSends
  <2> HIDE DEF f
  <2>2. f.calls = n
    <3>1. "500" \in W!Status
      BY DEF W!Status
    <3> DEFINE s == W!SendStatus(a, "500")
               g == W!TakeAction(s, "CA_SHUTDOWN")
    <3>2. Spoke(s, a)
      BY <1>4, <3>1, StatusSays DEF Complete
    <3>3. f = IF W!Persistent(a) THEN s ELSE g
      BY DEF f, W!ReadFin, W!TakeAction
    <3> HIDE DEF s
    <3>4. Mute(g, s)
      BY <3>2, ActEnds DEF Spoke, Apart
    <3> HIDE DEF g
    <3> QED
      BY <1>3, <3>2, <3>3, <3>4 DEF Mute, Spoke, Apart
  <2>3. Answered(f, k)
    BY <1>3, <2>1, <2>2 DEF Answered, W!Alive, n
  <2> QED
    BY <2>3 DEF f
<1> QED
  BY <1>2, <1>7, <1>9, <1>10, <1>11

-----------------------------------------------------------------------------
(* Parsing.                                                                *)

(* No 100-continue is asked for in what is left of rx.buf. *)
NoExpect(k) == \A i \in k.parsed + 1 .. Len(k.buf) : k.buf[i] # "expect"

(* Where the parser stands, and where the message began. *)
Begun(q, k) ==
  /\ q.parser = (IF k.parser = "idle" THEN "mid" ELSE k.parser)
  /\ k.parser = "idle" => ~q.lastT
  /\ k.parser # "idle" => q.lastT = k.lastT

LEMMA FeedSays ==
  ASSUME NEW k, Typed(k), NEW e, e <= Len(k.buf), e \in Nat,
         NoExpect(k) \/ k.parser = "error"
  PROVE  LET q == W!Feed(k, e)
         IN /\ Typed(q) /\ q.buf = k.buf /\ q.parsed = k.parsed /\ q.rx = k.rx
            /\ q.keep = k.keep /\ q.calls = k.calls /\ q.done = k.done
            /\ q.wq = k.wq /\ q.uv = k.uv /\ q.shut = k.shut
            /\ q.state = "CS_REQ_PARSE" /\ Begun(q, k)
<1> DEFINE p == [k EXCEPT !.state = "CS_REQ_PARSE"]
           b == W!reset_response_body(p)
           m == [b EXCEPT !.reqT = TRUE, !.lastT = FALSE, !.parser = "mid"]
           q == W!Feed(k, e)
<1>1. q = IF k.parser = "idle" THEN m ELSE p
  <2>1. k.parser = "error" \/ ~W!ExpectsContinue(k, e)
    <3>1. \A i \in W!Unparsed(k, e) : i \in k.parsed + 1 .. Len(k.buf)
      BY DEF W!Unparsed, Typed, Values
    <3> QED
      BY <3>1 DEF NoExpect, W!ExpectsContinue
  <2> QED
    BY <2>1 DEF W!Feed, W!on_message_begin
<1>2. Typed(q)
  BY FeedKeeps DEF Keeps
<1>3. /\ p.buf = k.buf /\ p.parsed = k.parsed /\ p.rx = k.rx
      /\ p.keep = k.keep /\ p.calls = k.calls /\ p.done = k.done
      /\ p.wq = k.wq /\ p.uv = k.uv /\ p.shut = k.shut
      /\ p.state = "CS_REQ_PARSE" /\ p.parser = k.parser
      /\ p.reqT = k.reqT /\ p.lastT = k.lastT
  BY DEF Typed, Shape, Fields
<1>4. Typed(p)
  <2>1. Shape(p) /\ Values(p)
    BY DEF Typed, Shape, Fields, Values, W!ClientState
  <2>2. Flags(p)
    BY DEF Typed, Shape, Fields, Flags
  <2> QED
    BY <2>1, <2>2 DEF Typed
<1> HIDE DEF p
<1>5. Mute(b, p) /\ b.uv = p.uv /\ b.shut = p.shut /\ b.state = p.state
  BY <1>4, ResetMute
<1> HIDE DEF b
<1>6. /\ m.buf = b.buf /\ m.parsed = b.parsed /\ m.rx = b.rx
      /\ m.keep = b.keep /\ m.calls = b.calls /\ m.done = b.done
      /\ m.wq = b.wq /\ m.uv = b.uv /\ m.shut = b.shut
      /\ m.state = b.state /\ m.parser = "mid" /\ m.lastT = FALSE
  BY <1>5 DEF Mute, Apart, Typed, Shape, Fields
<1> HIDE DEF m, q
<1>7. CASE k.parser = "idle"
  BY <1>1, <1>2, <1>3, <1>5, <1>6, <1>7 DEF Begun, Mute, Apart, q
<1>8. CASE k.parser # "idle"
  BY <1>1, <1>2, <1>3, <1>8 DEF Begun, q
<1> QED
  BY <1>7, <1>8

(* A live connection goes on as it is, with more of its buffer parsed. *)
Goes(q, k) ==
  /\ Typed(q) /\ q.wq = k.wq /\ q.uv = k.uv /\ q.shut = k.shut
  /\ q.parser = k.parser /\ q.keep = k.keep
  /\ q.reqT = k.reqT /\ q.lastT = k.lastT
  /\ q.calls = k.calls /\ q.done = k.done /\ q.state # "CS_RESP_SEND"

LEMMA TakesGoes ==
  ASSUME NEW k, Typed(k), NEW e \in k.parsed .. Len(k.buf),
         k.state # "CS_RESP_SEND", NEW rx \in W!RxStatus
  PROVE  LET p == [k EXCEPT !.parsed = e, !.ppos = @ + (e - k.parsed)]
             q == [p EXCEPT !.rx = rx]
         IN Goes(p, k) /\ Goes(q, k)
<1> DEFINE p == [k EXCEPT !.parsed = e, !.ppos = @ + (e - k.parsed)]
           q == [p EXCEPT !.rx = rx]
<1>1. Typed(p) /\ Typed(q)
  BY Takes DEF Taken
<1>2. /\ p.wq = k.wq /\ p.uv = k.uv /\ p.shut = k.shut
      /\ p.parser = k.parser /\ p.keep = k.keep
      /\ p.reqT = k.reqT /\ p.lastT = k.lastT
      /\ p.calls = k.calls /\ p.done = k.done /\ p.state = k.state
  BY DEF Typed, Shape, Fields
<1> HIDE DEF p
<1>3. /\ q.wq = p.wq /\ q.uv = p.uv /\ q.shut = p.shut
      /\ q.parser = p.parser /\ q.keep = p.keep
      /\ q.reqT = p.reqT /\ q.lastT = p.lastT
      /\ q.calls = p.calls /\ q.done = p.done /\ q.state = p.state
  BY <1>1 DEF Typed, Shape, Fields
<1> HIDE DEF q
<1>4. Goes(p, k) /\ Goes(q, k)
  BY <1>1, <1>2, <1>3 DEF Goes
<1> QED
  BY <1>4 DEF p, q

LEMMA StartGoes ==
  ASSUME NEW k, NEW q, Goes(q, k), W!Alive(k)
  PROVE  Goes(W!stream_read_start(q), k)
<1> DEFINE s == W!stream_read_start(q)
<1>1. q.uv = "open" /\ q.state # "CS_RESP_SEND" /\ Typed(q)
  BY DEF Goes, W!Alive
<1>2. Mute(s, q) /\ s.uv = "open" /\ s.shut = q.shut /\ s.state # "CS_RESP_SEND"
  BY <1>1, StartMute
<1> HIDE DEF s
<1>3. Goes(s, k)
  BY <1>1, <1>2 DEF Goes, Mute, Apart
<1> QED
  BY <1>3 DEF s

(* HPE_OK. *)
LEMMA IncompleteGoes ==
  ASSUME NEW k, Typed(k), NEW e \in k.parsed .. Len(k.buf),
         k.state # "CS_RESP_SEND", W!Alive(k)
  PROVE  Goes(W!Incomplete(k, e), k)
<1> DEFINE p == [k EXCEPT !.parsed = e, !.ppos = @ + (e - k.parsed)]
           f == [p EXCEPT !.rx = "RXS_READING"]
<1>1. Goes(p, k) /\ Goes(f, k)
  BY TakesGoes DEF W!RxStatus
<1>2. W!Incomplete(k, e) = p \/ W!Incomplete(k, e) = W!stream_read_start(f)
  BY DEF W!Incomplete
<1> HIDE DEF p, f
<1> QED
  BY <1>1, <1>2, StartGoes

(* HPE_PAUSED. *)
LEMMA PausedGoes ==
  ASSUME NEW k, Typed(k), NEW e \in k.parsed .. Len(k.buf),
         k.state # "CS_RESP_SEND", W!Alive(k)
  PROVE  Goes(W!Paused(k, e), k)
<1> DEFINE p == [k EXCEPT !.parsed = e, !.ppos = @ + (e - k.parsed)]
           f == [p EXCEPT !.rx = "RXS_READING"]
           g == [p EXCEPT !.rx = "RXS_FREEZED"]
           s == W!stream_read_stop(g)
<1>1. Goes(f, k) /\ Goes(g, k)
  BY TakesGoes DEF W!RxStatus
<1>2. W!Paused(k, e) = W!stream_read_start(f) \/ W!Paused(k, e) = s
  BY DEF W!Paused
<1> HIDE DEF p, f, g
<1>3. Mute(s, g) /\ s.state = g.state /\ s.uv = g.uv /\ s.shut = g.shut
  BY <1>1, StopMute DEF Goes
<1> HIDE DEF s
<1>4. Goes(s, k)
  BY <1>1, <1>3 DEF Goes, Mute, Apart
<1> QED
  BY <1>1, <1>2, <1>4, StartGoes

(* on_message_complete. *)
LEMMA CompleteSays ==
  ASSUME NEW k, Typed(k), NEW e
  PROVE  LET q == W!on_message_complete(k, e)
         IN /\ Typed(q) /\ q.wq = k.wq /\ q.uv = k.uv /\ q.shut = k.shut
            /\ q.parser = "idle" /\ ~q.reqT /\ q.lastT = k.lastT
            /\ q.calls = k.calls /\ q.done = k.done /\ q.state = k.state
            /\ q.buf = k.buf /\ q.parsed = k.parsed
<1>1. Typed(W!on_message_complete(k, e))
  BY CompleteKeeps DEF Keeps
<1> QED
  BY <1>1 DEF W!on_message_complete, Typed, Shape, Fields

(* A live connection waits for more data. *)
Awaits(q, k) ==
  /\ Typed(q) /\ q.wq = k.wq /\ q.uv = k.uv /\ W!Alive(q)
  /\ q.calls = k.calls /\ q.done = k.done
  /\ q.parser = "mid" => ~q.lastT

(* read_cb from `parsing:` on: a live connection waits for more, or it     *)
(* answers.                                                                *)
LEMMA ParseAlive ==
  ASSUME NEW k, Typed(k), NEW e, W!EndsAt(k, e), NEW r \in W!Reply,
         NoExpect(k), W!Alive(k), k.parser # "error",
         k.parser = "mid" => ~k.lastT
  PROVE  LET q == W!Parse(k, e, r, FALSE) IN Awaits(q, k) \/ Answered(q, k)
<1> DEFINE p == W!Feed(k, e)
           x == [p EXCEPT !.parser = "error"]
           s == W!SendStatus(x, "400")
           f == W!TakeAction(s, "CA_SHUTDOWN")
           i == W!Incomplete(p, e)
           m == W!on_message_complete(p, e)
           z == W!Paused(m, e)
<1>1. /\ e \in k.parsed .. Len(k.buf) /\ e \in Nat /\ e <= Len(k.buf)
      /\ k.buf[e] \notin W!Stops => e = Len(k.buf)
      /\ e \in k.parsed + 1 .. Len(k.buf)
  BY DEF W!EndsAt, W!Unparsed, Typed, Values
<1>2. /\ Typed(p) /\ p.buf = k.buf /\ p.parsed = k.parsed
      /\ p.calls = k.calls /\ p.done = k.done
      /\ p.wq = k.wq /\ p.uv = k.uv /\ p.shut = k.shut
      /\ p.state = "CS_REQ_PARSE" /\ p.parser = "mid" /\ ~p.lastT
  <2>1. LET q == W!Feed(k, e)
        IN /\ Typed(q) /\ q.buf = k.buf /\ q.parsed = k.parsed
           /\ q.calls = k.calls /\ q.done = k.done
           /\ q.wq = k.wq /\ q.uv = k.uv /\ q.shut = k.shut
           /\ q.state = "CS_REQ_PARSE" /\ Begun(q, k)
    BY <1>1, FeedSays
  <2>2. k.parser \in {"idle", "mid"}
    BY DEF Typed, Values
  <2> QED
    BY <2>1, <2>2 DEF Begun
<1>3. W!ParseFails(k, e) => k.buf[e] = "bad"
  <2>1. ~W!NotConn(k)
    BY DEF W!Alive, W!NotConn
  <2> QED
    BY <2>1 DEF W!ParseFails
<1>4. W!Alive(p)
  BY <1>2 DEF W!Alive
<1> HIDE DEF p
<1>5. CASE W!ParseFails(k, e)
  <2>1. W!Parse(k, e, r, FALSE) = f
    BY <1>5 DEF W!Parse, W!ReadFin, p
  <2>2. Typed(x) /\ x.wq = p.wq /\ x.uv = p.uv /\ x.shut = p.shut
        /\ x.calls = p.calls /\ x.done = p.done /\ x.parser = "error"
        /\ x.state = p.state
    <3>1. Shape(x) /\ Values(x)
      BY <1>2 DEF Typed, Shape, Fields, Values
    <3>2. Flags(x)
      BY <1>2 DEF Typed, Shape, Fields, Flags
    <3>3. x.wq = p.wq /\ x.uv = p.uv /\ x.shut = p.shut
        /\ x.calls = p.calls /\ x.done = p.done /\ x.parser = "error"
        /\ x.state = p.state
      BY <1>2 DEF Typed, Shape, Fields
    <3> QED
      BY <3>1, <3>2, <3>3 DEF Typed
  <2> HIDE DEF x
  <2>3. Spoke(s, x) /\ Typed(s)
    <3>1. "400" \in W!Status /\ W!Alive(x) /\ x.state # "CS_RESP_SEND"
      BY <1>2, <1>4, <2>2 DEF W!Status, W!Alive
    <3> QED
      BY <2>2, <3>1, StatusSays DEF Spoke, Apart
  <2> HIDE DEF s
  <2>4. Mute(f, s) /\ ~W!Alive(f) /\ ~f.reading
    BY <2>3, ActEnds
  <2> HIDE DEF f
  <2>5. Answered(f, k)
    BY <1>2, <2>2, <2>3, <2>4 DEF Answered, Held, Mute, Spoke, Apart, W!Alive
  <2> QED
    BY <2>1, <2>5
<1>6. CASE ~W!ParseFails(k, e) /\ k.buf[e] \notin W!Stops
  <2>1. W!Parse(k, e, r, FALSE) = i
    BY <1>6, Zenon DEF W!Parse, W!Stops, W!ReadFin, W!TakeAction, p
  <2>2. Goes(i, p)
    BY <1>1, <1>2, <1>4, IncompleteGoes
  <2> HIDE DEF i
  <2>3. Awaits(i, k)
    BY <1>2, <2>2 DEF Awaits, Goes, W!Alive
  <2> QED
    BY <2>1, <2>3
<1>7. CASE ~W!ParseFails(k, e) /\ k.buf[e] \in W!Stops \ {"bad"}
  <2> DEFINE g == W!ReadFin(z, "417", "CA_OK", FALSE)
             h == W!RunApplication(z, r, FALSE)
  <2>1. W!Parse(k, e, r, FALSE) \in {g, h}
    BY <1>7 DEF W!Parse, W!Stops, p
  <2>2. /\ Typed(m) /\ m.wq = p.wq /\ m.uv = p.uv /\ m.shut = p.shut
        /\ m.parser = "idle" /\ ~m.reqT /\ m.lastT = p.lastT
        /\ m.calls = p.calls /\ m.done = p.done /\ m.state = p.state
        /\ m.buf = p.buf /\ m.parsed = p.parsed
    BY <1>2, CompleteSays
  <2> HIDE DEF m
  <2>3. W!Alive(m)
    BY <1>4, <2>2 DEF W!Alive
  <2>4. Goes(z, m)
    BY <1>1, <1>2, <2>2, <2>3, PausedGoes
  <2> HIDE DEF z
  <2>5. Complete(z)
    BY <1>2, <2>2, <2>3, <2>4 DEF Complete, Goes, W!Alive
  <2>6. Answered(g, z) /\ Answered(h, z)
    BY <2>5, ErrorSends, ApplicationSends DEF W!Status
  <2> HIDE DEF g, h
  <2>7. Answered(g, k) /\ Answered(h, k)
    BY <1>2, <2>2, <2>4, <2>6 DEF Answered, Goes, W!Alive
  <2> QED
    BY <2>1, <2>7
<1> QED
  BY <1>3, <1>5, <1>6, <1>7 DEF W!ParseFails

(* Behind a parse error nothing is parsed and nothing can be sent. *)
LEMMA ParseDead ==
  ASSUME NEW k, Typed(k), NEW e, W!EndsAt(k, e), NEW r \in W!Reply,
         ~W!Alive(k), k.parser = "error"
  PROVE  LET q == W!Parse(k, e, r, FALSE)
         IN /\ Mute(q, k) /\ ~q.reading /\ ~W!Alive(q)
<1> DEFINE p == W!Feed(k, e)
           x == [p EXCEPT !.parser = "error"]
           s == W!SendStatus(x, "400")
           f == W!TakeAction(s, "CA_SHUTDOWN")
<1>1. e \in Nat /\ e <= Len(k.buf)
  BY DEF W!EndsAt, W!Unparsed, Typed, Values
<1>2. W!Parse(k, e, r, FALSE) = f
  BY DEF W!Parse, W!ParseFails, W!ReadFin
<1>3. p = [k EXCEPT !.state = "CS_REQ_PARSE"]
  BY DEF W!Feed
<1>4. Typed(p)
  BY FeedKeeps DEF Keeps
<1>5. Mute(p, k) /\ p.state = "CS_REQ_PARSE" /\ ~W!Alive(p) /\ p.parser = "error"
  <2>1. /\ p.buf = k.buf /\ p.parsed = k.parsed /\ p.rx = k.rx
        /\ p.parser = k.parser /\ p.keep = k.keep
        /\ p.reqT = k.reqT /\ p.lastT = k.lastT
        /\ p.calls = k.calls /\ p.done = k.done
        /\ p.wq = k.wq /\ p.uv = k.uv /\ p.shut = k.shut
        /\ p.state = "CS_REQ_PARSE"
    BY <1>3 DEF Typed, Shape, Fields
  <2> QED
    BY <1>4, <2>1 DEF Mute, Apart, W!Alive
<1> HIDE DEF p
<1>6. Mute(x, p) /\ x.state = p.state /\ ~W!Alive(x)
  <2>1. Shape(x) /\ Values(x)
    BY <1>4 DEF Typed, Shape, Fields, Values
  <2>2. Flags(x)
    BY <1>4 DEF Typed, Shape, Fields, Flags
  <2>3. /\ x.buf = p.buf /\ x.parsed = p.parsed /\ x.rx = p.rx
        /\ x.parser = "error" /\ x.keep = p.keep
        /\ x.reqT = p.reqT /\ x.lastT = p.lastT
        /\ x.calls = p.calls /\ x.done = p.done
        /\ x.wq = p.wq /\ x.uv = p.uv /\ x.shut = p.shut
        /\ x.state = p.state
    BY <1>4 DEF Typed, Shape, Fields
  <2> HIDE DEF x
  <2> QED
    BY <1>5, <2>1, <2>2, <2>3 DEF Mute, Apart, Typed, W!Alive
<1>7. Mute(s, x) /\ ~s.reading
  <2>1. "400" \in W!Status
    BY DEF W!Status
  <2> QED
    BY <1>5, <1>6, <2>1, StatusSays DEF Mute, Apart
<1>8. Typed(s)
  BY <1>7 DEF Mute, Apart
<1> HIDE DEF s
<1>9. Mute(f, s) /\ ~W!Alive(f) /\ ~f.reading
  BY <1>8, ActEnds
<1> HIDE DEF f
<1> QED
  BY <1>2, <1>5, <1>6, <1>7, <1>9, MuteOn

-----------------------------------------------------------------------------
(* Completion of a response write.                                         *)

(* What write_cb starts from. *)
Back(k) ==
  /\ Typed(k) /\ ~k.reading /\ k.uv \in {"open", "closing"}
  /\ k.parser # "mid" /\ k.state # "CS_RESP_SEND"
  /\ W!Alive(k) => NoExpect(k) /\ k.parser # "error"
  /\ ~W!Alive(k) =>
       ~W!Persistent(k) \/ k.parser = "error" \/ k.rx # "RXS_FREEZED"

(* The connection ends without finishing the response. *)
Ended(q, k) ==
  /\ Typed(q) /\ q.wq = k.wq /\ q.uv = "closing" /\ ~q.reading
  /\ q.calls = k.calls /\ q.done = k.done /\ q.parser # "mid"

(* The response goes on. *)
Carried(q, k) == W!Alive(k) /\ Answered(q, k) /\ q.calls = k.calls

(* The response is out: the connection waits for the next request, is shut *)
(* down, or has begun to answer the request behind it.                     *)
Over(q, k) ==
  /\ Typed(q) /\ q.done = k.done + 1
  /\ \/ /\ q.wq = k.wq /\ q.calls = k.calls
        /\ q.uv \in {"open", "closing"} /\ (q.reading => q.uv = "open")
        /\ W!Alive(q) => W!Alive(k)
        /\ q.parser = "mid" => ~q.lastT
     \/ /\ W!Alive(k) /\ Held(q) /\ q.wq = Append(k.wq, "resp")
        /\ q.calls \in {k.calls, k.calls + 1}

(* close_connection ends the exchange without serving it. *)
LEMMA CloseEnds ==
  ASSUME NEW k, Back(k)
  PROVE  Ended(W!close_connection(k), k)
<1> DEFINE q == W!close_connection(k)
<1>1. Mute(q, k) /\ q.uv # "open" /\ ~q.reading
  BY CloseMute DEF Back
<1> HIDE DEF q
<1>2. Ended(q, k)
  BY <1>1 DEF Ended, Back, Mute, Apart
<1> QED
  BY <1>2 DEF q

(* One more chunk carries the exchange on, or ends it with the connection. *)
LEMMA MoreCarries ==
  ASSUME NEW k, Back(k), W!Alive(k) => ~k.reqT /\ ~k.lastT
  PROVE  LET q == W!WriteMore(k) IN Carried(q, k) \/ Ended(q, k)
<1> DEFINE w == W!stream_write(k)
           q == W!close_connection(w)
<1>1. /\ W!Writable(k) <=> W!Alive(k)
      /\ W!Alive(k) => Spoke(w, k)
      /\ ~W!Alive(k) => Mute(w, k) /\ ~w.reading
  BY WriteSays DEF Back
<1>2. W!WriteMore(k) = IF W!Alive(k) THEN w ELSE q
  BY <1>1 DEF W!WriteMore
<1> HIDE DEF w
<1>3. ASSUME W!Alive(k) PROVE Carried(w, k)
  BY <1>1, <1>3 DEF Carried, Answered, Held, Spoke, Apart, Back, W!Alive
<1>4. ASSUME ~W!Alive(k) PROVE Ended(q, k)
  <2>1. Mute(q, w) /\ q.uv # "open" /\ ~q.reading
    BY <1>1, <1>4, CloseMute DEF Mute, Apart
  <2> HIDE DEF q
  <2> QED
    BY <1>1, <1>4, <2>1 DEF Ended, Mute, Apart, Back
<1> QED
  BY <1>2, <1>3, <1>4

(* EndsAt looks at the buffer only. *)
LEMMA EndsAtSame ==
  ASSUME NEW k, NEW q, NEW e, q.buf = k.buf, q.parsed = k.parsed,
         W!EndsAt(k, e)
  PROVE  W!EndsAt(q, e)
  BY DEF W!EndsAt, W!Unparsed

(* The end of a response is the end of its exchange; a pipelined request   *)
(* may open the next one in the same callback.                             *)
LEMMA FinishOver ==
  ASSUME NEW k, NEW e, NEW r \in W!Reply, Back(k),
         W!Resumes(k) => W!EndsAt(k, e)
  PROVE  Over(W!FinishResponse(k, e, r, FALSE), k)
<1> DEFINE d == [k EXCEPT !.done = k.done + 1]
           z == W!reset_response_body(d)
           q == [z EXCEPT !.state = "CS_RESP_END"]
           f == W!FinishResponse(k, e, r, FALSE)
<1> SUFFICES Over(f, k)
  OBVIOUS
<1>1. Typed(k) /\ k.done + 1 \in Nat
  BY DEF Back, Typed, Values
<1>2. /\ d.wq = k.wq /\ d.uv = k.uv /\ d.shut = k.shut
      /\ d.buf = k.buf /\ d.parsed = k.parsed /\ d.rx = k.rx
      /\ d.parser = k.parser /\ d.keep = k.keep
      /\ d.calls = k.calls /\ d.done = k.done + 1 /\ d.reading = k.reading
      /\ d.state = k.state
  BY <1>1 DEF Typed, Shape, Fields
<1>3. Typed(d)
  <2>1. Shape(d) /\ Values(d)
    BY <1>1 DEF Typed, Shape, Fields, Values
  <2>2. Flags(d)
    BY <1>1 DEF Typed, Shape, Fields, Flags
  <2> QED
    BY <2>1, <2>2 DEF Typed
<1>4. f = CASE ~W!Persistent(k) -> W!close_connection(d)
            [] W!Resumes(k)     -> W!Parse(q, e, r, FALSE)
            [] OTHER            -> W!stream_read_start(q)
  BY DEF W!FinishResponse
<1> HIDE DEF d
<1>5. Mute(z, d) /\ z.uv = d.uv /\ z.shut = d.shut /\ z.reading = d.reading
  BY <1>3, ResetMute
<1> HIDE DEF z
<1>6. Typed(z)
  BY <1>5 DEF Mute, Apart
<1>7. /\ q.wq = z.wq /\ q.uv = z.uv /\ q.shut = z.shut
      /\ q.buf = z.buf /\ q.parsed = z.parsed /\ q.rx = z.rx
      /\ q.parser = z.parser /\ q.keep = z.keep
      /\ q.calls = z.calls /\ q.done = z.done /\ q.reading = z.reading
      /\ q.state = "CS_RESP_END"
  BY <1>6 DEF Typed, Shape, Fields
<1>8. Typed(q)
  <2>1. Shape(q) /\ Values(q)
    BY <1>6 DEF Typed, Shape, Fields, Values, W!ClientState
  <2>2. Flags(q)
    BY <1>6 DEF Typed, Shape, Fields, Flags
  <2> QED
    BY <2>1, <2>2 DEF Typed
<1> HIDE DEF q
<1>9. /\ q.wq = k.wq /\ ~q.reading /\ q.uv = k.uv /\ q.shut = k.shut
      /\ q.buf = k.buf /\ q.parsed = k.parsed /\ q.rx = k.rx
      /\ q.parser = k.parser /\ q.keep = k.keep
      /\ q.calls = k.calls /\ q.done = k.done + 1
  BY <1>2, <1>5, <1>7 DEF Mute, Apart, Back
<1> HIDE DEF f
<1>10. CASE ~W!Persistent(k)
  <2> DEFINE c == W!close_connection(d)
  <2>1. Mute(c, d) /\ c.uv # "open" /\ ~c.reading
    BY <1>2, <1>3, CloseMute DEF Back
  <2>2. f = c
    BY <1>4, <1>10 DEF W!Resumes
  <2> HIDE DEF c
  <2> QED
    BY <1>2, <2>1, <2>2 DEF Over, Mute, Apart, Back, W!Alive
<1>11. CASE W!Persistent(k) /\ W!Resumes(k)
  <2>1. W!EndsAt(q, e)
    BY <1>9, <1>11, EndsAtSame
  <2>2. f = W!Parse(q, e, r, FALSE)
    BY <1>4, <1>11
  <2>3. CASE W!Alive(k)
    <3>1. W!Alive(q) /\ NoExpect(q) /\ q.parser \notin {"error", "mid"}
      BY <1>9, <2>3 DEF Back, NoExpect, W!Alive
    <3>2. Awaits(f, q) \/ Answered(f, q)
      BY <1>8, <2>1, <2>2, <3>1, ParseAlive
    <3> QED
      BY <1>9, <2>3, <3>2 DEF Awaits, Answered, Held, Over, W!Alive
  <2>4. CASE ~W!Alive(k)
    <3>1. ~W!Alive(q) /\ q.parser = "error"
      BY <1>9, <1>11, <2>4 DEF Back, W!Alive, W!Resumes
    <3>2. Mute(f, q) /\ ~f.reading /\ ~W!Alive(f)
      BY <1>8, <2>1, <2>2, <3>1, ParseDead
    <3> QED
      BY <1>9, <3>1, <3>2 DEF Over, Mute, Apart, Back
  <2> QED
    BY <2>3, <2>4
<1>12. CASE W!Persistent(k) /\ ~W!Resumes(k)
  <2> DEFINE s == W!stream_read_start(q)
  <2>1. f = s
    BY <1>4, <1>12
  <2>2. Mute(s, q) /\ (s.reading => q.reading \/ s.uv = "open")
    BY <1>8, StartMute
  <2> HIDE DEF s
  <2> QED
    BY <1>9, <2>1, <2>2 DEF Over, Mute, Apart, Back, W!Alive
<1> QED
  BY <1>10, <1>11, <1>12

(* What write_cb changes before it decides how to go on. *)
Stood(q, k) ==
  /\ Typed(q) /\ q.state # "CS_RESP_SEND"
  /\ q.buf = k.buf /\ q.parsed = k.parsed /\ q.rx = k.rx
  /\ q.parser = k.parser /\ q.keep = k.keep /\ q.reading = k.reading
  /\ q.wq = k.wq /\ q.uv = k.uv /\ q.shut = k.shut
  /\ q.calls = k.calls /\ q.done = k.done

(* write_cb with status 0 ends, carries on or finishes the exchange. *)
LEMMA WriteOutcome ==
  ASSUME NEW k, Typed(k), Held(k), NEW n \in W!Pull, NEW e, NEW r \in W!Reply,
         W!Alive(k) => NoExpect(k) /\ k.parser # "error",
         n.kind = "end" /\ k.chunked = 0 => k.written + k.pre >= k.total,
         W!Resumes(k) /\ W!Exhausted(k, n) => W!EndsAt(k, e)
  PROVE  LET q == W!write_cb(k, n, e, r, FALSE)
         IN Ended(q, k) \/ Carried(q, k) \/ Over(q, k)
<1> DEFINE s == W!Sent(k)
           b == [s EXCEPT !.state = "CS_RESP_BILD"]
           l == [s EXCEPT !.lastT = TRUE]
           m == [b EXCEPT !.pre = n.size]
           o == [b EXCEPT !.chunked = 2]
           w == W!write_cb(k, n, e, r, FALSE)
<1>1. \/ w = W!close_connection(s)
      \/ W!Exhausted(k, n) /\ w = W!FinishResponse(l, e, r, FALSE)
      \/ w = W!close_connection(b)
      \/ w = W!WriteMore(m)
      \/ w = W!WriteMore(o)
  BY WriteCases DEF Typed
<1>2. k.written + k.pre \in Nat /\ 0 \in Nat /\ n.size \in Nat
  BY DEF Typed, Shape, W!Pull
<1>3. Stood(s, k) /\ s.reqT = k.reqT /\ s.lastT = k.lastT
  <2>1. Shape(s) /\ Values(s)
    BY <1>2 DEF W!Sent, Typed, Shape, Fields, Values, W!ClientState
  <2>2. Flags(s)
    BY DEF W!Sent, Typed, Shape, Fields, Flags
  <2> QED
    BY <2>1, <2>2 DEF W!Sent, Stood, Typed, Shape, Fields
<1> HIDE DEF s, w
<1>4. Stood(l, k) /\ Stood(b, k) /\ b.reqT = k.reqT /\ b.lastT = k.lastT
  <2>1. Shape(l) /\ Values(l) /\ Shape(b) /\ Values(b)
    BY <1>3 DEF Stood, Typed, Shape, Fields, Values, W!ClientState
  <2>2. Flags(l) /\ Flags(b)
    BY <1>3 DEF Stood, Typed, Shape, Fields, Flags
  <2> QED
    BY <1>3, <2>1, <2>2 DEF Stood, Typed, Shape, Fields
<1> HIDE DEF l, b, m, o
<1>5. /\ Stood(m, k) /\ m.reqT = k.reqT /\ m.lastT = k.lastT
      /\ Stood(o, k) /\ o.reqT = k.reqT /\ o.lastT = k.lastT
  <2> DEFINE size == n.size
  <2>3. size \in Nat /\ m = [b EXCEPT !.pre = size] /\ 2 \in 0 .. 2
    BY <1>2 DEF m
  <2> HIDE DEF size
  <2>4. Shape(m) /\ Shape(o)
    BY <1>4, <2>3 DEF o, Stood, Typed, Shape, Fields
  <2>5. Values(m) /\ Values(o)
    BY <1>4, <2>3 DEF o, Stood, Typed, Shape, Fields, Values
  <2>6. Flags(m) /\ Flags(o)
    BY <1>4, <2>3 DEF o, Stood, Typed, Shape, Fields, Flags
  <2> QED
    BY <1>4, <2>3, <2>4, <2>5, <2>6 DEF o, Stood, Typed, Shape, Fields
<1>6. ASSUME NEW q, Stood(q, k) PROVE Back(q)
  BY <1>6 DEF Stood, Held, Back, NoExpect, W!Alive, W!Persistent
<1>7. ASSUME NEW q, Stood(q, k) PROVE Ended(W!close_connection(q), k)
  <2>1. Ended(W!close_connection(q), q)
    BY <1>6, <1>7, CloseEnds
  <2> QED
    BY <1>7, <2>1 DEF Ended, Stood
<1>8. ASSUME NEW q, Stood(q, k), q.reqT = k.reqT, q.lastT = k.lastT
      PROVE  Carried(W!WriteMore(q), k) \/ Ended(W!WriteMore(q), k)
  <2>1. W!Alive(q) <=> W!Alive(k)
    BY <1>8 DEF Stood, W!Alive
  <2>2. Carried(W!WriteMore(q), q) \/ Ended(W!WriteMore(q), q)
    BY <1>6, <1>8, <2>1, MoreCarries DEF Held
  <2> QED
    BY <1>8, <2>1, <2>2 DEF Ended, Carried, Answered, Stood
<1>9. ASSUME W!Exhausted(k, n)
      PROVE  Over(W!FinishResponse(l, e, r, FALSE), k)
  <2>1. W!Resumes(l) => W!EndsAt(l, e)
    BY <1>4, <1>9, EndsAtSame DEF Stood, W!Resumes, W!Persistent
  <2>2. Over(W!FinishResponse(l, e, r, FALSE), l)
    BY <1>4, <1>6, <2>1, FinishOver
  <2> QED
    BY <1>4, <2>2 DEF Over, Stood, W!Alive
<1>10. Ended(w, k) \/ Carried(w, k) \/ Over(w, k)
  BY <1>1, <1>3, <1>4, <1>5, <1>7, <1>8, <1>9
<1> QED
  BY <1>10 DEF w

-----------------------------------------------------------------------------
(* The queue of writes and the records in it.                              *)

(* Each write owns its records, or the last one sends them from enc_out. *)
Free(k, t) ==
  /\ Len(k.wq) = Len(t.copies)
  /\ \A i \in 1 .. Len(t.copies) : k.wq[i] = "flight"
Busy(k, t) ==
  /\ Len(k.wq) = Len(t.copies) + 1
  /\ \A i \in 1 .. Len(t.copies) : k.wq[i] = "flight"
  /\ k.wq[Len(t.copies) + 1] = "resp"

(* The records in the queue are the next ones that the peer expects, and a *)
(* live connection has produced no others.                                 *)
Numbered(k, t) ==
  /\ ~t.gap
  /\ \A i \in 1 .. Len(t.copies) :
       t.copies[i].a = t.seen + i /\ t.copies[i].b = t.seen + i
  /\ Busy(k, t) => /\ t.out.a = t.seen + Len(t.copies) + 1
                   /\ t.out.a <= t.out.b
                   /\ W!Alive(k) => t.made = t.out.b
  /\ Free(k, t) /\ W!Alive(k) => t.made = t.seen + Len(t.copies)

(* The lengths that the queue and the copies have. *)
LEMMA LengthsAre ==
  ASSUME NEW k, Shape(k), NEW t \in Tls
  PROVE  Len(k.wq) \in Nat /\ Len(t.copies) \in Nat /\ t.seen \in Nat /\ t.made \in Nat
         /\ t.copies \in Seq(Records) /\ k.wq \in Seq(Writes)
         /\ t.gap \in BOOLEAN /\ t.out \in Records
  BY DEF Shape, Tls

(* A queue is not both. *)
LEMMA FreeOrBusy ==
  ASSUME NEW k, Shape(k), NEW t \in Tls PROVE ~(Free(k, t) /\ Busy(k, t))
  BY LengthsAre DEF Free, Busy

(* A response is in the queue when it is busy, and only then. *)
LEMMA BusyFlies ==
  ASSUME NEW k, Shape(k), NEW t \in Tls
  PROVE  /\ Busy(k, t) => \E i \in DOMAIN k.wq : k.wq[i] = "resp"
         /\ Free(k, t) => \A i \in DOMAIN k.wq : k.wq[i] # "resp"
<1>1. DOMAIN k.wq = 1 .. Len(k.wq) /\ Len(k.wq) \in Nat /\ Len(t.copies) \in Nat
  BY LengthsAre DEF Shape
<1> QED
  BY <1>1 DEF Free, Busy

(* What is not changed stays. *)
LEMMA QueueStays ==
  ASSUME NEW k, NEW q, NEW t, NEW u, q.wq = k.wq, u.copies = t.copies
  PROVE  (Free(q, u) <=> Free(k, t)) /\ (Busy(q, u) <=> Busy(k, t))
  BY DEF Free, Busy

(* A response joins a free queue. *)
LEMMA ResponseJoins ==
  ASSUME NEW k, Shape(k), NEW t \in Tls, NEW q, NEW u, Free(k, t),
         q.wq = Append(k.wq, "resp"), u.copies = t.copies
  PROVE  Busy(q, u)
<1>1. /\ k.wq \in Seq(Writes) /\ "resp" \in Writes /\ Len(k.wq) \in Nat
      /\ Len(k.wq) = Len(t.copies)
  BY LengthsAre DEF Writes, Free
<1>2. /\ Len(q.wq) = Len(k.wq) + 1 /\ q.wq[Len(k.wq) + 1] = "resp"
      /\ \A i \in 1 .. Len(k.wq) : q.wq[i] = k.wq[i]
  BY <1>1
<1> QED
  BY <1>1, <1>2 DEF Free, Busy

(* So does a flight, with its records. *)
LEMMA RecordsJoin ==
  ASSUME NEW k, Shape(k), NEW t \in Tls, NEW q, NEW u, NEW r \in Records,
         Free(k, t), q.wq = Append(k.wq, "flight"), u.copies = Append(t.copies, r)
  PROVE  Free(q, u)
<1>1. /\ k.wq \in Seq(Writes) /\ "flight" \in Writes /\ Len(k.wq) \in Nat
      /\ Len(k.wq) = Len(t.copies) /\ t.copies \in Seq(Records)
  BY LengthsAre DEF Writes, Free
<1>2. /\ Len(q.wq) = Len(k.wq) + 1 /\ q.wq[Len(k.wq) + 1] = "flight"
      /\ \A i \in 1 .. Len(k.wq) : q.wq[i] = k.wq[i]
      /\ Len(u.copies) = Len(k.wq) + 1
  BY <1>1
<1> QED
  BY <1>1, <1>2 DEF Free

(* The first flight leaves. *)
LEMMA RecordsLeave ==
  ASSUME NEW k, Shape(k), NEW t \in Tls, NEW q, NEW u, k.wq # <<>>,
         t.copies # <<>>, q.wq = Tail(k.wq), u.copies = Tail(t.copies)
  PROVE  (Free(k, t) => Free(q, u)) /\ (Busy(k, t) => Busy(q, u))
<1>1. /\ k.wq \in Seq(Writes) /\ Len(k.wq) \in Nat
      /\ t.copies \in Seq(Records) /\ Len(t.copies) \in Nat
  BY LengthsAre
<1>2. /\ Len(q.wq) = Len(k.wq) - 1 /\ Len(u.copies) = Len(t.copies) - 1
      /\ \A i \in 1 .. Len(k.wq) - 1 : q.wq[i] = k.wq[i + 1]
      /\ Len(k.wq) > 0 /\ Len(t.copies) > 0
  BY <1>1
<1> QED
  BY <1>1, <1>2 DEF Free, Busy

(* When the response is the first write it is the only one. *)
LEMMA ResponseAlone ==
  ASSUME NEW k, Shape(k), NEW t \in Tls, Free(k, t) \/ Busy(k, t),
         k.wq # <<>>, Head(k.wq) = "resp"
  PROVE  Busy(k, t) /\ t.copies = <<>> /\ Len(t.copies) = 0 /\ Tail(k.wq) = <<>>
<1>1. /\ k.wq \in Seq(Writes) /\ Len(k.wq) \in Nat /\ Len(k.wq) > 0
      /\ t.copies \in Seq(Records) /\ Len(t.copies) \in Nat
      /\ k.wq[1] = "resp"
  BY LengthsAre
<1> DEFINE n == Len(t.copies)
<1>2. n = 0
  <2>1. 1 \in 1 .. n => k.wq[1] = "flight"
    BY DEF Free, Busy
  <2>2. ~(1 \in 1 .. n)
    BY <1>1, <2>1
  <2> HIDE DEF n
  <2> QED
    BY <1>1, <2>2 DEF n
<1>3. Busy(k, t) /\ Len(k.wq) = 1
  BY <1>1, <1>2 DEF Free, Busy
<1>4. t.copies = <<>>
  BY <1>1, <1>2
<1>5. Tail(k.wq) = <<>>
  <2> DEFINE x == Tail(k.wq)
  <2>1. Len(x) = 0 /\ x \in Seq(Writes)
    BY <1>1, <1>3
  <2> HIDE DEF x
  <2>2. x = <<>>
    BY <2>1
  <2> QED
    BY <2>2 DEF x
<1> QED
  BY <1>2, <1>3, <1>4, <1>5

(* No status line is queued. *)
LEMMA NoStatus ==
  ASSUME NEW k, Shape(k), NEW t \in Tls, Free(k, t) \/ Busy(k, t), k.wq # <<>>
  PROVE  Head(k.wq) # "status"
<1>1. /\ k.wq \in Seq(Writes) /\ Len(k.wq) \in Nat /\ Len(k.wq) > 0
      /\ Len(t.copies) \in Nat /\ Head(k.wq) = k.wq[1]
  BY LengthsAre
<1> QED
  BY <1>1 DEF Free, Busy

-----------------------------------------------------------------------------
(* What becomes of the records.                                            *)

(* stream_write encrypts a response behind all there is. *)
LEMMA EncodeSays ==
  ASSUME NEW t \in Tls, NEW n \in Nat
  PROVE  LET u == tls_data_encode(t, n)
         IN /\ Encrypts(u, t) /\ u.eager = t.eager /\ u.seen = t.seen
            /\ u.gap = t.gap /\ u.made = t.made + n
            /\ u.out.a = t.made + 1 /\ u.out.b = t.made + n
<1> DEFINE r == [a |-> t.made + 1, b |-> t.made + n]
           m == t.made + n
           u == [t EXCEPT !.made = m, !.out = r]
<1>1. tls_data_encode(t, n) = u
  BY DEF tls_data_encode
<1>2. r.a = t.made + 1 /\ r.b = t.made + n
  OBVIOUS
<1> HIDE DEF r, m
<1>3. /\ u.eager = t.eager /\ u.seen = t.seen /\ u.gap = t.gap
      /\ u.made = m /\ u.out = r
  BY DEF Tls
<1> HIDE DEF u
<1> QED
  BY <1>1, <1>2, <1>3, EncodeIs DEF m

(* When nothing was queued nothing is encrypted. *)
LEMMA EncodedNone ==
  ASSUME NEW t, NEW k, NEW l, Shape(k), l.wq = k.wq
  PROVE  Encoded(t, k, l) = t
<1> DEFINE new == SubSeq(l.wq, Len(k.wq) + 1, Len(l.wq))
<1>1. new = <<>>
  <2> DEFINE m == Len(k.wq)
  <2>1. m \in Nat /\ k.wq \in Seq(Writes)
    BY DEF Shape
  <2>2. new = SubSeq(k.wq, m + 1, m)
    OBVIOUS
  <2> HIDE DEF m
  <2> QED
    BY <2>1, <2>2
<1>2. DOMAIN new = {}
  BY <1>1
<1> HIDE DEF new
<1>3. {new[i] : i \in DOMAIN new} = {}
  BY <1>2
<1> QED
  BY <1>3 DEF Encoded, new

(* When a response was queued its buffers are. *)
LEMMA EncodedResponse ==
  ASSUME NEW t, NEW k, NEW l, Shape(k), l.wq = Append(k.wq, "resp")
  PROVE  Encoded(t, k, l) = tls_data_encode(t, Buffers(l))
<1> DEFINE new == SubSeq(l.wq, Len(k.wq) + 1, Len(l.wq))
           m == Len(k.wq)
<1>1. /\ m \in Nat /\ k.wq \in Seq(Writes) /\ "resp" \in Writes
  BY DEF Shape, Writes
<1>2. Len(l.wq) = m + 1 /\ l.wq[m + 1] = "resp" /\ l.wq \in Seq(Writes)
  BY <1>1
<1>3. new = SubSeq(l.wq, m + 1, m + 1)
  BY <1>2
<1> HIDE DEF m
<1>4. DOMAIN new = {1} /\ new[1] = "resp"
  BY <1>1, <1>2, <1>3
<1> HIDE DEF new
<1>5. {new[i] : i \in DOMAIN new} = {"resp"}
  BY <1>4
<1> QED
  BY <1>5 DEF Encoded, new, m

LEMMA BuffersAre == ASSUME NEW k PROVE Buffers(k) \in Nat /\ Buffers(k) >= 1
  BY DEF Buffers

(* The peer receives the records of a write. *)
LEMMA ReceivedSays ==
  ASSUME NEW t \in Tls, NEW r \in Records
  PROVE  LET u == Received(t, r)
         IN /\ Encrypts(u, t) /\ u.eager = t.eager /\ u.seen = r.b
            /\ u.made = t.made /\ u.out = t.out
            /\ r.a = t.seen + 1 => u.gap = t.gap
<1> DEFINE x == r.b
           y == t.gap \/ (r.a <= r.b /\ r.a # t.seen + 1)
           u == [t EXCEPT !.seen = x, !.gap = y]
<1>1. Received(t, r) = u
  BY DEF Received, Tls
<1>2. x \in Nat /\ y \in BOOLEAN /\ t.gap \in BOOLEAN
  BY DEF Records, Tls
<1>3. r.a = t.seen + 1 => y = t.gap
  BY <1>2
<1> HIDE DEF x, y
<1>4. u \in Tls
  BY <1>2 DEF Tls
<1>5. /\ u.hs = t.hs /\ u.ssl = t.ssl /\ u.plain = t.plain /\ u.peer = t.peer
      /\ u.copies = t.copies /\ u.eager = t.eager /\ u.seen = x
      /\ u.made = t.made /\ u.out = t.out
  BY DEF Tls
<1>6. u.gap = y
  BY DEF Tls
<1> HIDE DEF u
<1> QED
  BY <1>1, <1>3, <1>4, <1>5, <1>6 DEF Encrypts, x

-----------------------------------------------------------------------------
(* A peer that waits for the last flight asks for nothing before it has    *)
(* been written.                                                           *)

Sober(t) ==
  ~t.eager =>
    /\ t.peer = "inside" => t.plain # <<>>
    /\ t.plain # <<>> => t.hs = "TLS_HS_DONE" /\ t.copies = <<>>
    /\ t.plain = <<>> => \A i \in 1 .. Len(t.ssl) : ~Asked(t.ssl[i])

(* Units with request data have request data. *)
LEMMA AskedIsPlain ==
  ASSUME NEW s \in Units, NEW i \in 1 .. Len(s), Asked(s[i])
  PROVE  Plain(s) # <<>>
<1> DEFINE a == SubSeq(s, 1, i)
           b == SubSeq(s, i + 1, Len(s))
           x == PlainUpTo(a)[i - 1]
<1>1. i \in 0 .. Len(s) /\ i \in Nat /\ i - 1 \in 0 .. i
  BY DEF Units
<1>2. /\ a \in Units /\ b \in Units /\ s = a \o b /\ Len(a) = i /\ a[i] = s[i]
  BY <1>1, Split DEF Units
<1> HIDE DEF a, b
<1>3. /\ PlainUpTo(a)[i] = IF Asked(a[i]) THEN Append(x, a[i].piece) ELSE x
      /\ x \in Seq(PeerTokens)
  <2>1. /\ \A n \in 1 .. Len(a) :
             PlainUpTo(a)[n] = IF Asked(a[n])
                               THEN Append(PlainUpTo(a)[n - 1], a[n].piece)
                               ELSE PlainUpTo(a)[n - 1]
        /\ \A n \in 0 .. Len(a) : PlainUpTo(a)[n] \in Seq(PeerTokens)
    BY <1>2, PlainUpToIs
  <2>2. i \in 1 .. Len(a) /\ i - 1 \in 0 .. Len(a)
    BY <1>1, <1>2
  <2> QED
    BY <2>1, <2>2
<1>4. Plain(a) = Append(x, a[i].piece)
  BY <1>2, <1>3 DEF Plain
<1>5. Plain(s) = Plain(a) \o Plain(b) /\ Plain(a) \in Seq(PeerTokens)
      /\ Plain(b) \in Seq(PeerTokens)
  BY <1>2, PlainOfConcat
<1> HIDE DEF x
<1>6. Len(Plain(a)) = Len(x) + 1 /\ Len(x) \in Nat
  BY <1>3, <1>4
<1>7. Len(Plain(s)) = Len(Plain(a)) + Len(Plain(b)) /\ Len(Plain(b)) \in Nat
  BY <1>5
<1>8. Len(Plain(s)) # 0
  BY <1>6, <1>7
<1> QED
  BY <1>8

(* BIO_write of what a peer has sent. *)
LEMMA GivenSober ==
  ASSUME tls \in Tls, Sober(tls), NEW units \in PeerData
  PROVE  Sober(Given(units))
<1> DEFINE g == Given(units)
           P(n) == Phases(units)[n]
           m == Len(units)
<1> SUFFICES ASSUME ~g.eager
             PROVE  /\ g.peer = "inside" => g.plain # <<>>
                    /\ g.plain # <<>> => g.hs = "TLS_HS_DONE" /\ g.copies = <<>>
                    /\ g.plain = <<>> =>
                         \A i \in 1 .. Len(g.ssl) : ~Asked(g.ssl[i])
  BY DEF Sober
<1>1. /\ g.hs = tls.hs /\ g.ssl = tls.ssl \o units
      /\ g.plain = tls.plain \o Plain(units) /\ g.peer = P(m)
      /\ g.copies = tls.copies /\ g.eager = tls.eager
  BY GivenIs
<1>2. /\ units \in Units /\ m \in Nat /\ m > 0 /\ P(0) = tls.peer
      /\ \A n \in 1 .. m : Legal(P(n - 1), units[n], P(n))
      /\ tls.ssl \in Units /\ tls.plain \in Seq(PeerTokens)
  <2>1. tls.peer \in PeerPhase /\ tls.ssl \in Units /\ tls.plain \in Seq(PeerTokens)
    BY DEF Tls, Units
  <2>2. /\ units \in Units /\ m \in 1 .. MaxRead /\ P(0) = tls.peer
        /\ \A n \in 1 .. m : Legal(P(n - 1), units[n], P(n))
    BY <2>1, PeerDataLegal
  <2> QED
    BY <2>1, <2>2, BoundsAssumption
<1> HIDE DEF g, m, P
<1>3. /\ g.plain = <<>> <=> tls.plain = <<>> /\ Plain(units) = <<>>
  <2> DEFINE x == tls.plain
             y == Plain(units)
  <2>1. x \in Seq(PeerTokens) /\ y \in Seq(PeerTokens) /\ g.plain = x \o y
    BY <1>1, <1>2, PlainOfConcat
  <2> HIDE DEF x, y
  <2>2. Len(g.plain) = Len(x) + Len(y) /\ Len(x) \in Nat /\ Len(y) \in Nat
        /\ g.plain \in Seq(PeerTokens)
    BY <2>1
  <2>3. Len(g.plain) = 0 <=> Len(x) = 0 /\ Len(y) = 0
    BY <2>2
  <2> QED
    BY <2>1, <2>2, <2>3 DEF x, y
<1>4. ~tls.eager
  BY <1>1
<1>5. ASSUME NEW n \in 1 .. m, Asked(units[n]) PROVE Plain(units) # <<>>
  BY <1>2, <1>5, AskedIsPlain DEF m
<1>6. ASSUME NEW n \in 0 .. m, P(n) = "inside"
      PROVE  tls.plain # <<>> \/ MayAsk
  <2>1. CASE n = 0
    BY <1>2, <1>4, <1>6, <2>1 DEF Sober
  <2>2. CASE n # 0
    <3>1. Legal(P(n - 1), units[n], P(n))
      BY <1>2, <2>2
    <3> QED
      BY <1>6, <3>1 DEF Legal
  <2> QED
    BY <2>1, <2>2
<1>7. ASSUME NEW n \in 1 .. m, Asked(units[n]) PROVE tls.plain # <<>> \/ MayAsk
  <2>1. Legal(P(n - 1), units[n], P(n)) /\ n - 1 \in 0 .. m
    BY <1>2
  <2>2. P(n - 1) = "inside" \/ MayAsk
    BY <1>7, <2>1, NotAsked DEF Legal, Asked
  <2> QED
    BY <1>6, <2>1, <2>2
<1>8. MayAsk => tls.hs = "TLS_HS_DONE" /\ tls.copies = <<>>
  BY <1>4 DEF MayAsk
<1>9. ASSUME g.peer = "inside" PROVE g.plain # <<>>
  <2>1. Legal(P(m - 1), units[m], P(m)) /\ m \in 1 .. m
    BY <1>2
  <2>2. Asked(units[m])
    BY <1>1, <1>9, <2>1 DEF Legal
  <2> QED
    BY <1>3, <1>5, <2>1, <2>2
<1>10. ASSUME g.plain # <<>> PROVE g.hs = "TLS_HS_DONE" /\ g.copies = <<>>
  <2>1. CASE tls.plain # <<>>
    BY <1>1, <1>4, <2>1 DEF Sober
  <2>2. CASE Plain(units) # <<>>
    <3>1. PICK n \in 1 .. m : Asked(units[n])
      BY <1>2, <2>2, PlainOfNone DEF m
    <3> QED
      BY <1>1, <1>7, <1>8, <2>1, <3>1
  <2> QED
    BY <1>3, <1>10, <2>1, <2>2
<1>11. ASSUME g.plain = <<>>, NEW i \in 1 .. Len(g.ssl) PROVE ~Asked(g.ssl[i])
  <2> DEFINE s == tls.ssl
  <2>1. tls.plain = <<>> /\ Plain(units) = <<>>
    BY <1>3, <1>11
  <2>2. \A j \in 1 .. Len(s) : ~Asked(s[j])
    BY <1>4, <2>1 DEF Sober
  <2>3. \A j \in 1 .. m : ~Asked(units[j])
    BY <1>5, <2>1
  <2>4. s \in Units /\ g.ssl = s \o units /\ units \in Units
    BY <1>1, <1>2
  <2> HIDE DEF s
  <2>5. \/ i \in 1 .. Len(s) /\ g.ssl[i] = s[i]
        \/ i - Len(s) \in 1 .. m /\ g.ssl[i] = units[i - Len(s)]
    BY <2>4 DEF Units, m
  <2> QED
    BY <2>2, <2>3, <2>5
<1> QED
  BY <1>9, <1>10, <1>11

(* Nothing is asked for when less is left in SSL. *)
LEMMA SoberRest ==
  ASSUME NEW t \in Tls, Sober(t), NEW u, NEW n \in 0 .. Len(t.ssl),
         u.ssl = SubSeq(t.ssl, n + 1, Len(t.ssl)),
         u.plain = t.plain, u.peer = t.peer, u.eager = t.eager,
         u.copies = t.copies, t.hs = "TLS_HS_DONE" => u.hs = t.hs
  PROVE  Sober(u)
<1>1. t.ssl \in Seq(Unit)
  BY DEF Tls
<1>2. /\ Len(u.ssl) = Len(t.ssl) - n /\ n \in Nat /\ Len(t.ssl) \in Nat
      /\ \A i \in 1 .. Len(t.ssl) - n : u.ssl[i] = t.ssl[n + i]
  BY <1>1, Split
<1>3. ASSUME \A i \in 1 .. Len(t.ssl) : ~Asked(t.ssl[i])
      PROVE  \A i \in 1 .. Len(u.ssl) : ~Asked(u.ssl[i])
  BY <1>2, <1>3
<1> QED
  BY <1>3 DEF Sober

(* The handshake step. *)
LEMMA StepSober ==
  ASSUME NEW t \in Tls, Sober(t)
  PROVE  Sober(Stepped(t)) /\ Beside(Stepped(t), t)
<1>1. CASE t.hs = "TLS_HS_DONE"
  BY <1>1 DEF Stepped, Beside
<1>2. CASE t.hs # "TLS_HS_DONE"
  <2> DEFINE h == tls_do_handshake(t)
             n == Flights(t.ssl)
  <2>1. /\ Beside(h, t) /\ n \in 0 .. Len(t.ssl)
        /\ h.ssl = SubSeq(t.ssl, n + 1, Len(t.ssl))
    BY ShakesIs
  <2>2. Stepped(t) = h
    BY <1>2 DEF Stepped
  <2> HIDE DEF h, n
  <2> QED
    BY <1>2, <2>1, <2>2, SoberRest DEF Beside
<1> QED
  BY <1>1, <1>2

(* SSL_read. *)
LEMMA ReadSober == ASSUME NEW t \in Tls, Sober(t) PROVE Sober(SSL_read(t))
<1> DEFINE n == Len(Decrypted(t))
<1>1. /\ Beside(SSL_read(t), t) /\ SSL_read(t).hs = t.hs
      /\ SSL_read(t).ssl = SubSeq(t.ssl, n + 1, Len(t.ssl))
  BY ReadIs
<1>2. n \in 0 .. Len(t.ssl)
  <2>1. t.ssl \in Units
    BY DEF Tls, Units
  <2>2. n \in 0 .. Readable(t.ssl) /\ Readable(t.ssl) \in 0 .. Len(t.ssl)
    BY <2>1, DecryptedIs
  <2> QED
    BY <2>1, <2>2 DEF Units
<1> HIDE DEF n
<1> QED
  BY <1>1, <1>2, SoberRest DEF Beside

(* Encryption. *)
LEMMA EncryptsSober ==
  ASSUME NEW t, NEW u, Sober(t), Encrypts(u, t), u.eager = t.eager
  PROVE  Sober(u)
  BY DEF Encrypts, Sober

-----------------------------------------------------------------------------
(* The invariant.                                                          *)

NoExpects(t) == "expect" \notin Range(t.plain)

Queued(k, t) ==
  /\ Free(k, t) \/ (Busy(k, t) /\ Held(k) /\ (t.eager \/ t.plain # <<>>))
  /\ k.parser = "mid" => ~k.lastT

(* For a peer that asks for no 100-continue the queue and the records are  *)
(* as above while the connection lives, and for one that waits also when   *)
(* it is shut down.  Such a peer is not heard any more unless flights are  *)
(* under way.                                                              *)
Promised(k, t) ==
  /\ Sober(t)
  /\ k.uv = "closed" => k.wq = <<>>
  /\ NoExpects(t) =>
       /\ W!Alive(k) \/ ~t.eager => Queued(k, t)
       /\ W!Alive(k) \/ (~t.eager /\ k.uv = "open") => Numbered(k, t)
       /\ ~t.eager /\ k.uv = "open" /\ k.reading =>
            W!Alive(k) \/ t.copies # <<>>

(* The same of a connection that reads, in the course of read_cb. *)
Gets(k, t) ==
  /\ Typed(k) /\ k.uv = "open" /\ k.reading
  /\ t \in Tls /\ Sober(t)
  /\ NoExpects(t) /\ (W!Alive(k) \/ ~t.eager) =>
       /\ Free(k, t) /\ Numbered(k, t) /\ (k.parser = "mid" => ~k.lastT)
       /\ W!Alive(k) \/ t.copies # <<>>

(* A peer that asks for a continue has asked for it ever since. *)
LEMMA NoExpectsBefore ==
  ASSUME NEW t, NEW u, NEW x \in Seq(PeerTokens), t.plain \in Seq(PeerTokens),
         u.plain = t.plain \o x, NoExpects(u)
  PROVE  NoExpects(t)
<1> DEFINE y == t.plain
<1> SUFFICES ASSUME NEW i \in DOMAIN y PROVE y[i] # "expect"
  BY DEF NoExpects, Range
<1>1. y \in Seq(PeerTokens) /\ u.plain = y \o x
  OBVIOUS
<1> HIDE DEF y
<1>2. i \in DOMAIN u.plain /\ u.plain[i] = y[i]
  BY <1>1
<1> QED
  BY <1>2 DEF NoExpects, Range

(* The records are the same when the queue is. *)
LEMMA NumberedStays ==
  ASSUME NEW k, NEW q, NEW t, NEW u, Numbered(k, t), q.wq = k.wq,
         W!Alive(q) => W!Alive(k),
         u.copies = t.copies, u.seen = t.seen, u.gap = t.gap, u.made = t.made,
         u.out = t.out
  PROVE  Numbered(q, u)
<1>1. (Free(q, u) <=> Free(k, t)) /\ (Busy(q, u) <=> Busy(k, t))
  BY QueueStays
<1> QED
  BY <1>1 DEF Numbered

(* What goes on with the connection and the records as they are. *)
LEMMA GetsStays ==
  ASSUME NEW k, NEW q, NEW t, NEW u, Gets(k, t), Typed(q), q.uv = "open",
         q.reading, q.wq = k.wq, q.shut = k.shut, q.parser = k.parser,
         q.lastT = k.lastT, Sober(u), Beside(u, t)
  PROVE  Gets(q, u)
<1>1. (W!Alive(q) <=> W!Alive(k)) /\ (NoExpects(u) <=> NoExpects(t))
  BY DEF W!Alive, Gets, Beside, NoExpects
<1>2. u \in Tls /\ u.eager = t.eager /\ u.copies = t.copies
  BY DEF Beside
<1>3. Free(q, u) <=> Free(k, t)
  BY <1>2, QueueStays
<1>4. Numbered(k, t) => Numbered(q, u)
  BY <1>1, NumberedStays DEF Beside
<1> QED
  BY <1>1, <1>2, <1>3, <1>4 DEF Gets

(* BIO_write. *)
LEMMA GivenGets ==
  ASSUME tls \in Tls, Typed(conn), Promised(conn, tls), conn.uv = "open",
         conn.reading, NEW units \in PeerData
  PROVE  Gets(conn, Given(units))
<1> DEFINE g == Given(units)
           x == Plain(units)
<1>1. /\ g \in Tls /\ g.plain = tls.plain \o x
      /\ g.made = tls.made /\ g.out = tls.out /\ g.copies = tls.copies
      /\ g.eager = tls.eager /\ g.seen = tls.seen /\ g.gap = tls.gap
  BY GivenIs
<1>2. Sober(g)
  BY GivenSober DEF Promised
<1>3. NoExpects(g) => NoExpects(tls)
  <2>1. tls.peer \in PeerPhase /\ tls.plain \in Seq(PeerTokens)
    BY DEF Tls
  <2>2. x \in Seq(PeerTokens)
    BY <2>1, PeerDataLegal, PlainOfConcat
  <2> QED
    BY <1>1, <2>1, <2>2, NoExpectsBefore
<1> HIDE DEF g
<1>4. ASSUME NoExpects(g), W!Alive(conn) \/ ~g.eager
      PROVE  /\ Free(conn, g) /\ Numbered(conn, g)
             /\ conn.parser = "mid" => ~conn.lastT
             /\ W!Alive(conn) \/ g.copies # <<>>
  <2>1. /\ Queued(conn, tls) /\ Numbered(conn, tls)
        /\ W!Alive(conn) \/ tls.copies # <<>>
    BY <1>1, <1>3, <1>4 DEF Promised
  <2>2. Free(conn, tls)
    BY <2>1 DEF Queued, Held
  <2> QED
    BY <1>1, <2>1, <2>2, QueueStays, NumberedStays DEF Queued
<1> QED
  BY <1>1, <1>2, <1>4 DEF Gets, g

(* The handshake step, and alloc_cb. *)
LEMMA SteppedGets ==
  ASSUME NEW k, NEW t, Gets(k, t)
  PROVE  Gets(W!alloc_cb(k, <<>>), Stepped(t))
<1> DEFINE a == W!alloc_cb(k, <<>>)
<1>1. Typed(k) /\ t \in Tls /\ Sober(t) /\ k.uv = "open" /\ k.reading
  BY DEF Gets
<1>2. /\ Typed(a) /\ a.uv = k.uv /\ a.shut = k.shut /\ a.wq = k.wq
      /\ a.parser = k.parser
  BY <1>1, AllocIs
<1>3. a.reading = k.reading /\ a.lastT = k.lastT
  BY <1>1 DEF W!alloc_cb, Typed, Shape, Fields
<1>4. Sober(Stepped(t)) /\ Beside(Stepped(t), t)
  BY <1>1, StepSober
<1> HIDE DEF a
<1>5. Gets(a, Stepped(t))
  BY <1>1, <1>2, <1>3, <1>4, GetsStays
<1> QED
  BY <1>5 DEF a

(* A flight of the handshake. *)
LEMMA FlightGets ==
  ASSUME NEW k, NEW t, Gets(k, t), W!Alive(k), t.eager \/ t.plain = <<>>,
         Typed([k EXCEPT !.wq = Append(@, "flight")])
  PROVE  Gets([k EXCEPT !.wq = Append(@, "flight")],
              tls_flush_enc_out(Drained(t, TRUE)))
<1> DEFINE q == [k EXCEPT !.wq = Append(@, "flight")]
           u == tls_flush_enc_out(Drained(t, TRUE))
           m == t.made + 1
           r == [a |-> m, b |-> m]
           n == Len(t.copies)
<1>1. Typed(k) /\ Shape(k) /\ t \in Tls /\ Sober(t) /\ k.uv = "open" /\ k.reading
  BY DEF Gets, Typed
<1>2. /\ q.wq = Append(k.wq, "flight") /\ q.uv = k.uv /\ q.shut = k.shut
      /\ q.reading = k.reading /\ q.parser = k.parser /\ q.lastT = k.lastT
  BY <1>1 DEF Shape, Fields
<1>3. /\ u \in Tls /\ u.hs = t.hs /\ u.ssl = t.ssl /\ u.plain = t.plain
      /\ u.peer = t.peer /\ u.eager = t.eager /\ u.seen = t.seen
      /\ u.gap = t.gap /\ u.made = m /\ u.copies = Append(t.copies, r)
  BY <1>1, FlushIs
<1>4. /\ n \in Nat /\ t.seen \in Nat /\ t.made \in Nat /\ m \in Nat
      /\ t.copies \in Seq(Records) /\ r \in Records
      /\ r.a = m /\ r.b = m /\ m = t.made + 1
  BY <1>1, LengthsAre DEF Records
<1> HIDE DEF q, u, m, r
<1>5. Typed(q) /\ Shape(q)
  BY DEF q, Typed
<1>6. Sober(u)
  BY <1>1, <1>3 DEF Sober
<1>7. ASSUME NoExpects(u)
      PROVE  /\ Free(q, u) /\ Numbered(q, u) /\ (q.parser = "mid" => ~q.lastT)
  <2>1. NoExpects(t)
    BY <1>3, <1>7 DEF NoExpects
  <2>2. Free(k, t) /\ Numbered(k, t) /\ (k.parser = "mid" => ~k.lastT)
    BY <2>1 DEF Gets
  <2>3. Free(q, u)
    BY <1>1, <1>2, <1>3, <1>4, <2>2, RecordsJoin
  <2>4. ~Busy(q, u)
    BY <1>3, <1>5, <2>3, FreeOrBusy
  <2>5. t.made = t.seen + n
    BY <2>2 DEF Numbered
  <2>6. /\ Len(u.copies) = n + 1 /\ u.copies[n + 1] = r
        /\ \A i \in 1 .. n : u.copies[i] = t.copies[i]
    BY <1>3, <1>4
  <2>7. \A i \in 1 .. n : t.copies[i].a = t.seen + i /\ t.copies[i].b = t.seen + i
    BY <2>2 DEF Numbered
  <2>8. ~t.gap
    BY <2>2 DEF Numbered
  <2> HIDE DEF n
  <2>9. ASSUME NEW i \in 1 .. n + 1
        PROVE  u.copies[i].a = u.seen + i /\ u.copies[i].b = u.seen + i
    <3>1. CASE i = n + 1
      BY <1>3, <1>4, <2>5, <2>6, <3>1
    <3>2. CASE i # n + 1
      <4>1. i \in 1 .. n
        BY <1>4, <3>2
      <4> QED
        BY <1>3, <2>6, <2>7, <4>1
    <3> QED
      BY <3>1, <3>2
  <2>10. u.made = u.seen + Len(u.copies)
    BY <1>3, <1>4, <2>5, <2>6
  <2> QED
    BY <1>2, <1>3, <2>2, <2>3, <2>4, <2>6, <2>8, <2>9, <2>10 DEF Numbered
<1>8. W!Alive(q)
  BY <1>2 DEF W!Alive
<1>9. Gets(q, u)
  BY <1>1, <1>2, <1>3, <1>5, <1>6, <1>7, <1>8 DEF Gets
<1> QED
  BY <1>9 DEF q, u

-----------------------------------------------------------------------------
(* What HttpExchange sees of a callback.                                   *)

Sending(k) == \E i \in DOMAIN k.wq : k.wq[i] = "resp"

(* Nothing but the end of the connection. *)
Idles(q, k) ==
  /\ q.done = k.done /\ q.calls = k.calls /\ (Sending(q) <=> Sending(k))
  /\ k.uv \in {"open", "closing"} /\ q.uv \in {"open", "closing"}
  /\ W!Alive(q) => W!Alive(k)

Opens(q, k) ==
  /\ k.uv = "none" /\ q.uv \in {"open", "closing"}
  /\ ~Sending(q) /\ ~Sending(k) /\ q.done = k.done /\ q.calls = k.calls

Serves(q, k) ==
  /\ W!Alive(k) /\ q.uv \in {"open", "closing"} /\ ~Sending(k) /\ Sending(q)
  /\ q.done = k.done /\ q.calls \in {k.calls, k.calls + 1}

Concludes(q, k) ==
  /\ Sending(k) /\ ~Sending(q) /\ k.uv \in {"open", "closing"}
  /\ q.uv \in {"open", "closing"} /\ (W!Alive(q) => W!Alive(k))
  /\ q.done = k.done + 1 /\ q.calls = k.calls

GoesOnServing(q, k) ==
  /\ W!Alive(k) /\ q.uv \in {"open", "closing"} /\ Sending(k) /\ Sending(q)
  /\ q.done = k.done + 1 /\ q.calls \in {k.calls, k.calls + 1}

Fails(q, k) ==
  /\ Sending(k) /\ ~Sending(q) /\ q.uv = "closing"
  /\ q.done = k.done /\ q.calls = k.calls

Ceases(q, k) ==
  /\ k.uv = "closing" /\ q.uv = "closed" /\ ~Sending(k) /\ ~Sending(q)
  /\ q.done = k.done /\ q.calls = k.calls

Exchanged(q, k) ==
  \/ Idles(q, k) \/ Opens(q, k) \/ Serves(q, k) \/ Concludes(q, k)
  \/ GoesOnServing(q, k) \/ Fails(q, k) \/ Ceases(q, k)

(* What each callback has to show: k becomes q, and the TLS state u. *)
Fulfils(q, u, k) ==
  /\ Promised(q, u)
  /\ NoExpects(u) /\ ~u.eager => Exchanged(q, k)

(* The buffers and the flights are nothing to HttpExchange. *)
Likens(q, k) ==
  /\ q.done = k.done /\ q.calls = k.calls /\ (Sending(q) <=> Sending(k))
  /\ q.uv = k.uv /\ q.shut = k.shut

LEMMA AllocLikens ==
  ASSUME NEW k, Typed(k) PROVE Likens(W!alloc_cb(k, <<>>), k)
<1> DEFINE a == W!alloc_cb(k, <<>>)
<1>1. /\ a.uv = k.uv /\ a.shut = k.shut /\ a.wq = k.wq
      /\ a.done = k.done /\ a.calls = k.calls
  BY DEF W!alloc_cb, Typed, Shape, Fields
<1> HIDE DEF a
<1>2. Likens(a, k)
  BY <1>1 DEF Likens, Sending
<1> QED
  BY <1>2 DEF a

LEMMA FlightLikens ==
  ASSUME NEW k, Typed(k), NEW p, Likens(k, p)
  PROVE  Likens([k EXCEPT !.wq = Append(@, "flight")], p)
<1> DEFINE q == [k EXCEPT !.wq = Append(@, "flight")]
           m == Len(k.wq)
<1>1. k.wq \in Seq(Writes) /\ "flight" \in Writes /\ m \in Nat
  BY DEF Typed, Shape, Writes
<1>2. /\ q.uv = k.uv /\ q.shut = k.shut /\ q.wq = Append(k.wq, "flight")
      /\ q.done = k.done /\ q.calls = k.calls
  BY DEF Typed, Shape, Fields
<1> HIDE DEF q
<1>3. /\ DOMAIN q.wq = 1 .. m + 1 /\ DOMAIN k.wq = 1 .. m
      /\ q.wq[m + 1] = "flight"
      /\ \A i \in 1 .. m : q.wq[i] = k.wq[i]
  BY <1>1, <1>2
<1> HIDE DEF m
<1>4. Sending(q) <=> Sending(k)
  BY <1>1, <1>3 DEF Sending
<1>5. Likens(q, p)
  BY <1>2, <1>4 DEF Likens
<1> QED
  BY <1>5 DEF q

LEMMA MuteIdles ==
  ASSUME NEW k, NEW w, NEW q, Mute(q, w), Likens(w, k),
         k.uv \in {"open", "closing"}
  PROVE  Idles(q, k)
  BY DEF Mute, Apart, Likens, Idles, Sending, W!Alive

(* A connection that reads is shut down or closed. *)
LEMMA GetsEnds ==
  ASSUME NEW k, NEW t, NEW q, NEW u, Gets(k, t), Mute(q, k), ~W!Alive(q),
         ~q.reading, Beside(u, t), Sober(u)
  PROVE  Promised(q, u)
<1>1. /\ k.uv = "open" /\ q.uv # "closed" /\ q.wq = k.wq
      /\ q.parser = k.parser /\ q.lastT = k.lastT
  BY DEF Gets, Mute, Apart
<1>2. (NoExpects(u) <=> NoExpects(t)) /\ u.eager = t.eager /\ u.copies = t.copies
  BY DEF Beside, NoExpects
<1>3. Free(k, t) => Free(q, u)
  BY <1>1, <1>2, QueueStays
<1>4. Numbered(k, t) => Numbered(q, u)
  BY <1>1, NumberedStays DEF Beside
<1> QED
  BY <1>1, <1>2, <1>3, <1>4 DEF Gets, Promised, Queued

(* A connection goes on waiting. *)
LEMMA GetsWaits ==
  ASSUME NEW w, NEW t, Gets(w, t)
  PROVE  Promised(W!stream_read_start(w), t) /\ Mute(W!stream_read_start(w), w)
<1> DEFINE q == W!stream_read_start(w)
<1>1. Typed(w) /\ w.uv = "open" /\ Sober(t)
  BY DEF Gets
<1>2. Mute(q, w) /\ q.uv = "open" /\ q.shut = w.shut
  BY <1>1, StartMute
<1> HIDE DEF q
<1>3. /\ W!Alive(q) <=> W!Alive(w)
      /\ q.wq = w.wq /\ q.parser = w.parser /\ q.lastT = w.lastT
  BY <1>1, <1>2 DEF W!Alive, Mute, Apart
<1>4. Free(w, t) => Free(q, t)
  BY <1>3, QueueStays
<1>5. Numbered(w, t) => Numbered(q, t)
  BY <1>3, NumberedStays
<1>6. Promised(q, t)
  BY <1>1, <1>2, <1>3, <1>4, <1>5 DEF Gets, Promised, Queued
<1> QED
  BY <1>2, <1>6 DEF q

(* Encryption does not change who waits. *)
LEMMA EncodedEager ==
  ASSUME NEW t \in Tls, NEW k, NEW l
  PROVE  Encoded(t, k, l).eager = t.eager
<1> DEFINE new == SubSeq(l.wq, Len(k.wq) + 1, Len(l.wq))
           queued == {new[i] : i \in DOMAIN new}
           u == IF "status" \in queued THEN StatusLost(t) ELSE t
<1>1. Encoded(t, k, l) =
        IF "resp" \in queued THEN tls_data_encode(u, Buffers(l)) ELSE u
  BY DEF Encoded
<1>2. u = StatusLost(t) \/ u = t
  OBVIOUS
<1> HIDE DEF queued, u
<1>3. StatusLost(t).eager = t.eager
  BY DEF StatusLost, Tls
<1>4. StatusLost(t) \in Tls
  BY EncodeIs DEF Encrypts
<1>5. u \in Tls /\ u.eager = t.eager
  BY <1>2, <1>3, <1>4
<1>6. tls_data_encode(u, Buffers(l)).eager = u.eager
  BY <1>5, BuffersAre, EncodeSays
<1> QED
  BY <1>1, <1>5, <1>6

(* What was decrypted was asked for. *)
LEMMA DecryptedPlain ==
  ASSUME NEW t \in Tls, Handshake(t), t.hs = "TLS_HS_DONE", ~Closes(t),
         Sober(t), Decrypted(t) # <<>>
  PROVE  t.eager \/ t.plain # <<>>
<1> SUFFICES ASSUME ~t.eager, t.plain = <<>> PROVE FALSE
  OBVIOUS
<1>1. \A i \in 1 .. Len(t.ssl) : ~Asked(t.ssl[i])
  BY DEF Sober
<1>2. t.ssl \in Units
  BY DEF Tls, Units
<1>3. Plain(t.ssl) = <<>>
  BY <1>1, <1>2, PlainOfNone
<1> DEFINE d == Decrypted(t)
           n == Len(d)
           rest == SubSeq(t.ssl, n + 1, Len(t.ssl))
           x == Pieces(d)
           y == Plain(rest)
<1>4. /\ x \in Seq(PeerTokens) /\ Len(x) = n /\ rest \in Units
      /\ Plain(t.ssl) = x \o y
  BY LeavesIs
<1>5. y \in Seq(PeerTokens)
  BY <1>4, PlainOfConcat
<1>6. d = SubSeq(t.ssl, 1, n) /\ n \in Nat
  BY <1>2, DecryptedIs DEF Units
<1>7. n # 0
  BY <1>6 DEF Units
<1> HIDE DEF x, y, n, d, rest
<1>8. Len(x \o y) = Len(x) + Len(y) /\ Len(x) \in Nat /\ Len(y) \in Nat
  <2>1. x \in Seq(PeerTokens) /\ y \in Seq(PeerTokens)
    BY <1>4, <1>5
  <2> QED
    BY <2>1
<1>9. Len(x \o y) = 0
  BY <1>3, <1>4
<1> QED
  BY <1>4, <1>7, <1>8, <1>9

(* No 100-continue is asked for in what was decrypted. *)
LEMMA PlainNoExpect ==
  ASSUME NEW before \in Seq(W!Token), NEW x \in Seq(W!Token),
         NEW y \in Seq(W!Token), NEW t, t.plain = before \o (x \o y),
         NoExpects(t)
  PROVE  \A i \in 1 .. Len(x) : x[i] # "expect"
<1> SUFFICES ASSUME NEW i \in 1 .. Len(x) PROVE x[i] # "expect"
  OBVIOUS
<1> DEFINE z == x \o y
           j == Len(before) + i
<1>1. z \in Seq(W!Token) /\ z[i] = x[i] /\ i \in 1 .. Len(z)
  OBVIOUS
<1> HIDE DEF z
<1>2. t.plain = before \o z
  BY DEF z
<1>3. j \in DOMAIN t.plain /\ t.plain[j] = z[i]
  BY <1>1, <1>2
<1> QED
  BY <1>1, <1>3 DEF NoExpects, Range

(* A response joins the queue, and its records the others. *)
LEMMA AnswerPromised ==
  ASSUME NEW k, Typed(k), W!Alive(k), NEW t \in Tls, Free(k, t),
         Numbered(k, t), NEW q, Typed(q), Held(q), q.wq = Append(k.wq, "resp"),
         NEW u, u = Encoded(t, k, q), Sober(u), t.eager \/ t.plain # <<>>
  PROVE  Promised(q, u)
<1> DEFINE n == Buffers(q)
<1>1. Shape(k) /\ Shape(q)
  BY DEF Typed
<1>2. n \in Nat /\ n >= 1
  BY BuffersAre
<1>3. u = tls_data_encode(t, n)
  BY <1>1, EncodedResponse
<1> HIDE DEF n
<1>4. /\ Encrypts(u, t) /\ u.eager = t.eager /\ u.seen = t.seen
      /\ u.gap = t.gap /\ u.made = t.made + n
      /\ u.out.a = t.made + 1 /\ u.out.b = t.made + n
  BY <1>2, <1>3, EncodeSays
<1>5. u \in Tls /\ u.copies = t.copies /\ u.plain = t.plain
  BY <1>4 DEF Encrypts
<1>6. Busy(q, u)
  BY <1>1, <1>5, ResponseJoins
<1>7. ~Free(q, u)
  BY <1>1, <1>5, <1>6, FreeOrBusy
<1>8. t.made = t.seen + Len(t.copies) /\ t.made \in Nat
  BY <1>1, LengthsAre DEF Numbered
<1>9. Numbered(q, u)
  <2>1. u.out.a = u.seen + Len(u.copies) + 1 /\ u.out.a <= u.out.b
        /\ u.made = u.out.b
    BY <1>2, <1>4, <1>5, <1>8
  <2> QED
    BY <1>4, <1>5, <1>7, <2>1 DEF Numbered
<1>10. Queued(q, u) /\ q.uv # "closed" /\ ~q.reading
  BY <1>4, <1>5, <1>6 DEF Queued, Held
<1> QED
  BY <1>9, <1>10 DEF Promised

(* SSL_read and all that follows. *)
LEMMA DecryptsGets ==
  ASSUME NEW t, NEW w, Fed(w, t), Gets(w, t), ~Closes(t), ~Waits(t),
         Decrypts(t, w)
  PROVE  /\ Promised(conn', tls')
         /\ NoExpects(tls') /\ ~tls'.eager =>
              W!Alive(w) /\ Free(w, t) /\ (Awaits(conn', w) \/ Answered(conn', w))
<1> DEFINE D == Decrypted(t)
           n == Len(D)
           rest == SubSeq(t.ssl, n + 1, Len(t.ssl))
           s == SSL_read(t)
           k == [w EXCEPT !.buf = Pieces(D), !.recvd = @ + n]
<1>1. t \in Tls /\ Typed(w) /\ Shape(w) /\ Sober(t) /\ w.uv = "open"
  BY DEF Fed, Gets, Typed
<1>2. t.hs = "TLS_HS_DONE" /\ Handshake(t)
  BY <1>1 DEF Fed, Closes, Waits, Tls
<1>3. D # <<>>
  BY DEF Waits
<1>4. /\ n \in Nat
      /\ Pieces(D) \in Seq(PeerTokens) /\ Len(Pieces(D)) = n
      /\ Plain(t.ssl) = Pieces(D) \o Plain(rest)
      /\ rest \in Units
  BY <1>1, <1>2, LeavesIs
<1>5. Beside(s, t) /\ Sober(s)
  BY <1>1, ReadIs, ReadSober
<1>6. PICK e \in 1 .. Len(k.buf), r \in W!Reply :
        /\ W!EndsAt(k, e)
        /\ conn' = W!Parse(k, e, r, FALSE)
        /\ tls' = IF W!NotConn(w) /\ conn'.state = "CS_DESTROY"
                  THEN tls_data_encode(s, 1) ELSE Encoded(s, w, conn')
  BY DEF Decrypts
<1>7. /\ Typed(k) /\ k.uv = w.uv /\ k.shut = w.shut /\ k.wq = w.wq
      /\ k.buf = Pieces(D) /\ k.parsed = 0 /\ k.rx = "RXS_READING"
      /\ k.parser = w.parser /\ k.reading = w.reading /\ k.lastT = w.lastT
      /\ k.calls = w.calls /\ k.done = w.done
  <2>1. Shape(w) /\ Values(w) /\ Flags(w)
    BY <1>1 DEF Typed
  <2>2. /\ DOMAIN k = Fields
        /\ k.buf = Pieces(D) /\ k.recvd = w.recvd + n
        /\ k.rx = w.rx /\ k.parsed = w.parsed
        /\ k.state = w.state /\ k.reading = w.reading /\ k.parser = w.parser
        /\ k.keep = w.keep /\ k.reqT = w.reqT /\ k.lastT = w.lastT
        /\ k.chunked = w.chunked /\ k.pre = w.pre /\ k.total = w.total
        /\ k.written = w.written /\ k.iter = w.iter /\ k.uv = w.uv
        /\ k.shut = w.shut /\ k.wq = w.wq /\ k.ppos = w.ppos
        /\ k.asked = w.asked /\ k.calls = w.calls /\ k.begun = w.begun
        /\ k.done = w.done /\ k.status = w.status
    BY <2>1 DEF Shape, Fields
  <2> HIDE DEF k, n, D
  <2>3. Pieces(D) \in Seq(W!Token)
    BY <1>4, PeersAssumption
  <2>4. Typed(k)
    BY <1>4, <2>1, <2>2, <2>3 DEF Typed, Shape, Values, Flags
  <2> QED
    BY <2>2, <2>4 DEF Fed
<1>8. t.eager \/ t.plain # <<>>
  BY <1>1, <1>2, <1>3, DecryptedPlain
<1> HIDE DEF D, n, rest, s, k
<1>9. W!Alive(k) <=> W!Alive(w)
  BY <1>7 DEF W!Alive
<1>10. Advances(conn', k)
  <2>1. W!Alive(k) => k.parser # "error" /\ (k.reading => k.rx # "RXS_FREEZED")
    BY <1>7, <1>9 DEF Fed
  <2> QED
    BY <1>6, <1>7, <2>1, ParseAdvances
<1>11. /\ Typed(conn') /\ Shape(conn') /\ conn'.uv \in {"open", "closing"}
       /\ W!Alive(conn') => W!Alive(w)
  BY <1>1, <1>7, <1>9, <1>10 DEF Advances, Typed
<1>12. Encrypts(tls', s) /\ tls'.eager = s.eager
  <2>1. s \in Tls /\ 1 \in Nat
    BY <1>5 DEF Beside
  <2>2. Encrypts(tls_data_encode(s, 1), s) /\ Encrypts(Encoded(s, w, conn'), s)
    BY <1>11, <2>1, EncodeIs, EncodedIs
  <2>3. /\ tls_data_encode(s, 1).eager = s.eager
        /\ Encoded(s, w, conn').eager = s.eager
    BY <2>1, EncodeSays, EncodedEager
  <2> QED
    BY <1>6, <2>2, <2>3
<1>13. Sober(tls')
  BY <1>5, <1>12, EncryptsSober
<1>14. tls'.eager = t.eager /\ tls'.plain = t.plain
  BY <1>5, <1>12 DEF Encrypts, Beside
<1>15. NoExpects(tls') <=> NoExpects(t)
  BY <1>14 DEF NoExpects
<1>16. CASE ~NoExpects(t)
  BY <1>11, <1>13, <1>15, <1>16 DEF Promised
<1>17. CASE NoExpects(t) /\ ~W!Alive(w)
  <2>1. t.eager
    BY <1>8, <1>17 DEF Gets, Sober
  <2> QED
    BY <1>11, <1>13, <1>14, <1>17, <2>1 DEF Promised
<1>18. CASE NoExpects(t) /\ W!Alive(w)
  <2>1. Free(w, t) /\ Numbered(w, t) /\ (w.parser = "mid" => ~w.lastT)
    BY <1>18 DEF Gets
  <2>2. NoExpect(k)
    <3>1. PICK before \in Seq(W!Token) :
            /\ Len(before) = w.ppos
            /\ t.plain = before \o (SubSeq(w.buf, w.parsed + 1, Len(w.buf))
                                      \o Plain(t.ssl))
      BY <1>18 DEF Fed, Unread
    <3> DEFINE x == Pieces(D)
               y == Plain(rest)
    <3>2. x \in Seq(W!Token) /\ y \in Seq(W!Token)
      <4>1. x \in Seq(PeerTokens) /\ y \in Seq(PeerTokens)
        BY <1>4, PlainOfConcat
      <4> QED
        BY <4>1, PeersAssumption
    <3>3. Plain(t.ssl) = x \o y
      BY <1>4
    <3>4. SubSeq(w.buf, w.parsed + 1, Len(w.buf)) = <<>>
      <4>1. w.buf = <<>> /\ w.parsed = 0
        BY DEF Fed
      <4> QED
        BY <4>1
    <3>5. k.buf = x /\ k.parsed + 1 = 1
      BY <1>7
    <3> HIDE DEF x, y
    <3>6. <<>> \o (x \o y) = x \o y
      BY <3>2
    <3>7. t.plain = before \o (x \o y)
      BY <3>1, <3>3, <3>4, <3>6
    <3>8. \A i \in 1 .. Len(x) : x[i] # "expect"
      BY <1>18, <3>2, <3>7, PlainNoExpect
    <3> QED
      BY <3>5, <3>8 DEF NoExpect
  <2>3. Awaits(conn', k) \/ Answered(conn', k)
    BY <1>6, <1>7, <1>9, <1>18, <2>1, <2>2, ParseAlive DEF Fed
  <2>4. Awaits(conn', w) \/ Answered(conn', w)
    BY <1>7, <1>9, <2>3 DEF Awaits, Answered
  <2>5. tls' = Encoded(s, w, conn')
    BY <1>6, <1>18 DEF W!Alive, W!NotConn
  <2>6. Free(w, s) /\ Numbered(w, s)
    <3>1. s.copies = t.copies
      BY <1>5 DEF Beside
    <3> QED
      BY <1>5, <2>1, <3>1, QueueStays, NumberedStays DEF Beside
  <2>7. CASE Awaits(conn', w)
    <3>1. tls' = s
      BY <1>1, <2>5, <2>7, EncodedNone DEF Awaits
    <3>2. /\ W!Alive(conn') /\ conn'.wq = w.wq
          /\ conn'.parser = "mid" => ~conn'.lastT
      BY <2>7 DEF Awaits
    <3>3. Free(conn', s)
      BY <2>6, <3>2, QueueStays
    <3>4. Numbered(conn', s)
      BY <1>18, <2>6, <3>2, NumberedStays
    <3> QED
      BY <1>5, <1>11, <1>18, <2>1, <2>7, <3>1, <3>2, <3>3, <3>4
      DEF Promised, Queued
  <2>8. CASE Answered(conn', w)
    <3>1. Held(conn') /\ conn'.wq = Append(w.wq, "resp")
      BY <2>8 DEF Answered
    <3>2. s \in Tls /\ (s.eager \/ s.plain # <<>>)
      BY <1>5, <1>8 DEF Beside
    <3>3. Promised(conn', tls')
      BY <1>1, <1>11, <1>13, <1>18, <2>5, <2>6, <3>1, <3>2, AnswerPromised
    <3> QED
      BY <1>18, <2>1, <2>8, <3>3
  <2> QED
    BY <2>4, <2>7, <2>8
<1> QED
  BY <1>16, <1>17, <1>18

(* What is decrypted is the next exchange, or none. *)
LEMMA DecryptsExchanged ==
  ASSUME NEW k, NEW w, NEW t, NEW q, k.uv = "open", Likens(w, k), Typed(w),
         t \in Tls, W!Alive(w), Free(w, t), Awaits(q, w) \/ Answered(q, w)
  PROVE  Exchanged(q, k)
<1>1. W!Alive(k) /\ w.uv = "open"
  BY DEF Likens, W!Alive
<1>2. Shape(w) /\ w.wq \in Seq(Writes) /\ Len(w.wq) \in Nat /\ "resp" \in Writes
  BY DEF Typed, Shape, Writes
<1>3. ~Sending(w)
  BY <1>2, BusyFlies DEF Sending
<1>4. CASE Awaits(q, w)
  BY <1>1, <1>4 DEF Awaits, Exchanged, Idles, Likens, Sending
<1>5. CASE Answered(q, w)
  <2>1. Sending(q)
    <3>1. Len(w.wq) + 1 \in DOMAIN q.wq /\ q.wq[Len(w.wq) + 1] = "resp"
      BY <1>2, <1>5 DEF Answered
    <3> QED
      BY <3>1 DEF Sending
  <2>2. q.uv \in {"open", "closing"}
    BY <1>1, <1>5 DEF Answered
  <2> QED
    BY <1>1, <1>3, <1>5, <2>1, <2>2 DEF Answered, Exchanged, Serves, Likens
<1> QED
  BY <1>4, <1>5

(* read_cb. *)
LEMMA ReadsFulfil ==
  ASSUME Ordered, Promised(conn, tls), read_cb PROVE Fulfils(conn', tls', conn)
<1>1. /\ Whole(conn, tls) /\ conn.uv = "open" /\ conn.reading
      /\ Typed(conn) /\ tls \in Tls
  BY DEF Ordered, read_cb, Whole, Placed
<1>2. PICK units \in PeerData : LET g == Given(units) IN
       IF Refuses(conn, tls)
       THEN conn' = W!TakeAction(conn, "CA_SHUTDOWN") /\ tls' = g
       ELSE \E output \in Outputs(g) :
              LET h == Stepped(g)
                  t == IF output THEN tls_flush_enc_out(Drained(h, TRUE)) ELSE h
                  k == W!alloc_cb(conn, <<>>)
                  w == IF output THEN [k EXCEPT !.wq = Append(@, "flight")] ELSE k
              IN CASE output /\ W!NotConn(conn) ->
                        conn' = W!TakeAction(k, "CA_SHUTDOWN") /\ tls' = h
                   [] ~(output /\ W!NotConn(conn)) /\ Closes(t) ->
                        /\ conn' = W!TakeAction(w, "CA_CLOSE")
                        /\ tls' = SSL_read(t)
                   [] ~(output /\ W!NotConn(conn)) /\ Waits(t) ->
                        conn' = W!stream_read_start(w) /\ tls' = t
                   [] OTHER -> Decrypts(t, w)
  BY DEF read_cb, Stepped
<1> DEFINE g == Given(units)
           h == Stepped(g)
           k == W!alloc_cb(conn, <<>>)
<1>3. Gets(conn, g) /\ Gets(k, h)
  BY <1>1, GivenGets, SteppedGets
<1>4. /\ g \in Tls /\ Sober(g) /\ Sober(h) /\ Beside(h, g) /\ h \in Tls
  BY <1>1, <1>3, GivenIs, StepSober DEF Gets
<1>5. Likens(k, conn) /\ Likens(conn, conn)
  BY <1>1, AllocLikens DEF Likens
<1>6. CASE Refuses(conn, tls)
  <2>1. conn' = W!TakeAction(conn, "CA_SHUTDOWN") /\ tls' = g
    BY <1>2, <1>6
  <2>2. Beside(g, g)
    BY <1>4 DEF Beside
  <2>3. Mute(conn', conn) /\ ~W!Alive(conn') /\ ~conn'.reading
    BY <1>1, <2>1, ActEnds
  <2> HIDE DEF g
  <2>4. Promised(conn', tls')
    BY <1>3, <1>4, <2>1, <2>2, <2>3, GetsEnds
  <2>5. Idles(conn', conn)
    BY <1>1, <1>5, <2>3, MuteIdles
  <2> QED
    BY <2>4, <2>5 DEF Fulfils, Exchanged
<1>7. CASE ~Refuses(conn, tls)
  <2>1. PICK output \in Outputs(g) :
          LET t == IF output THEN tls_flush_enc_out(Drained(h, TRUE)) ELSE h
              w == IF output THEN [k EXCEPT !.wq = Append(@, "flight")] ELSE k
          IN CASE output /\ W!NotConn(conn) ->
                    conn' = W!TakeAction(k, "CA_SHUTDOWN") /\ tls' = h
               [] ~(output /\ W!NotConn(conn)) /\ Closes(t) ->
                    /\ conn' = W!TakeAction(w, "CA_CLOSE")
                    /\ tls' = SSL_read(t)
               [] ~(output /\ W!NotConn(conn)) /\ Waits(t) ->
                    conn' = W!stream_read_start(w) /\ tls' = t
               [] OTHER -> Decrypts(t, w)
    BY <1>2, <1>7
  <2>2. Fed(k, h)
    BY <1>1, Feeding
  <2> DEFINE t == IF output THEN tls_flush_enc_out(Drained(h, TRUE)) ELSE h
             w == IF output THEN [k EXCEPT !.wq = Append(@, "flight")] ELSE k
             Refused == output /\ W!NotConn(conn)
  <2>3. Fed(w, t)
    BY <2>2, FlightFed
  <2>4. ~Refused => Gets(w, t)
    <3>1. CASE ~output
      BY <1>3, <3>1
    <3>2. CASE output /\ ~W!NotConn(conn)
      <4>1. W!Alive(k)
        BY <1>5, <3>2 DEF Likens, W!Alive, W!NotConn
      <4>2. g.hs # "TLS_HS_DONE"
        <5>1. ASSUME g.hs = "TLS_HS_DONE" PROVE Outputs(g) = {FALSE}
          BY <5>1 DEF Outputs
        <5> QED
          BY <3>2, <5>1
      <4>3. h.eager \/ h.plain = <<>>
        BY <1>4, <4>2 DEF Sober, Beside
      <4>4. Typed([k EXCEPT !.wq = Append(@, "flight")])
        BY <2>3, <3>2 DEF Fed
      <4> HIDE DEF h, k, g
      <4> QED
        BY <1>3, <3>2, <4>1, <4>3, <4>4, FlightGets
    <3> QED
      BY <3>1, <3>2
  <2>5. Likens(w, conn)
    BY <1>5, <2>2, FlightLikens DEF Fed
  <2>6. \/ Refused /\ conn' = W!TakeAction(k, "CA_SHUTDOWN") /\ tls' = h
        \/ /\ ~Refused /\ Closes(t)
           /\ conn' = W!TakeAction(w, "CA_CLOSE") /\ tls' = SSL_read(t)
        \/ /\ ~Refused /\ Waits(t)
           /\ conn' = W!stream_read_start(w) /\ tls' = t
        \/ ~Refused /\ ~Closes(t) /\ ~Waits(t) /\ Decrypts(t, w)
    BY <2>1
  <2> HIDE DEF g, h, k, t, w, Refused
  <2>7. ASSUME conn' = W!TakeAction(k, "CA_SHUTDOWN"), tls' = h
        PROVE  Fulfils(conn', tls', conn)
    <3>1. Mute(conn', k) /\ ~W!Alive(conn') /\ ~conn'.reading
      BY <2>2, <2>7, ActEnds DEF Fed
    <3>2. Beside(h, h)
      BY <1>4 DEF Beside
    <3>3. Promised(conn', tls')
      BY <1>3, <1>4, <2>7, <3>1, <3>2, GetsEnds
    <3>4. Idles(conn', conn)
      BY <1>1, <1>5, <3>1, MuteIdles
    <3> QED
      BY <3>3, <3>4 DEF Fulfils, Exchanged
  <2>8. ASSUME Gets(w, t), conn' = W!TakeAction(w, "CA_CLOSE"),
               tls' = SSL_read(t)
        PROVE  Fulfils(conn', tls', conn)
    <3>1. Mute(conn', w) /\ ~W!Alive(conn') /\ ~conn'.reading
      BY <2>3, <2>8, ActEnds DEF Fed
    <3>2. Beside(tls', t) /\ Sober(tls')
      BY <2>8, ReadIs, ReadSober DEF Gets
    <3>3. Promised(conn', tls')
      BY <2>8, <3>1, <3>2, GetsEnds
    <3>4. Idles(conn', conn)
      BY <1>1, <2>5, <3>1, MuteIdles
    <3> QED
      BY <3>3, <3>4 DEF Fulfils, Exchanged
  <2>9. ASSUME Gets(w, t), conn' = W!stream_read_start(w), tls' = t
        PROVE  Fulfils(conn', tls', conn)
    <3>1. Promised(conn', tls') /\ Mute(conn', w)
      BY <2>9, GetsWaits
    <3>2. Idles(conn', conn)
      BY <1>1, <2>5, <3>1, MuteIdles
    <3> QED
      BY <3>1, <3>2 DEF Fulfils, Exchanged
  <2>10. ASSUME Gets(w, t), ~Closes(t), ~Waits(t), Decrypts(t, w)
         PROVE  Fulfils(conn', tls', conn)
    <3>1. /\ Promised(conn', tls')
          /\ NoExpects(tls') /\ ~tls'.eager =>
               W!Alive(w) /\ Free(w, t) /\ (Awaits(conn', w) \/ Answered(conn', w))
      BY <2>3, <2>10, DecryptsGets
    <3>2. Typed(w) /\ t \in Tls
      BY <2>10 DEF Gets
    <3>3. NoExpects(tls') /\ ~tls'.eager => Exchanged(conn', conn)
      BY <1>1, <2>5, <3>1, <3>2, DecryptsExchanged
    <3> QED
      BY <3>1, <3>3 DEF Fulfils
  <2> QED
    BY <2>4, <2>6, <2>7, <2>8, <2>9, <2>10
<1> QED
  BY <1>6, <1>7

-----------------------------------------------------------------------------
(* The other callbacks.                                                    *)

(* Nothing has been sent or asked for at first. *)
LEMMA FirstPromised ==
  ASSUME NEW k, Shape(k), k.wq = <<>>, k.uv # "closed", k.parser = "idle",
         k.uv = "open" /\ k.reading => W!Alive(k), NEW eager \in Eager
  PROVE  Promised(k, tls_client_init(eager))
<1> DEFINE t == tls_client_init(eager)
<1>1. t \in Tls /\ t.copies = <<>> /\ t.plain = <<>> /\ t.ssl = <<>>
  BY InitialTls
<1>2. t.peer = "start" /\ t.made = 0 /\ t.seen = 0 /\ t.gap = FALSE
  BY DEF tls_client_init
<1> HIDE DEF t
<1>3. Sober(t)
  BY <1>1, <1>2 DEF Sober
<1>4. Len(k.wq) = 0 /\ Len(t.copies) = 0
  BY <1>1
<1>5. Free(k, t) /\ ~Busy(k, t)
  BY <1>4 DEF Free, Busy
<1>6. Numbered(k, t)
  BY <1>2, <1>4, <1>5 DEF Numbered
<1>7. Promised(k, t)
  BY <1>3, <1>5, <1>6 DEF Promised, Queued
<1> QED
  BY <1>7 DEF t

LEMMA InitialPromised == Init => Promised(conn, tls)
<1> SUFFICES ASSUME Init PROVE Promised(conn, tls)
  OBVIOUS
<1>1. PICK eager \in Eager : tls = tls_client_init(eager)
  BY DEF Init
<1>2. conn = W!Fresh
  BY DEF Init
<1>3. conn.wq = <<>> /\ conn.uv = "none" /\ conn.parser = "idle" /\ Shape(conn)
  BY <1>2, FreshIs DEF W!Fresh, Typed
<1> QED
  BY <1>1, <1>3, FirstPromised

(* connection_cb. *)
LEMMA ConnectsFulfil ==
  ASSUME Ordered, Ordered', connection_cb PROVE Fulfils(conn', tls', conn)
<1> DEFINE a == [W!Fresh EXCEPT !.uv = "open", !.state = "CS_REQ_READ",
                                !.reading = TRUE, !.reqT = TRUE]
           b == [W!Fresh EXCEPT !.uv = "closing", !.state = "CS_DESTROY"]
<1>1. conn.uv = "none" /\ conn' \in {a, b} /\ tls' = tls
  BY DEF connection_cb
<1>2. PICK eager \in Eager : tls = tls_client_init(eager)
  BY <1>1 DEF Ordered, Unborn
<1>3. conn = W!Fresh
  BY <1>1 DEF Ordered, Unborn
<1>4. Shape(conn')
  BY DEF Ordered, Whole, Placed, Typed
<1>5. /\ conn'.wq = <<>> /\ conn'.parser = "idle" /\ conn'.done = conn.done
      /\ conn'.calls = conn.calls /\ conn'.uv \in {"open", "closing"}
      /\ conn'.uv = "open" => ~conn'.shut
      /\ conn.wq = <<>>
  BY <1>1, <1>3 DEF W!Fresh
<1> HIDE DEF a, b
<1>6. Promised(conn', tls')
  BY <1>1, <1>2, <1>4, <1>5, FirstPromised DEF W!Alive
<1>7. Opens(conn', conn)
  BY <1>1, <1>5 DEF Opens, Sending
<1> QED
  BY <1>6, <1>7 DEF Fulfils, Exchanged

(* A connection ends that is not sending, or had ended before. *)
LEMMA EndFulfils ==
  ASSUME NEW k, NEW t, NEW q, Promised(k, t), Mute(q, k), ~W!Alive(q),
         ~q.reading, k.uv \in {"open", "closing"},
         Busy(k, t) /\ Held(k) => ~W!Alive(k)
  PROVE  Fulfils(q, t, k)
<1>1. /\ q.wq = k.wq /\ q.uv \in {"open", "closing"}
      /\ q.uv = "open" => k.uv = "open"
      /\ q.parser = k.parser /\ q.lastT = k.lastT /\ q.rx = k.rx
      /\ q.keep = k.keep /\ q.done = k.done /\ q.calls = k.calls
  BY DEF Mute, Apart
<1>2. (Free(k, t) => Free(q, t)) /\ (Busy(k, t) => Busy(q, t))
  BY <1>1, QueueStays
<1>3. Busy(k, t) /\ Held(k) => Held(q)
  BY <1>1 DEF Held, W!Persistent
<1>4. Numbered(k, t) => Numbered(q, t)
  BY <1>1, NumberedStays
<1>5. Promised(q, t)
  BY <1>1, <1>2, <1>3, <1>4 DEF Promised, Queued
<1>6. Idles(q, k)
  BY <1>1 DEF Idles, Sending
<1> QED
  BY <1>5, <1>6 DEF Fulfils, Exchanged

(* read_cb with UV_EOF or an error. *)
LEMMA ClosingFulfils ==
  ASSUME Ordered, Promised(conn, tls), PeerCloses
  PROVE  Fulfils(conn', tls', conn)
<1>1. Typed(conn) /\ conn.uv = "open" /\ conn.reading /\ tls' = tls
  BY DEF Ordered, Whole, Placed, PeerCloses
<1>2. PICK act \in {"CA_CLOSE", "CA_SHUTDOWN"} : conn' = W!TakeAction(conn, act)
  BY DEF PeerCloses
<1>3. Mute(conn', conn) /\ ~W!Alive(conn') /\ ~conn'.reading
  BY <1>1, <1>2, ActEnds
<1> QED
  BY <1>1, <1>3, EndFulfils DEF Held

(* shutdown_cb. *)
LEMMA ShutDownFulfils ==
  ASSUME Ordered, Promised(conn, tls), shutdown_cb
  PROVE  Fulfils(conn', tls', conn)
<1>1. /\ Typed(conn) /\ conn.uv = "open" /\ conn.shut /\ tls' = tls
      /\ conn' = W!close_connection(conn)
  BY DEF Ordered, Whole, Placed, shutdown_cb
<1>2. Mute(conn', conn) /\ ~W!Alive(conn') /\ ~conn'.reading /\ ~W!Alive(conn)
  BY <1>1, CloseMute DEF W!Alive
<1> QED
  BY <1>1, <1>2, EndFulfils

(* client_aux_check finds no time set while a response is sent. *)
LEMMA ChecksFulfil ==
  ASSUME Ordered, Promised(conn, tls), client_aux_check
  PROVE  Fulfils(conn', tls', conn)
<1> DEFINE s == W!stream_read_stop(conn)
<1>1. Typed(conn) /\ conn.uv = "open" /\ tls' = tls
  BY DEF Ordered, Whole, Placed, client_aux_check
<1>2. conn.reqT \/ conn.lastT
  BY DEF client_aux_check, W!Overdue
<1>3. Mute(s, conn) /\ ~s.reading /\ conn' = W!shutdown_connection(s)
  BY <1>1, StopMute DEF client_aux_check
<1> HIDE DEF s
<1>4. Mute(conn', s) /\ ~W!Alive(conn') /\ ~conn'.reading
  BY <1>3, ShutMute DEF Mute, Apart
<1>5. Mute(conn', conn)
  BY <1>3, <1>4, MuteOn
<1> QED
  BY <1>1, <1>2, <1>4, <1>5, EndFulfils DEF Held

(* close_cb. *)
LEMMA ClosedFulfils ==
  ASSUME Ordered, Promised(conn, tls), close_cb
  PROVE  Fulfils(conn', tls', conn)
<1> DEFINE b == W!reset_response_body(conn)
           q == [b EXCEPT !.uv = "closed", !.rx = "RXS_RESTING",
                          !.reading = FALSE]
           u == [tls EXCEPT !.ssl = <<>>, !.out = NoRecords]
<1>1. /\ Typed(conn) /\ Shape(conn) /\ tls \in Tls /\ conn.uv = "closing"
      /\ conn.wq = <<>> /\ conn' = q /\ tls' = u
  BY DEF Ordered, Whole, Placed, close_cb, Typed
<1>2. Mute(b, conn) /\ Typed(b)
  BY <1>1, ResetMute DEF Mute, Apart
<1> HIDE DEF b
<1>3. /\ q.uv = "closed" /\ ~q.reading /\ q.wq = b.wq /\ q.parser = b.parser
      /\ q.lastT = b.lastT /\ q.done = b.done /\ q.calls = b.calls
  BY <1>2 DEF Typed, Shape, Fields
<1> HIDE DEF q
<1>4. /\ q.wq = <<>> /\ q.parser = conn.parser /\ q.lastT = conn.lastT
      /\ q.done = conn.done /\ q.calls = conn.calls /\ ~W!Alive(q)
      /\ ~W!Alive(conn)
  BY <1>1, <1>2, <1>3 DEF Mute, Apart, W!Alive
<1>5. /\ u.ssl = <<>> /\ u.hs = tls.hs /\ u.plain = tls.plain
      /\ u.peer = tls.peer /\ u.copies = tls.copies /\ u.eager = tls.eager
  BY <1>1 DEF Tls
<1> HIDE DEF u
<1>6. Sober(u)
  BY <1>5 DEF Sober, Promised
<1>7. ~Busy(conn, tls)
  BY <1>1, LengthsAre DEF Busy
<1>8. ASSUME NoExpects(u), ~u.eager PROVE Queued(q, u)
  <2>1. NoExpects(tls)
    BY <1>5, <1>8 DEF NoExpects
  <2>2. Free(conn, tls) /\ (conn.parser = "mid" => ~conn.lastT)
    BY <1>5, <1>7, <1>8, <2>1 DEF Promised, Queued
  <2>3. Free(q, u)
    BY <1>1, <1>4, <1>5, <2>2, QueueStays
  <2> QED
    BY <1>4, <2>2, <2>3 DEF Queued
<1>9. Promised(q, u)
  BY <1>3, <1>4, <1>6, <1>8 DEF Promised
<1>10. Ceases(q, conn)
  BY <1>1, <1>3, <1>4 DEF Ceases, Sending
<1> QED
  BY <1>1, <1>9, <1>10 DEF Fulfils, Exchanged

(* A write is reported: k is the connection without it. *)
Relieved(q, k) ==
  /\ Typed(q) /\ q.wq = Tail(k.wq) /\ q.state = k.state
  /\ q.buf = k.buf /\ q.parsed = k.parsed /\ q.rx = k.rx
  /\ q.parser = k.parser /\ q.keep = k.keep /\ q.reading = k.reading
  /\ q.reqT = k.reqT /\ q.lastT = k.lastT /\ q.uv = k.uv /\ q.shut = k.shut
  /\ q.calls = k.calls /\ q.done = k.done
  /\ q.written = k.written /\ q.pre = k.pre /\ q.total = k.total
  /\ q.chunked = k.chunked

LEMMA TailRelieved ==
  ASSUME NEW k, Typed(k), k.wq # <<>>
  PROVE  Relieved([k EXCEPT !.wq = Tail(@)], k)
<1> DEFINE x == Tail(k.wq)
           q == [k EXCEPT !.wq = x]
<1>1. x \in Seq(Writes)
  BY DEF Typed, Shape
<1>2. [k EXCEPT !.wq = Tail(@)] = q
  BY DEF Typed, Shape, Fields
<1> HIDE DEF x
<1>3. Shape(q) /\ Values(q)
  BY <1>1 DEF Typed, Shape, Fields, Values
<1>4. Flags(q)
  BY DEF Typed, Shape, Fields, Flags
<1>5. /\ q.wq = x /\ q.state = k.state
      /\ q.buf = k.buf /\ q.parsed = k.parsed /\ q.rx = k.rx
      /\ q.parser = k.parser /\ q.keep = k.keep /\ q.reading = k.reading
      /\ q.reqT = k.reqT /\ q.lastT = k.lastT /\ q.uv = k.uv /\ q.shut = k.shut
      /\ q.calls = k.calls /\ q.done = k.done
      /\ q.written = k.written /\ q.pre = k.pre /\ q.total = k.total
      /\ q.chunked = k.chunked
  BY DEF Typed, Shape, Fields
<1> HIDE DEF q
<1>6. Relieved(q, k)
  BY <1>3, <1>4, <1>5 DEF Relieved, Typed, x
<1> QED
  BY <1>2, <1>6

(* What is reported was written by a connection that lives or dies. *)
LEMMA WriterIs ==
  ASSUME Ordered, Promised(conn, tls), conn.wq # <<>>
  PROVE  /\ conn.uv \in {"open", "closing"} /\ Typed(conn) /\ Shape(conn)
         /\ tls \in Tls /\ Sober(tls) /\ Relieved(Reported, conn)
<1>1. Typed(conn) /\ Shape(conn) /\ Values(conn) /\ tls \in Tls
  BY DEF Ordered, Whole, Placed, Typed
<1>2. conn.uv # "closed" /\ Sober(tls)
  BY DEF Promised
<1>3. conn.uv # "none"
  BY DEF Ordered, Unborn, W!Fresh
<1>4. conn.uv \in {"open", "closing"}
  BY <1>1, <1>2, <1>3 DEF Values
<1>5. Relieved(Reported, conn)
  BY <1>1, TailRelieved DEF Reported
<1> QED
  BY <1>1, <1>2, <1>4, <1>5

(* A response that was not written is the last of the connection. *)
LEMMA FailedFulfils ==
  ASSUME Ordered, Promised(conn, tls), WriteFailed
  PROVE  Fulfils(conn', tls', conn)
<1> DEFINE k == Reported
           q == [k EXCEPT !.pre = 0]
<1>1. /\ conn.wq # <<>> /\ Head(conn.wq) = "resp" /\ tls' = tls
      /\ conn' = W!close_connection(q)
  BY DEF WriteFailed, Reports
<1>2. /\ conn.uv \in {"open", "closing"} /\ Shape(conn) /\ tls \in Tls
      /\ Sober(tls) /\ Relieved(k, conn)
  BY <1>1, WriterIs
<1> HIDE DEF k
<1>3. Typed(k)
  BY <1>2 DEF Relieved
<1>4. /\ Typed(q) /\ q.wq = k.wq /\ q.uv = k.uv /\ q.parser = k.parser
      /\ q.lastT = k.lastT /\ q.done = k.done /\ q.calls = k.calls
      /\ q.reading = k.reading
  <2>1. Shape(q) /\ Values(q)
    BY <1>3 DEF Typed, Shape, Fields, Values
  <2>2. Flags(q)
    BY <1>3 DEF Typed, Shape, Fields, Flags
  <2> QED
    BY <1>3, <2>1, <2>2 DEF Typed, Shape, Fields
<1> HIDE DEF q
<1>5. Mute(conn', q) /\ ~W!Alive(conn') /\ conn'.uv # "open"
  BY <1>1, <1>4, CloseMute
<1>6. /\ conn'.uv = "closing" /\ conn'.wq = Tail(conn.wq)
      /\ conn'.parser = conn.parser /\ conn'.lastT = conn.lastT
      /\ conn'.done = conn.done /\ conn'.calls = conn.calls
  BY <1>2, <1>4, <1>5 DEF Mute, Apart, Relieved
<1>7. ASSUME NoExpects(tls), ~tls.eager
      PROVE  Queued(conn', tls) /\ Fails(conn', conn)
  <2>1. Queued(conn, tls)
    BY <1>7 DEF Promised
  <2>2. Busy(conn, tls) /\ Len(tls.copies) = 0 /\ Tail(conn.wq) = <<>>
    BY <1>1, <1>2, <2>1, ResponseAlone DEF Queued
  <2>3. Free(conn', tls)
    <3>1. conn'.wq = <<>>
      BY <1>6, <2>2
    <3>2. Len(conn'.wq) = 0
      BY <3>1
    <3> QED
      BY <2>2, <3>2 DEF Free
  <2>4. Sending(conn) /\ ~Sending(conn')
    BY <1>2, <1>6, <2>2, BusyFlies DEF Sending
  <2> QED
    BY <1>6, <2>1, <2>3, <2>4 DEF Queued, Fails
<1>8. Promised(conn', tls)
  BY <1>2, <1>5, <1>6, <1>7 DEF Promised
<1> QED
  BY <1>1, <1>7, <1>8 DEF Fulfils, Exchanged

(* There are no status lines. *)
LEMMA StatedFulfils ==
  ASSUME Ordered, Promised(conn, tls), StatusWritten
  PROVE  Fulfils(conn', tls', conn)
<1> DEFINE k == Reported
           s == W!stream_read_start(k)
<1>1. /\ conn.wq # <<>> /\ Head(conn.wq) = "status" /\ tls' = tls
      /\ conn' = W!Drain(s)
  BY DEF StatusWritten, Reports
<1>2. /\ conn.uv \in {"open", "closing"} /\ Shape(conn) /\ tls \in Tls
      /\ Sober(tls) /\ Relieved(k, conn)
  BY <1>1, WriterIs
<1> HIDE DEF k
<1>3. Mute(s, k) /\ Typed(s)
  BY <1>2, StartMute DEF Relieved, Mute, Apart
<1> HIDE DEF s
<1>4. Mute(conn', s)
  BY <1>1, <1>3, DrainMute
<1>5. conn'.uv # "closed" /\ (W!Alive(conn') => W!Alive(conn))
  BY <1>2, <1>3, <1>4 DEF Mute, Relieved, W!Alive
<1>6. NoExpects(tls) => ~W!Alive(conn) /\ tls.eager
  BY <1>1, <1>2, NoStatus DEF Promised, Queued
<1> QED
  BY <1>1, <1>2, <1>5, <1>6 DEF Fulfils, Promised

(* The records of a flight leave the queue. *)
Gone(u, t) ==
  /\ u \in Tls /\ u.hs = t.hs /\ u.ssl = t.ssl /\ u.plain = t.plain
  /\ u.peer = t.peer /\ u.eager = t.eager /\ u.copies = Tail(t.copies)

LEMMA FlightGone ==
  ASSUME NEW t \in Tls, t.copies # <<>>
  PROVE  LET r == Head(t.copies)
             u == [Received(t, r) EXCEPT !.copies = Tail(@)]
             v == [t EXCEPT !.copies = Tail(@)]
         IN /\ Gone(u, t) /\ Gone(v, t)
            /\ u.seen = r.b /\ u.made = t.made /\ u.out = t.out
            /\ r.a = t.seen + 1 => u.gap = t.gap
<1> DEFINE r == Head(t.copies)
           x == Tail(t.copies)
           w == Received(t, r)
           u == [w EXCEPT !.copies = x]
           v == [t EXCEPT !.copies = x]
<1>1. r \in Records /\ x \in Seq(Records)
  <2>1. t.copies \in Seq(Records)
    BY DEF Tls
  <2> QED
    BY <2>1
<1> HIDE DEF r
<1>2. /\ Encrypts(w, t) /\ w.eager = t.eager /\ w.seen = r.b
      /\ w.made = t.made /\ w.out = t.out
      /\ r.a = t.seen + 1 => w.gap = t.gap
  BY <1>1, ReceivedSays
<1> HIDE DEF w
<1>3. w \in Tls /\ w.copies = t.copies
  BY <1>2 DEF Encrypts
<1>4. /\ [w EXCEPT !.copies = Tail(@)] = u
      /\ [t EXCEPT !.copies = Tail(@)] = v
  BY <1>3 DEF Tls
<1> HIDE DEF x
<1>5. u \in Tls /\ v \in Tls
  BY <1>1, <1>3 DEF Tls
<1>6. /\ u.hs = w.hs /\ u.ssl = w.ssl /\ u.plain = w.plain
      /\ u.peer = w.peer /\ u.eager = w.eager /\ u.copies = x
      /\ u.seen = w.seen /\ u.made = w.made /\ u.out = w.out /\ u.gap = w.gap
      /\ v.hs = t.hs /\ v.ssl = t.ssl /\ v.plain = t.plain
      /\ v.peer = t.peer /\ v.eager = t.eager /\ v.copies = x
  BY <1>3 DEF Tls
<1> HIDE DEF u, v
<1>7. /\ Gone(u, t) /\ Gone(v, t)
      /\ u.seen = r.b /\ u.made = t.made /\ u.out = t.out
      /\ r.a = t.seen + 1 => u.gap = t.gap
  BY <1>2, <1>5, <1>6 DEF Gone, Encrypts, x
<1> QED
  BY <1>4, <1>7 DEF r, w

(* It was the next one that the peer expects. *)
LEMMA NumberedLeaves ==
  ASSUME NEW k, Shape(k), NEW t \in Tls, Free(k, t) \/ Busy(k, t),
         Numbered(k, t), NEW q, Shape(q), k.wq # <<>>, t.copies # <<>>,
         q.wq = Tail(k.wq), W!Alive(q) => W!Alive(k),
         NEW u, Gone(u, t), u.seen = Head(t.copies).b, u.made = t.made,
         u.out = t.out, Head(t.copies).a = t.seen + 1 => u.gap = t.gap
  PROVE  Numbered(q, u)
<1> DEFINE n == Len(t.copies)
           c == t.copies
<1>1. (Free(k, t) => Free(q, u)) /\ (Busy(k, t) => Busy(q, u))
  BY RecordsLeave DEF Gone
<1>2. ~(Free(q, u) /\ Busy(q, u))
  BY FreeOrBusy DEF Gone
<1>3. n \in Nat /\ t.seen \in Nat /\ t.made \in Nat /\ c \in Seq(Records)
  BY LengthsAre
<1>4. c # <<>> /\ u.copies = Tail(c) /\ n = Len(c)
  BY DEF Gone
<1>5. ~t.gap /\ \A i \in 1 .. n : c[i].a = t.seen + i /\ c[i].b = t.seen + i
  BY DEF Numbered
<1> HIDE DEF c
<1>6. /\ n > 0 /\ Head(c) = c[1] /\ Len(u.copies) = n - 1
      /\ \A i \in 1 .. n - 1 : u.copies[i] = c[i + 1]
  BY <1>3, <1>4
<1> HIDE DEF n
<1>7. c[1].a = t.seen + 1 /\ c[1].b = t.seen + 1
  BY <1>3, <1>5, <1>6
<1>8. u.seen = t.seen + 1 /\ ~u.gap
  BY <1>5, <1>6, <1>7 DEF c
<1>9. ASSUME NEW i \in 1 .. n - 1
      PROVE  u.copies[i].a = u.seen + i /\ u.copies[i].b = u.seen + i
  <2>1. i + 1 \in 1 .. n /\ u.copies[i] = c[i + 1] /\ i \in Nat
    BY <1>3, <1>6
  <2>2. c[i + 1].a = t.seen + (i + 1) /\ c[i + 1].b = t.seen + (i + 1)
    BY <1>5, <2>1
  <2>3. t.seen + (i + 1) = u.seen + i
    <3>1. t.seen \in Int /\ i \in Int
      BY <1>3, <2>1
    <3>2. u.seen = t.seen + 1
      BY <1>8
    <3> QED
      BY <3>1, <3>2
  <2> QED
    BY <2>1, <2>2, <2>3, Zenon
<1>10. CASE Free(k, t)
  <2>1. W!Alive(k) => t.made = t.seen + n
    BY <1>10 DEF Numbered, n
  <2>2. W!Alive(q) => u.made = u.seen + Len(u.copies)
    BY <1>3, <1>6, <1>8, <2>1
  <2> QED
    BY <1>1, <1>2, <1>6, <1>8, <1>9, <1>10, <2>2 DEF Numbered
<1>11. CASE Busy(k, t)
  <2>1. /\ t.out.a = t.seen + n + 1 /\ t.out.a <= t.out.b
        /\ W!Alive(k) => t.made = t.out.b
    BY <1>11 DEF Numbered, n
  <2>2. u.out.a = u.seen + Len(u.copies) + 1
    BY <1>3, <1>6, <1>8, <2>1
  <2> QED
    BY <1>1, <1>2, <1>6, <1>8, <1>9, <1>11, <2>1, <2>2 DEF Numbered
<1> QED
  BY <1>10, <1>11

(* The handshake goes on, or is over. *)
LEMMA FlownFulfils ==
  ASSUME IInv, Ordered, Ordered', Promised(conn, tls), FlightWritten
  PROVE  Fulfils(conn', tls', conn)
<1> DEFINE k == Reported
           s == W!stream_read_start(k)
           T == [tls EXCEPT !.copies = Tail(@)]
           U == [Received(tls, Head(tls.copies)) EXCEPT !.copies = Tail(@)]
<1>1. conn.wq # <<>> /\ Head(conn.wq) = "flight"
  BY DEF FlightWritten, Reports
<1>2. \/ conn' = W!Drain(s) /\ tls' = U
      \/ conn' = W!close_connection(k) /\ tls' = T
  BY DEF FlightWritten, tls_write_cb
<1>3. /\ conn.uv \in {"open", "closing"} /\ Shape(conn) /\ tls \in Tls
      /\ Sober(tls) /\ Relieved(k, conn)
  BY <1>1, WriterIs
<1>4. tls.copies # <<>>
  BY <1>1, WholeLeaves DEF Ordered
<1>5. /\ Gone(U, tls) /\ Gone(T, tls)
      /\ U.seen = Head(tls.copies).b /\ U.made = tls.made /\ U.out = tls.out
      /\ Head(tls.copies).a = tls.seen + 1 => U.gap = tls.gap
  BY <1>3, <1>4, FlightGone
<1> HIDE DEF k, T, U
<1>6. Typed(k) /\ k.wq = Tail(conn.wq) /\ (W!Alive(k) <=> W!Alive(conn))
  BY <1>3 DEF Relieved, W!Alive
<1>7. /\ Mute(s, k) /\ Typed(s)
      /\ W!Alive(k) => W!Alive(s)
      /\ k.state = "CS_RESP_SEND" => s = k
  BY <1>6, StartMute DEF Mute, Apart
<1> HIDE DEF s
<1>8. /\ Mute(W!Drain(s), s)
      /\ W!Alive(s) => W!Drain(s) = s
      /\ s.wq = <<>> /\ ~W!Alive(s) => W!Drain(s).uv # "open"
  BY <1>7, DrainMute
<1>9. Mute(W!close_connection(k), k) /\ W!close_connection(k).uv # "open"
  BY <1>6, CloseMute
<1>10. Mute(conn', k)
  BY <1>2, <1>7, <1>8, <1>9, MuteOn
<1>11. /\ conn'.wq = Tail(conn.wq) /\ conn'.uv \in {"open", "closing"}
       /\ conn'.uv = "open" => conn.uv = "open"
       /\ W!Alive(conn') => W!Alive(conn)
       /\ conn'.parser = conn.parser /\ conn'.lastT = conn.lastT
       /\ conn'.done = conn.done /\ conn'.calls = conn.calls
       /\ Shape(conn')
  BY <1>3, <1>6, <1>10 DEF Mute, Apart, Relieved, Typed
<1>12. Gone(tls', tls) /\ tls' \in Tls
  BY <1>2, <1>5 DEF Gone
<1>13. ~tls.eager => tls.plain = <<>>
  BY <1>3, <1>4 DEF Sober
<1>14. Sober(tls')
  BY <1>3, <1>12, <1>13 DEF Sober, Gone
<1>15. (NoExpects(tls') <=> NoExpects(tls)) /\ tls'.eager = tls.eager
  BY <1>12 DEF NoExpects, Gone
<1>16. (Free(conn, tls) => Free(conn', tls')) /\ (Busy(conn, tls) => Busy(conn', tls'))
  BY <1>1, <1>3, <1>4, <1>11, <1>12, RecordsLeave DEF Gone
<1>17. ASSUME NoExpects(tls), W!Alive(conn) \/ ~tls.eager
       PROVE  Free(conn, tls) \/ (Busy(conn, tls) /\ Held(conn) /\ tls.eager)
  BY <1>13, <1>17 DEF Promised, Queued
<1>18. ASSUME W!Alive(conn'), Busy(conn, tls), Held(conn) PROVE Held(conn')
  <2>1. W!Alive(conn) /\ conn.state = "CS_RESP_SEND"
    <3>1. \E i \in 1 .. Len(conn.wq) : conn.wq[i] = "resp"
      <4>1. DOMAIN conn.wq = 1 .. Len(conn.wq)
        BY <1>3 DEF Shape
      <4> QED
        BY <1>3, <1>18, <4>1, BusyFlies
    <3> QED
      BY <1>11, <1>18, <3>1 DEF IInv, Good, Sends, Listens, NoResp
  <2>2. s = k /\ W!Alive(s)
    BY <1>3, <1>6, <1>7, <2>1 DEF Relieved
  <2>3. conn' # W!close_connection(k)
    BY <1>9, <1>18 DEF W!Alive
  <2>4. conn' = k
    BY <1>2, <1>8, <2>2, <2>3
  <2> QED
    BY <1>3, <1>18, <2>1, <2>4 DEF Relieved, Held, W!Alive
<1>19. ASSUME NoExpects(tls), W!Alive(conn') \/ ~tls.eager
       PROVE  Queued(conn', tls')
  <2>1. conn.parser = "mid" => ~conn.lastT
    BY <1>11, <1>19 DEF Promised, Queued
  <2> QED
    BY <1>11, <1>15, <1>16, <1>17, <1>18, <1>19, <2>1 DEF Queued
<1>20. ASSUME NoExpects(tls), W!Alive(conn') \/ (~tls.eager /\ conn'.uv = "open")
       PROVE  Numbered(conn', tls')
  <2>1. Numbered(conn, tls) /\ (Free(conn, tls) \/ Busy(conn, tls))
    BY <1>11, <1>17, <1>20 DEF Promised
  <2>2. tls' = U
    BY <1>2, <1>9, <1>20 DEF W!Alive
  <2> QED
    BY <1>1, <1>3, <1>4, <1>5, <1>11, <2>1, <2>2, NumberedLeaves
<1>21. ASSUME NoExpects(tls), ~tls.eager, conn'.uv = "open", conn'.reading
       PROVE  W!Alive(conn') \/ tls'.copies # <<>>
  <2> SUFFICES ASSUME ~W!Alive(conn'), tls'.copies = <<>> PROVE FALSE
    OBVIOUS
  <2>1. Free(conn', tls')
    BY <1>16, <1>17, <1>21
  <2>2. conn'.wq = <<>>
    <3>1. Len(conn'.wq) = 0 /\ conn'.wq \in Seq(Writes)
      BY <1>11, <2>1 DEF Free, Shape
    <3> QED
      BY <3>1
  <2>3. conn' = W!Drain(s)
    BY <1>2, <1>9, <1>21
  <2>4. ~W!Alive(s) /\ s.wq = <<>>
    BY <1>8, <2>2, <2>3 DEF Mute, Apart
  <2> QED
    BY <1>8, <1>21, <2>3, <2>4
<1>22. ASSUME NoExpects(tls), ~tls.eager PROVE Idles(conn', conn)
  <2>1. Free(conn, tls) /\ Free(conn', tls')
    BY <1>16, <1>17, <1>22
  <2>2. ~Sending(conn) /\ ~Sending(conn')
    BY <1>3, <1>11, <1>12, <2>1, BusyFlies DEF Sending
  <2> QED
    BY <1>3, <1>11, <2>2 DEF Idles
<1>23. Promised(conn', tls')
  BY <1>11, <1>14, <1>15, <1>19, <1>20, <1>21 DEF Promised
<1> QED
  BY <1>15, <1>22, <1>23 DEF Fulfils, Exchanged

(* A live connection has no 100-continue to parse. *)
LEMMA UnreadNoExpect ==
  ASSUME NEW k, Typed(k), NEW t \in Tls, Unread(k, t), NoExpects(t)
  PROVE  NoExpect(k)
<1>1. PICK before \in Seq(W!Token) :
        /\ Len(before) = k.ppos
        /\ t.plain = before \o (SubSeq(k.buf, k.parsed + 1, Len(k.buf))
                                  \o Plain(t.ssl))
  BY DEF Unread
<1> DEFINE m == k.parsed
           b == k.buf
           x == SubSeq(b, m + 1, Len(b))
           y == Plain(t.ssl)
<1>2. b \in Seq(W!Token) /\ m \in Nat
  BY DEF Typed, Values
<1>3. y \in Seq(W!Token)
  <2>1. y \in Seq(PeerTokens)
    <3>1. t.ssl \in Units
      BY DEF Tls, Units
    <3> QED
      BY <3>1, PlainOfConcat
  <2> QED
    BY <2>1, PeersAssumption
<1>4. t.plain = before \o (x \o y)
  BY <1>1
<1> HIDE DEF b, m, y
<1>5. /\ x \in Seq(W!Token)
      /\ \A i \in m + 1 .. Len(b) : i - m \in 1 .. Len(x) /\ x[i - m] = b[i]
  BY <1>2
<1> HIDE DEF x
<1>6. \A i \in 1 .. Len(x) : x[i] # "expect"
  BY <1>3, <1>4, <1>5, PlainNoExpect
<1>7. \A i \in m + 1 .. Len(b) : b[i] # "expect"
  BY <1>5, <1>6
<1> QED
  BY <1>7 DEF NoExpect, m, b

(* write_cb with status 0: l is the connection before Drain. *)
LEMMA WrittenAs ==
  ASSUME Ordered, ResponseWritten
  PROVE  \E l :
           /\ conn' = W!Drain(l)
           /\ tls' = Encoded(Received(tls, tls.out), Reported, l)
           /\ Advances(l, Reported)
           /\ /\ Typed(Reported) /\ Held(Reported)
              /\ W!Alive(Reported) => NoExpect(Reported) /\ Reported.parser # "error"
              => Ended(l, Reported) \/ Carried(l, Reported) \/ Over(l, Reported)
<1> DEFINE k == Reported
<1>1. Whole(conn, tls) /\ conn.wq # <<>> /\ Head(conn.wq) # "flight"
  BY DEF Ordered, ResponseWritten, Reports
<1>2. /\ Whole(k, tls) /\ k.written = conn.written
      /\ k.pre = conn.pre /\ k.total = conn.total /\ k.chunked = conn.chunked
  BY <1>1, WholeLeaves DEF Reported
<1>3. PICK n \in W!NextPull(conn) : \E r \in W!Reply : \E e :
        /\ IF W!Resumes(k) /\ W!Exhausted(k, n) THEN W!EndsAt(k, e)
                                                ELSE e = 0 /\ r.kind = "fail"
        /\ conn' = W!Drain(W!write_cb(k, n, e, r, FALSE))
        /\ tls' = Encoded(Received(tls, tls.out), k,
                          W!write_cb(k, n, e, r, FALSE))
  BY Zenon DEF ResponseWritten
<1>4. PICK r \in W!Reply : \E e :
        /\ IF W!Resumes(k) /\ W!Exhausted(k, n) THEN W!EndsAt(k, e)
                                                ELSE e = 0 /\ r.kind = "fail"
        /\ conn' = W!Drain(W!write_cb(k, n, e, r, FALSE))
        /\ tls' = Encoded(Received(tls, tls.out), k,
                          W!write_cb(k, n, e, r, FALSE))
  BY <1>3
<1>5. PICK e :
        /\ IF W!Resumes(k) /\ W!Exhausted(k, n) THEN W!EndsAt(k, e)
                                                ELSE e = 0 /\ r.kind = "fail"
        /\ conn' = W!Drain(W!write_cb(k, n, e, r, FALSE))
        /\ tls' = Encoded(Received(tls, tls.out), k,
                          W!write_cb(k, n, e, r, FALSE))
  BY <1>4
<1> HIDE DEF k
<1> DEFINE l == W!write_cb(k, n, e, r, FALSE)
<1>6. /\ n \in W!Pull
      /\ n.kind = "end" /\ k.chunked = 0 => k.written + k.pre >= k.total
  BY <1>2 DEF W!NextPull
<1>7. W!Resumes(k) /\ W!Exhausted(k, n) => W!EndsAt(k, e)
  BY <1>5
<1>8. Advances(l, k)
  <2>1. Placed(k)
    BY <1>2 DEF Whole
  <2> QED
    BY <1>6, <1>7, <2>1, WriteAdvances
<1>9. ASSUME Typed(k), Held(k), W!Alive(k) => NoExpect(k) /\ k.parser # "error"
      PROVE  Ended(l, k) \/ Carried(l, k) \/ Over(l, k)
  BY <1>6, <1>7, <1>9, WriteOutcome
<1>10. conn' = W!Drain(l) /\ tls' = Encoded(Received(tls, tls.out), k, l)
  BY <1>5
<1> HIDE DEF l
<1> QED
  BY <1>8, <1>9, <1>10 DEF k

(* A response has been written: the exchange goes on, is over or has       *)
(* failed.                                                                 *)
LEMMA WrittenFulfils ==
  ASSUME Ordered, Promised(conn, tls), ResponseWritten
  PROVE  Fulfils(conn', tls', conn)
<1> DEFINE k == Reported
           v == Received(tls, tls.out)
<1>1. conn.wq # <<>> /\ Head(conn.wq) = "resp"
  BY DEF ResponseWritten, Reports
<1>2. /\ conn.uv \in {"open", "closing"} /\ Typed(conn) /\ Shape(conn)
      /\ tls \in Tls /\ Sober(tls) /\ Relieved(k, conn)
  BY <1>1, WriterIs
<1>3. /\ Encrypts(v, tls) /\ v.eager = tls.eager /\ v.seen = tls.out.b
      /\ v.made = tls.made /\ v.out = tls.out
      /\ tls.out.a = tls.seen + 1 => v.gap = tls.gap
  BY <1>2, LengthsAre, ReceivedSays
<1>4. PICK l :
        /\ conn' = W!Drain(l) /\ tls' = Encoded(v, k, l) /\ Advances(l, k)
        /\ /\ Typed(k) /\ Held(k)
           /\ W!Alive(k) => NoExpect(k) /\ k.parser # "error"
           => Ended(l, k) \/ Carried(l, k) \/ Over(l, k)
  BY WrittenAs
<1> HIDE DEF k, v
<1>5. /\ Typed(k) /\ Shape(k) /\ k.wq = Tail(conn.wq)
      /\ (W!Alive(k) <=> W!Alive(conn)) /\ k.uv = conn.uv
      /\ k.done = conn.done /\ k.calls = conn.calls
      /\ Held(conn) => Held(k)
  BY <1>2 DEF Relieved, Typed, W!Alive, Held, W!Persistent
<1>6. /\ Typed(l) /\ Shape(l) /\ l.uv \in {k.uv, "closing"}
      /\ W!Alive(l) => W!Alive(k)
  BY <1>4 DEF Advances, Typed
<1>7. /\ Mute(conn', l) /\ (W!Alive(l) \/ l.wq # <<>> => conn' = l)
      /\ l.wq = <<>> /\ ~W!Alive(l) => conn'.uv # "open"
      /\ ~l.reading => ~conn'.reading
  BY <1>4, <1>6, DrainMute
<1>8. /\ conn'.uv \in {"open", "closing"} /\ (conn'.uv = "open" => conn.uv = "open")
      /\ W!Alive(conn') => W!Alive(conn)
      /\ conn'.wq = l.wq /\ conn'.parser = l.parser /\ conn'.lastT = l.lastT
      /\ conn'.done = l.done /\ conn'.calls = l.calls /\ Shape(conn')
  BY <1>2, <1>5, <1>6, <1>7 DEF Mute, Apart, Typed
<1>9. Sober(v) /\ v \in Tls /\ (NoExpects(v) <=> NoExpects(tls))
      /\ v.copies = tls.copies /\ v.plain = tls.plain
  BY <1>2, <1>3, EncryptsSober DEF Encrypts, NoExpects
<1>10. /\ Sober(tls') /\ tls'.eager = tls.eager
       /\ (NoExpects(tls') <=> NoExpects(tls))
  <2>1. Encrypts(tls', v) /\ tls'.eager = v.eager
    BY <1>4, <1>6, <1>9, EncodedIs, EncodedEager
  <2> QED
    BY <1>3, <1>9, <2>1, EncryptsSober DEF Encrypts, NoExpects
<1>11. CASE ~NoExpects(tls) \/ (tls.eager /\ ~W!Alive(conn))
  BY <1>8, <1>10, <1>11 DEF Fulfils, Promised
<1>12. CASE NoExpects(tls) /\ (~tls.eager \/ W!Alive(conn))
  <2>1. Queued(conn, tls)
    BY <1>12 DEF Promised
  <2>2. /\ Busy(conn, tls) /\ ~Free(conn, tls) /\ tls.copies = <<>>
        /\ Len(tls.copies) = 0 /\ Tail(conn.wq) = <<>>
    BY <1>1, <1>2, <2>1, ResponseAlone, FreeOrBusy DEF Queued
  <2>3. Held(k) /\ (tls.eager \/ tls.plain # <<>>)
    BY <1>5, <2>1, <2>2 DEF Queued
  <2>4. W!Alive(k) => NoExpect(k) /\ k.parser # "error"
    <3> SUFFICES ASSUME W!Alive(k) PROVE NoExpect(k) /\ k.parser # "error"
      OBVIOUS
    <3>1. Unread(conn, tls) /\ conn.parser # "error"
      BY <1>5 DEF Ordered, Whole, Placed, Settled
    <3>2. NoExpect(conn)
      BY <1>2, <1>12, <3>1, UnreadNoExpect
    <3> QED
      BY <1>2, <3>1, <3>2 DEF Relieved, NoExpect
  <2>5. Ended(l, k) \/ Carried(l, k) \/ Over(l, k)
    BY <1>4, <1>5, <2>3, <2>4
  <2>6. k.wq = <<>> /\ Len(k.wq) = 0 /\ v.copies = <<>> /\ Len(v.copies) = 0
    <3>1. k.wq = <<>>
      BY <1>5, <2>2
    <3>2. Len(k.wq) = 0
      BY <3>1
    <3> QED
      BY <1>9, <2>2, <3>1, <3>2
  <2>7. Free(k, v) /\ ~Busy(k, v) /\ Sending(conn) /\ ~Sending(k)
    <3>1. Free(k, v)
      BY <2>6 DEF Free
    <3> QED
      BY <1>2, <1>5, <1>9, <2>2, <3>1, FreeOrBusy, BusyFlies DEF Sending
  <2>8. ASSUME W!Alive(conn) \/ (~tls.eager /\ conn.uv = "open")
        PROVE  Numbered(k, v)
    <3>1. Numbered(conn, tls)
      BY <1>12, <2>8 DEF Promised
    <3>2. /\ ~tls.gap /\ tls.out.a = tls.seen + Len(tls.copies) + 1
          /\ W!Alive(conn) => tls.made = tls.out.b
      BY <2>2, <3>1 DEF Numbered
    <3>3. tls.out.a = tls.seen + 1
      <4>1. tls.seen \in Nat
        BY <1>2, LengthsAre
      <4> QED
        BY <2>2, <3>2, <4>1
    <3>4. ~v.gap
      BY <1>3, <3>2, <3>3
    <3>5. W!Alive(k) => v.made = v.seen + Len(v.copies)
      <4>1. v.seen \in Nat
        BY <1>5, <1>9, LengthsAre
      <4> QED
        BY <1>3, <1>5, <2>6, <3>2, <4>1
    <3> QED
      BY <2>6, <2>7, <3>4, <3>5 DEF Numbered
  <2>9. ASSUME l.wq = k.wq
        PROVE  /\ tls' = v /\ Free(conn', tls') /\ ~Sending(conn')
               /\ Numbered(k, v) => Numbered(conn', tls')
    <3>1. tls' = v
      BY <1>4, <1>5, <2>9, EncodedNone
    <3>2. conn'.wq = k.wq
      BY <1>8, <2>9
    <3>3. Free(conn', v)
      BY <2>7, <3>2, QueueStays
    <3>4. Numbered(k, v) => Numbered(conn', v)
      BY <1>5, <1>8, <3>2, NumberedStays
    <3>5. ~Sending(conn')
      BY <2>7, <3>2 DEF Sending
    <3> QED
      BY <3>1, <3>3, <3>4, <3>5
  <2>10. ASSUME l.wq = Append(k.wq, "resp"), Held(l), W!Alive(k)
         PROVE  Promised(conn', tls') /\ Sending(conn') /\ conn' = l
    <3>1. l.wq = <<"resp">>
      BY <2>6, <2>10
    <3>2. l.wq # <<>> /\ 1 \in DOMAIN l.wq /\ l.wq[1] = "resp"
      BY <3>1
    <3>3. conn' = l /\ Sending(conn')
      BY <1>7, <3>2 DEF Sending
    <3>4. v.eager \/ v.plain # <<>>
      BY <1>3, <1>9, <2>3
    <3>5. Promised(conn', tls')
      BY <1>4, <1>5, <1>6, <1>9, <1>10, <2>7, <2>8, <2>10, <3>3, <3>4,
         AnswerPromised
    <3> QED
      BY <3>3, <3>5
  <2>11. CASE Ended(l, k)
    <3>1. l.wq = k.wq /\ l.uv = "closing" /\ l.parser # "mid"
          /\ l.done = k.done /\ l.calls = k.calls
      BY <2>11 DEF Ended
    <3>2. conn'.uv = "closing"
      BY <1>7, <3>1 DEF Mute
    <3>3. Promised(conn', tls')
      BY <1>8, <1>10, <2>9, <3>1, <3>2 DEF Promised, Queued, W!Alive
    <3>4. Fails(conn', conn)
      BY <1>5, <1>8, <2>7, <2>9, <3>1, <3>2 DEF Fails
    <3> QED
      BY <3>3, <3>4 DEF Fulfils, Exchanged
  <2>12. CASE Carried(l, k)
    <3>1. /\ l.wq = Append(k.wq, "resp") /\ Held(l) /\ W!Alive(k)
          /\ l.done = k.done /\ l.calls = k.calls
      BY <2>12 DEF Carried, Answered
    <3>2. Idles(conn', conn)
      BY <1>2, <1>5, <1>8, <2>7, <2>10, <3>1 DEF Idles
    <3> QED
      BY <2>10, <3>1, <3>2 DEF Fulfils, Exchanged
  <2>13. CASE Over(l, k)
    <3>1. l.done = k.done + 1
      BY <2>13 DEF Over
    <3>2. CASE /\ l.wq = k.wq /\ l.calls = k.calls
               /\ l.reading => l.uv = "open"
               /\ l.parser = "mid" => ~l.lastT
      <4>1. ASSUME conn'.uv = "open" PROVE W!Alive(conn')
        <5>1. W!Alive(l)
          BY <1>7, <2>6, <3>2, <4>1
        <5> QED
          BY <1>7, <5>1
      <4>2. Promised(conn', tls')
        BY <1>8, <1>10, <2>8, <2>9, <3>2, <4>1 DEF Promised, Queued
      <4>3. Concludes(conn', conn)
        BY <1>2, <1>5, <1>8, <2>7, <2>9, <3>1, <3>2 DEF Concludes
      <4> QED
        BY <4>2, <4>3 DEF Fulfils, Exchanged
    <3>3. CASE /\ W!Alive(k) /\ Held(l) /\ l.wq = Append(k.wq, "resp")
               /\ l.calls \in {k.calls, k.calls + 1}
      <4>1. GoesOnServing(conn', conn)
        BY <1>5, <1>8, <2>7, <2>10, <3>1, <3>3 DEF GoesOnServing
      <4> QED
        BY <2>10, <3>3, <4>1 DEF Fulfils, Exchanged
    <3> QED
      BY <2>13, <3>2, <3>3 DEF Over
  <2> QED
    BY <2>5, <2>11, <2>12, <2>13
<1> QED
  BY <1>11, <1>12

-----------------------------------------------------------------------------
(* Every callback fulfils the promise.                                     *)

LEMMA EachFulfils ==
  ASSUME IInv, Ordered, Ordered', Promised(conn, tls), Next
  PROVE  Fulfils(conn', tls', conn)
<1>1. CASE connection_cb
  BY <1>1, ConnectsFulfil
<1>2. CASE read_cb
  BY <1>2, ReadsFulfil
<1>3. CASE PeerCloses
  BY <1>3, ClosingFulfils
<1>4. CASE FlightWritten
  BY <1>4, FlownFulfils
<1>5. CASE ResponseWritten
  BY <1>5, WrittenFulfils
<1>6. CASE WriteFailed
  BY <1>6, FailedFulfils
<1>7. CASE StatusWritten
  BY <1>7, StatedFulfils
<1>8. CASE shutdown_cb
  BY <1>8, ShutDownFulfils
<1>9. CASE close_cb
  BY <1>9, ClosedFulfils
<1>10. CASE client_aux_check
  BY <1>10, ChecksFulfil
<1> QED
  BY <1>1, <1>2, <1>3, <1>4, <1>5, <1>6, <1>7, <1>8, <1>9, <1>10 DEF Next

(* What holds in every state: the client_t is good, the bytes are in       *)
(* order, and the queue is as promised.                                    *)
EInv == IInv /\ Ordered /\ Promised(conn, tls)

(* It holds before the first connection. *)
THEOREM PromisedInitially == Init => EInv
  BY Initial, OrderedInitially, InitialPromised DEF EInv

(* Each callback of libuv keeps the promise. *)
THEOREM PromisedInductive == EInv /\ [Next]_vars => EInv'
<1> SUFFICES ASSUME EInv, [Next]_vars PROVE EInv'
  OBVIOUS
<1>1. IInv' /\ Ordered'
  BY Inductive, OrderedInductive DEF EInv
<1>2. CASE Next
  <2>1. Promised(conn', tls')
    BY <1>1, <1>2, EachFulfils DEF EInv, Fulfils
  <2> QED
    BY <1>1, <2>1 DEF EInv
<1>3. CASE UNCHANGED vars
  BY <1>1, <1>3 DEF EInv, vars
<1> QED
  BY <1>2, <1>3

(* The queue of writes holds the flights of the handshake and behind them  *)
(* one response at most, and the records in it are the next ones that the  *)
(* peer expects, in every reachable state (tls.c:413-425, 498-525).        *)
THEOREM AlwaysPromised == Spec => []EInv
  BY PromisedInitially, PromisedInductive, PTL DEF Spec

(* A peer that asks for no 100-continue misses no record of a live         *)
(* connection, and one that waits for the server's last flight misses none *)
(* until the connection is closed: enc_out is not started over between two *)
(* buffers of a response, nor while libuv still writes from it             *)
(* (tls.c:413-425, 498-525, server.c:393-404).                             *)
THEOREM NoRecordIsMissed == Spec => []RecordsInOrder
<1>1. EInv => RecordsInOrder
  <2> SUFFICES ASSUME EInv PROVE RecordsInOrder
    OBVIOUS
  <2>1. NoExpects(tls) /\ (W!Alive(conn) \/ (~tls.eager /\ conn.uv = "open"))
        => ~tls.gap
    BY DEF EInv, Promised, Numbered
  <2> QED
    BY <2>1 DEF RecordsInOrder, Patient, NoExpects, Alive
<1> QED
  BY <1>1, AlwaysPromised, PTL

-----------------------------------------------------------------------------
(* The promise is that of HttpExchange.                                    *)

PhaseOf(k) ==
  CASE k.uv = "none"   -> "free"
    [] k.uv = "closed" -> "closed"
    [] k.uv = "open" /\ ~k.shut -> "live"
    [] OTHER -> "dying"

LEMMA PhaseIs ==
  ASSUME NEW k
  PROVE  /\ W!Alive(k) => PhaseOf(k) = "live"
         /\ ~W!Alive(k) /\ k.uv \in {"open", "closing"} => PhaseOf(k) = "dying"
         /\ k.uv = "none" => PhaseOf(k) = "free"
         /\ k.uv = "closed" => PhaseOf(k) = "closed"
  BY DEF PhaseOf, W!Alive

(* What the callbacks do to a connection are steps of HttpExchange. *)
LEMMA ExchangeStep ==
  ASSUME Exchanged(conn', conn) PROVE [X!Next]_X!vars
<1> DEFINE k  == conn
           q  == conn'
           ph == [c \in {1} |->
                    CASE conn.uv = "none"   -> "free"
                      [] conn.uv = "closed" -> "closed"
                      [] conn.uv = "open" /\ ~conn.shut -> "live"
                      [] OTHER -> "dying"]
           bs == [c \in {1} |-> InFlight # {}]
           sv == [c \in {1} |-> conn.done]
           cl == [c \in {1} |-> conn.calls]
           busyBefore == InFlight # {}
           busyAfter == InFlight' # {}
<1>1. ph' = [ph EXCEPT ![1] = PhaseOf(q)] /\ ph[1] = PhaseOf(k)
  BY DEF PhaseOf
<1>2. bs' = [bs EXCEPT ![1] = busyAfter] /\ bs[1] = busyBefore
  OBVIOUS
<1>3. (busyAfter <=> Sending(q)) /\ (busyBefore <=> Sending(k))
  BY DEF InFlight, Sending
<1>4. sv' = [sv EXCEPT ![1] = q.done] /\ sv[1] = k.done
  OBVIOUS
<1>5. cl' = [cl EXCEPT ![1] = q.calls] /\ cl[1] = k.calls
  OBVIOUS
<1>6. /\ ph = [d \in {1} |-> ph[d]] /\ bs = [d \in {1} |-> bs[d]]
      /\ sv = [d \in {1} |-> sv[d]] /\ cl = [d \in {1} |-> cl[d]]
  OBVIOUS
<1>7. busyBefore \in BOOLEAN /\ busyAfter \in BOOLEAN
  OBVIOUS
<1> HIDE DEF ph, bs, sv, cl, busyBefore, busyAfter
<1>8. /\ Sending(q) /\ ~Sending(k) => bs' = [bs EXCEPT ![1] = TRUE] /\ ~bs[1]
      /\ Sending(q) /\ Sending(k) => /\ bs' = [bs EXCEPT ![1] = TRUE] /\ bs[1]
                                     /\ bs' = bs
      /\ ~Sending(q) /\ ~Sending(k) => bs' = bs /\ ~bs[1]
      /\ ~Sending(q) /\ Sending(k) => bs' = [bs EXCEPT ![1] = FALSE] /\ bs[1]
  BY <1>2, <1>3, <1>6, <1>7
<1>9. /\ q.done = k.done => sv' = sv
      /\ q.done = k.done + 1 => sv' = [sv EXCEPT ![1] = sv[1] + 1]
      /\ q.calls = k.calls => cl' = cl
      /\ cl' = [cl EXCEPT ![1] = q.calls] /\ cl[1] = k.calls
      /\ ph' = [ph EXCEPT ![1] = PhaseOf(q)] /\ ph[1] = PhaseOf(k)
      /\ PhaseOf(q) = PhaseOf(k) => ph' = ph
  BY <1>1, <1>4, <1>5, <1>6
<1> DEFINE EN == X!Next \/ UNCHANGED X!vars
<1>10. Exchanged(q, k)
  OBVIOUS
<1> SUFFICES EN
  OBVIOUS
<1> HIDE DEF k, q
<1>11. CASE Idles(q, k)
  <2>1. bs' = bs /\ sv' = sv /\ cl' = cl
    BY <1>8, <1>9, <1>11 DEF Idles
  <2>2. CASE W!Alive(k) /\ ~W!Alive(q)
    <3>1. ph[1] = "live" /\ ph' = [ph EXCEPT ![1] = "dying"]
      BY <1>9, <1>11, <2>2, PhaseIs DEF Idles
    <3> QED
      BY <2>1, <3>1 DEF X!Next, X!End, ph, bs, sv, cl
  <2>3. CASE W!Alive(q) \/ ~W!Alive(k)
    <3>1. ph' = ph
      BY <1>9, <1>11, <2>3, PhaseIs DEF Idles
    <3> QED
      BY <2>1, <3>1 DEF X!vars, ph, bs, sv, cl
  <2> QED
    BY <2>2, <2>3
<1>12. CASE Opens(q, k)
  <2>1. /\ ph[1] = "free"
        /\ \E p \in {"live", "dying"} : ph' = [ph EXCEPT ![1] = p]
    BY <1>9, <1>12, PhaseIs DEF Opens
  <2>2. bs' = bs /\ sv' = sv /\ cl' = cl
    BY <1>8, <1>9, <1>12 DEF Opens
  <2> QED
    BY <2>1, <2>2 DEF X!Next, X!Open, ph, bs, sv, cl
<1>13. ASSUME W!Alive(k), Sending(q), q.uv \in {"open", "closing"},
              q.calls \in {k.calls, k.calls + 1}
       PROVE  /\ ph[1] = "live"
              /\ \E p \in {"live", "dying"} : ph' = [ph EXCEPT ![1] = p]
              /\ bs' = [bs EXCEPT ![1] = TRUE]
              /\ \E n \in {cl[1], cl[1] + 1} : cl' = [cl EXCEPT ![1] = n]
  <2>1. bs' = [bs EXCEPT ![1] = TRUE]
    BY <1>8, <1>13
  <2>2. q.calls \in {cl[1], cl[1] + 1} /\ cl' = [cl EXCEPT ![1] = q.calls]
    BY <1>9, <1>13
  <2>3. ph[1] = "live" /\ PhaseOf(q) \in {"live", "dying"}
        /\ ph' = [ph EXCEPT ![1] = PhaseOf(q)]
    BY <1>9, <1>13, PhaseIs
  <2> QED
    BY <2>1, <2>2, <2>3
<1>14. CASE Serves(q, k)
  <2>1. ~bs[1] /\ sv' = sv
    BY <1>8, <1>9, <1>14 DEF Serves
  <2> QED
    BY <1>13, <1>14, <2>1
    DEF Serves, X!Next, X!Serve, X!Begin, ph, bs, sv, cl
<1>15. CASE GoesOnServing(q, k)
  <2>1. bs[1] /\ sv' = [sv EXCEPT ![1] = sv[1] + 1]
    BY <1>8, <1>9, <1>15 DEF GoesOnServing
  <2> QED
    BY <1>13, <1>15, <2>1
    DEF GoesOnServing, X!Next, X!FinishAndServe, X!Begin, ph, bs, sv, cl
<1>16. CASE Concludes(q, k)
  <2>1. /\ bs[1] /\ bs' = [bs EXCEPT ![1] = FALSE]
        /\ sv' = [sv EXCEPT ![1] = sv[1] + 1] /\ cl' = cl
    BY <1>8, <1>9, <1>16 DEF Concludes
  <2>2. PhaseOf(q) \in {PhaseOf(k), "dying"}
    BY <1>16, PhaseIs DEF Concludes
  <2>3. \E p \in {ph[1], "dying"} : ph' = [ph EXCEPT ![1] = p]
    BY <1>9, <2>2
  <2> QED
    BY <2>1, <2>3 DEF X!Next, X!Finish, ph, bs, sv, cl
<1>17. CASE Fails(q, k)
  <2>1. /\ bs[1] /\ bs' = [bs EXCEPT ![1] = FALSE] /\ sv' = sv /\ cl' = cl
    BY <1>8, <1>9, <1>17 DEF Fails
  <2>2. ph' = [ph EXCEPT ![1] = "dying"]
    BY <1>9, <1>17, PhaseIs DEF Fails, W!Alive
  <2> QED
    BY <2>1, <2>2 DEF X!Next, X!Fail, ph, bs, sv, cl
<1>18. CASE Ceases(q, k)
  <2>1. ~bs[1] /\ bs' = bs /\ sv' = sv /\ cl' = cl
    BY <1>8, <1>9, <1>18 DEF Ceases
  <2>2. ph[1] = "dying" /\ ph' = [ph EXCEPT ![1] = "closed"]
    BY <1>9, <1>18, PhaseIs DEF Ceases, W!Alive
  <2> QED
    BY <2>1, <2>2 DEF X!Next, X!Close, ph, bs, sv, cl
<1> QED
  BY <1>10, <1>11, <1>12, <1>14, <1>15, <1>16, <1>17, <1>18 DEF Exchanged

(* The connection that was not accepted yet is free, idle and has served   *)
(* nothing: HttpExchange starts as TlsStream does (connection_cb zeroes    *)
(* the client_t, server.c:793-798).                                        *)
THEOREM ExchangesStart == Init => X!Init
<1> SUFFICES ASSUME Init PROVE X!Init
  OBVIOUS
<1>1. /\ conn.uv = "none" /\ conn.wq = <<>> /\ conn.done = 0 /\ conn.calls = 0
  BY DEF Init, W!Fresh
<1>2. InFlight = {}
  BY <1>1 DEF InFlight
<1> QED
  BY <1>1, <1>2 DEF X!Init

(* For a peer that waits for the server's last flight, and asks for no     *)
(* 100-continue, TLS makes no difference: each callback is a step of       *)
(* HttpExchange or changes nothing there, so that exchanges run one at a   *)
(* time and each is ended by a response written out or by the end of the   *)
(* connection (read_cb, write_cb and close_cb in server.c, tls.c:413-620). *)
THEOREM PatientPeersAreServed == Spec => KeepsExchanges
<1>1. EInv /\ [Next]_vars => (Patient' => [X!Next]_X!vars)
  <2> SUFFICES ASSUME EInv, [Next]_vars, Patient' PROVE [X!Next]_X!vars
    OBVIOUS
  <2>1. CASE Next
    <3>1. Fulfils(conn', tls', conn)
      BY <2>1, OrderedInductive, EachFulfils DEF EInv
    <3>2. NoExpects(tls') /\ ~tls'.eager
      BY DEF Patient, NoExpects
    <3> QED
      BY <3>1, <3>2, ExchangeStep DEF Fulfils
  <2>2. CASE UNCHANGED vars
    BY <2>2 DEF vars, X!vars, InFlight
  <2> QED
    BY <2>1, <2>2
<1> QED
  BY <1>1, AlwaysPromised, PTL DEF Spec, KeepsExchanges

=============================================================================
