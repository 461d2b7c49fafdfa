---------------------------- MODULE TlsStreamProofs ----------------------------
(***************************************************************************)
(* TLAPS proofs about TlsStream, for any amount of request data, any size  *)
(* of the read buffer and any handshake: flights of the handshake that are *)
(* still being written neither wake a connection that is responding nor    *)
(* leave a live one without a reader or a timeout.                         *)
(*                                                                         *)
(* Every client_t is Good: a live connection sends one response and is     *)
(* deaf, or it listens and is timed, whatever flights and status lines are *)
(* queued with it.  Each C function is a lemma.  None makes a connection   *)
(* live again, so that one that is not needs no care.  What OpenSSL has    *)
(* decrypted does not matter here, only that some of it is parsed.         *)
(***************************************************************************)
EXTENDS TlsStream, TLAPS

Fields == {"state", "rx", "reading", "buf", "parsed", "parser", "keep", "reqT",
           "lastT", "chunked", "pre", "total", "written", "iter", "uv", "shut",
           "wq", "recvd", "ppos", "asked", "calls", "begun", "done", "status"}
Writes == {"flight", "status", "resp"}

(* A client_t, with its write queue and the sizes of its response. *)
Shape(k) ==
  /\ DOMAIN k = Fields /\ k.wq \in Seq(Writes)
  /\ k.pre \in Nat /\ k.total \in Nat /\ k.written \in Nat
  /\ k.chunked \in 0 .. 2

NoResp(k) == \A i \in 1 .. Len(k.wq) : k.wq[i] # "resp"
Timed(k) == k.reqT \/ k.lastT

(* The response is the only one in the queue, and the connection is deaf. *)
Sends(k) ==
  /\ \E i \in 1 .. Len(k.wq) :
       k.wq[i] = "resp" /\ \A j \in 1 .. Len(k.wq) : k.wq[j] = "resp" => j = i
  /\ k.state = "CS_RESP_SEND" /\ ~k.reading
Listens(k) == NoResp(k) /\ k.reading /\ Timed(k)

Good(k) == Shape(k) /\ (W!Alive(k) => Sends(k) \/ Listens(k))

(* What a step that answers or parses may start from. *)
Quiet(k) == Shape(k) /\ (W!Alive(k) => NoResp(k))

(* The connection goes on as it is, or is given up. *)
Like(q, k) ==
  /\ Shape(q) /\ q.wq = k.wq /\ q.uv = k.uv /\ q.shut = k.shut
  /\ q.rx = k.rx /\ q.reqT = k.reqT /\ q.lastT = k.lastT
Dead(q) == Shape(q) /\ ~W!Alive(q)

(* What is not live is good. *)
LEMMA DeadGood == ASSUME NEW q, Dead(q) PROVE Good(q)
  BY DEF Dead, Good

(* What goes on like a quiet connection is quiet. *)
LEMMA LikeQuiet ==
  ASSUME NEW k, NEW q, Like(q, k), Quiet(k) PROVE Quiet(q)
  BY DEF Like, Quiet, NoResp, W!Alive

-----------------------------------------------------------------------------
(* Ending, stopping and starting.                                          *)

(* close_connection. *)
LEMMA Closed ==
  ASSUME NEW k, Shape(k) PROVE Dead(W!close_connection(k))
  BY DEF W!close_connection, Shape, Fields, Dead, W!Alive

(* stream_read_stop. *)
LEMMA Stops ==
  ASSUME NEW k, Shape(k)
  PROVE  Like(W!stream_read_stop(k), k)
  BY DEF W!stream_read_stop, Shape, Fields, Like

(* shutdown_connection. *)
LEMMA Shuts ==
  ASSUME NEW k, Shape(k) PROVE Dead(W!shutdown_connection(k))
<1>1. CASE W!NotConn(k)
  BY <1>1, Closed DEF W!shutdown_connection
<1>2. CASE ~W!NotConn(k)
  BY <1>2 DEF W!shutdown_connection, Shape, Fields, Dead, W!Alive
<1> QED
  BY <1>1, <1>2

(* The actions of read_cb that end the connection. *)
LEMMA Acts ==
  ASSUME NEW k, Shape(k), NEW act \in {"CA_CLOSE", "CA_SHUTDOWN"}
  PROVE  Dead(W!TakeAction(k, act))
<1>1. Shape(W!stream_read_stop(k))
  BY Stops DEF Like
<1> QED
  BY <1>1, Closed, Shuts DEF W!TakeAction

(* stream_read_start: what sends, or is frozen, does not read. *)
LEMMA Starts ==
  ASSUME NEW k, Shape(k)
  PROVE  LET q == W!stream_read_start(k)
         IN /\ Shape(q) /\ (W!Alive(q) => W!Alive(k))
            /\ k.state # "CS_RESP_SEND" => q.state # "CS_RESP_SEND"
            /\ W!Alive(k) =>
                 /\ Like(q, k) /\ (k.reading => q.reading)
                 /\ k.state = "CS_RESP_SEND" => q = k
                 /\ k.state # "CS_RESP_SEND" /\ k.rx # "RXS_FREEZED" =>
                      q.reading
<1>1. CASE k.rx = "RXS_FREEZED" \/ k.state = "CS_RESP_SEND"
  BY <1>1 DEF W!stream_read_start, Like
<1>2. CASE /\ ~(k.rx = "RXS_FREEZED" \/ k.state = "CS_RESP_SEND")
           /\ k.uv = "open"
  BY <1>2 DEF W!stream_read_start, Shape, Fields, Like, W!Alive
<1>3. CASE /\ ~(k.rx = "RXS_FREEZED" \/ k.state = "CS_RESP_SEND")
           /\ k.uv # "open"
  BY <1>3, Closed
     DEF W!stream_read_start, W!close_connection, Shape, Fields, Dead, W!Alive
<1> QED
  BY <1>1, <1>2, <1>3

(* reset_response_body. *)
LEMMA Resets ==
  ASSUME NEW k, Shape(k)
  PROVE  LET q == W!reset_response_body(k)
         IN /\ Like(q, k) /\ q.state = k.state /\ q.reading = k.reading
            /\ q.keep = k.keep
  BY DEF W!reset_response_body, Shape, Fields, Like

-----------------------------------------------------------------------------
(* Answering.                                                              *)

(* stream_write starts the response of a quiet connection. *)
LEMMA Responds ==
  ASSUME NEW k, Quiet(k), k.state # "CS_RESP_SEND"
  PROVE  LET q == W!stream_write(k)
         IN /\ Shape(q) /\ (W!Alive(q) => W!Alive(k))
            /\ W!Alive(k) => Sends(q)
<1> DEFINE q == W!stream_write(k)
<1>1. CASE W!Writable(k)
  <2>1. q = [k EXCEPT !.state = "CS_RESP_SEND", !.reading = FALSE,
                      !.wq = Append(@, "resp")]
    BY <1>1 DEF W!stream_write
  <2>2. W!Alive(k) /\ k.uv = "open" /\ ~k.shut
    BY <1>1 DEF W!Writable, W!NotConn, W!Alive
  <2>3. /\ q.wq = Append(k.wq, "resp") /\ k.wq \in Seq(Writes)
        /\ q.state = "CS_RESP_SEND" /\ q.reading = FALSE /\ DOMAIN q = Fields
        /\ q.pre = k.pre /\ q.total = k.total /\ q.written = k.written
        /\ q.chunked = k.chunked
    BY <2>1 DEF Quiet, Shape, Fields
  <2>4. q.wq \in Seq(Writes)
    BY <2>3 DEF Writes
  <2>5. NoResp(k)
    BY <2>2 DEF Quiet
  <2>6. /\ Len(q.wq) = Len(k.wq) + 1 /\ Len(k.wq) \in Nat
        /\ q.wq[Len(k.wq) + 1] = "resp"
        /\ \A i \in 1 .. Len(k.wq) : q.wq[i] # "resp"
    BY <2>3, <2>5 DEF NoResp
  <2>7. Sends(q)
    BY <2>3, <2>6 DEF Sends
  <2> QED
    BY <2>2, <2>3, <2>4, <2>7 DEF Shape, Quiet
<1>2. CASE ~W!Writable(k)
  <2>1. ~W!Alive(k)
    BY <1>2 DEF W!Writable, W!NotConn, W!Alive
  <2>2. q = [k EXCEPT !.state = "CS_DESTROY", !.reading = FALSE]
    BY <1>2 DEF W!stream_write
  <2> QED
    BY <2>1, <2>2 DEF Quiet, Shape, Fields, W!Alive
<1> QED
  BY <1>1, <1>2

(* The same of a response head. *)
LEMMA Heads ==
  ASSUME NEW k, Quiet(k), k.state # "CS_RESP_SEND", NEW status
  PROVE  LET q == W!WriteHead(k, status)
         IN /\ Shape(q) /\ (W!Alive(q) => W!Alive(k))
            /\ W!Alive(k) => Sends(q)
<1> DEFINE v == W!stream_write(k)
           q == W!WriteHead(k, status)
<1>1. Shape(v) /\ (W!Alive(v) => W!Alive(k)) /\ (W!Alive(k) => Sends(v))
  BY Responds
<1>2. CASE W!Writable(k)
  <2>1. q = [v EXCEPT !.begun = IF status = "stray500" THEN @ ELSE @ + 1,
                      !.status = status]
    BY <1>2 DEF W!WriteHead
  <2> HIDE DEF v, q
  <2>2. /\ DOMAIN q = DOMAIN v /\ q.wq = v.wq /\ q.uv = v.uv /\ q.shut = v.shut
        /\ q.state = v.state /\ q.reading = v.reading /\ q.pre = v.pre
        /\ q.total = v.total /\ q.written = v.written
        /\ q.chunked = v.chunked
    BY <1>1, <2>1 DEF Shape, Fields
  <2> QED
    BY <1>1, <2>2 DEF Shape, W!Alive, Sends, q
<1>3. CASE ~W!Writable(k)
  BY <1>1, <1>3 DEF W!WriteHead
<1> QED
  BY <1>2, <1>3

(* send_fatal and send_error leave a live connection with an answer. *)
LEMMA Answers ==
  ASSUME NEW k, Quiet(k), k.state # "CS_RESP_SEND", NEW status
  PROVE  LET q == W!SendStatus(k, status)
         IN /\ Shape(q) /\ (W!Alive(q) => W!Alive(k))
            /\ W!Alive(k) => Sends(q)
<1> DEFINE b == W!BuildEmpty(k)
<1>1. Like(b, k) /\ b.state = k.state
  BY Resets DEF W!BuildEmpty, Quiet, Like
<1>2. Quiet(b) /\ b.state # "CS_RESP_SEND" /\ (W!Alive(b) <=> W!Alive(k))
  BY <1>1, LikeQuiet DEF Like, W!Alive
<1>3. W!SendStatus(k, status) = W!WriteHead(b, status)
  BY DEF W!SendStatus
<1> QED
  BY <1>2, <1>3, Heads

(* read_cb from `fin:` on, with an HTTP error. *)
LEMMA Errors ==
  ASSUME NEW k, Quiet(k), k.state # "CS_RESP_SEND", NEW err, err # "none"
  PROVE  Good(W!ReadFin(k, err, "CA_OK", FALSE))
<1> DEFINE q == W!SendStatus(k, err)
<1>1. Good(q)
  BY Answers DEF Good
<1>2. W!ReadFin(k, err, "CA_OK", FALSE) =
        W!TakeAction(q, IF W!Persistent(k) THEN "CA_OK" ELSE "CA_SHUTDOWN")
  BY DEF W!ReadFin
<1>3. W!TakeAction(q, "CA_OK") = q
  BY DEF W!TakeAction
<1> QED
  BY <1>1, <1>2, <1>3, Acts, DeadGood DEF Good

-----------------------------------------------------------------------------
(* Parsing.                                                                *)

(* What a client_t is when it has something to parse: if live it has no    *)
(* response under way, is timed, and reads or holds a frozen buffer.       *)
Ready(k) ==
  /\ Shape(k)
  /\ W!Alive(k) => NoResp(k) /\ Timed(k) /\ (k.reading \/ k.rx = "RXS_FREEZED")

(* No response is under way behind a connection that parses. *)
LEMMA ReadyQuiet == ASSUME NEW k, Ready(k) PROVE Quiet(k)
  BY DEF Ready, Quiet

(* on_message_begin starts the time of the request. *)
LEMMA Begins ==
  ASSUME NEW k, Ready(k)
  PROVE  LET q == W!on_message_begin(k)
         IN Ready(q) /\ (W!Alive(q) <=> W!Alive(k)) /\ q.state = k.state
<1> DEFINE b == W!reset_response_body(k)
           q == [b EXCEPT !.reqT = TRUE, !.lastT = FALSE, !.parser = "mid"]
<1>1. Like(b, k) /\ b.state = k.state /\ b.reading = k.reading
  BY Resets DEF Ready
<1>2. q = W!on_message_begin(k)
  BY DEF W!on_message_begin
<1> HIDE DEF b
<1>3. /\ Shape(q) /\ q.wq = k.wq /\ q.uv = k.uv /\ q.shut = k.shut
      /\ q.rx = k.rx /\ q.state = k.state /\ q.reading = k.reading
      /\ q.reqT = TRUE
  BY <1>1 DEF Like, Shape, Fields
<1> HIDE DEF q
<1> QED
  BY <1>2, <1>3 DEF Ready, W!Alive, NoResp, Timed

(* x_send_status queues nothing but a status line. *)
LEMMA Continues ==
  ASSUME NEW k, Ready(k), k.state # "CS_RESP_SEND"
  PROVE  LET q == W!x_send_status(k)
         IN Ready(q) /\ (W!Alive(q) <=> W!Alive(k)) /\ q.state # "CS_RESP_SEND"
<1> DEFINE q == W!x_send_status(k)
<1>1. CASE W!NotConn(k)
  <2>1. q = [k EXCEPT !.state = "CS_DESTROY"]
    BY <1>1 DEF W!x_send_status
  <2> QED
    BY <1>1, <2>1 DEF Ready, Shape, Fields, W!Alive, W!NotConn
<1>2. CASE ~W!NotConn(k)
  <2>1. q = [k EXCEPT !.wq = Append(@, "status")]
    BY <1>2 DEF W!x_send_status
  <2>2. /\ DOMAIN q = Fields /\ q.wq = Append(k.wq, "status")
        /\ k.wq \in Seq(Writes) /\ q.uv = k.uv /\ q.shut = k.shut
        /\ q.rx = k.rx /\ q.state = k.state /\ q.reading = k.reading
        /\ q.reqT = k.reqT /\ q.lastT = k.lastT /\ q.pre = k.pre
        /\ q.total = k.total /\ q.written = k.written
        /\ q.chunked = k.chunked
    BY <2>1 DEF Ready, Shape, Fields
  <2>3. q.wq \in Seq(Writes)
    BY <2>2 DEF Writes
  <2>4. NoResp(k) => NoResp(q)
    <3> SUFFICES ASSUME NoResp(k), NEW i \in 1 .. Len(q.wq)
                 PROVE  q.wq[i] # "resp"
      BY DEF NoResp
    <3> QED
      BY <2>2 DEF NoResp
  <2> QED
    BY <2>2, <2>3, <2>4 DEF Ready, Shape, W!Alive, Timed
<1> QED
  BY <1>1, <1>2

(* The callbacks of llhttp before the last one. *)
LEMMA Feeds ==
  ASSUME NEW k, Ready(k), NEW e
  PROVE  LET q == W!Feed(k, e)
         IN Ready(q) /\ (W!Alive(q) <=> W!Alive(k)) /\ q.state # "CS_RESP_SEND"
<1> DEFINE p == [k EXCEPT !.state = "CS_REQ_PARSE"]
           m == IF k.parser = "idle" THEN W!on_message_begin(p) ELSE p
<1>1. Ready(p) /\ (W!Alive(p) <=> W!Alive(k)) /\ p.state = "CS_REQ_PARSE"
  BY DEF Ready, Shape, Fields, W!Alive, NoResp, Timed
<1>2. W!Feed(k, e) = IF k.parser = "error" \/ ~W!ExpectsContinue(k, e)
                     THEN m ELSE W!x_send_status(m)
  BY DEF W!Feed
<1> HIDE DEF p
<1>3. Ready(m) /\ (W!Alive(m) <=> W!Alive(k)) /\ m.state # "CS_RESP_SEND"
  BY <1>1, Begins
<1> HIDE DEF m
<1> QED
  BY <1>2, <1>3, Continues

(* The buffer is used up: a live connection reads on. *)
LEMMA Unfinished ==
  ASSUME NEW k, Ready(k), k.state # "CS_RESP_SEND", NEW e
  PROVE  Good(W!Incomplete(k, e))
<1> DEFINE p == [k EXCEPT !.parsed = e, !.ppos = @ + (e - k.parsed)]
           f == [p EXCEPT !.rx = "RXS_READING"]
           s == W!stream_read_start(f)
<1>1. Ready(p) /\ p.rx = k.rx
  BY DEF Ready, Shape, Fields, W!Alive, NoResp, Timed
<1>2. /\ Shape(f) /\ f.rx = "RXS_READING" /\ f.state # "CS_RESP_SEND"
      /\ f.wq = k.wq /\ f.reqT = k.reqT /\ f.lastT = k.lastT
      /\ (W!Alive(f) <=> W!Alive(k))
  BY DEF Ready, Shape, Fields, W!Alive
<1>3. W!Incomplete(k, e) = IF p.rx = "RXS_FREEZED" THEN s ELSE p
  BY DEF W!Incomplete
<1> HIDE DEF p, f
<1>4. CASE p.rx = "RXS_FREEZED"
  <2>1. /\ Shape(s) /\ (W!Alive(s) => W!Alive(f))
        /\ W!Alive(f) => Like(s, f) /\ s.reading
    BY <1>2, Starts
  <2> QED
    BY <1>2, <1>3, <1>4, <2>1 DEF Good, Listens, Ready, Like, NoResp, Timed
<1>5. CASE p.rx # "RXS_FREEZED"
  BY <1>1, <1>3, <1>5 DEF Good, Listens, Ready
<1> QED
  BY <1>4, <1>5

(* A message is complete: its answer follows. *)
LEMMA Completes ==
  ASSUME NEW k, Ready(k), k.state # "CS_RESP_SEND", NEW e
  PROVE  LET q == W!Paused(W!on_message_complete(k, e), e)
         IN Quiet(q) /\ (W!Alive(q) => W!Alive(k)) /\ q.state # "CS_RESP_SEND"
<1> DEFINE m == W!on_message_complete(k, e)
           p == [m EXCEPT !.parsed = e, !.ppos = @ + (e - m.parsed)]
           f == [p EXCEPT !.rx = "RXS_READING"]
           g == [p EXCEPT !.rx = "RXS_FREEZED"]
<1>1. Shape(m) /\ m.wq = k.wq /\ m.uv = k.uv /\ m.shut = k.shut
                /\ m.state = k.state
  BY DEF W!on_message_complete, Ready, Shape, Fields
<1>2. W!Paused(m, e) = IF e = Len(m.buf) THEN W!stream_read_start(f)
                                         ELSE W!stream_read_stop(g)
  BY DEF W!Paused
<1> HIDE DEF m
<1>3. /\ Shape(f) /\ f.wq = k.wq /\ f.uv = k.uv /\ f.shut = k.shut
      /\ f.state = k.state
      /\ Shape(g) /\ g.wq = k.wq /\ g.uv = k.uv /\ g.shut = k.shut
      /\ g.state = k.state
  BY <1>1 DEF Shape, Fields
<1> HIDE DEF f, g
<1>4. /\ Quiet(f) /\ (W!Alive(f) => W!Alive(k))
      /\ Quiet(g) /\ (W!Alive(g) => W!Alive(k))
  BY <1>3 DEF Quiet, Ready, W!Alive, NoResp
<1>5. LET s == W!stream_read_start(f)
      IN Quiet(s) /\ (W!Alive(s) => W!Alive(k)) /\ s.state # "CS_RESP_SEND"
  BY <1>3, <1>4, Starts DEF Quiet, Like, NoResp
<1>6. LET s == W!stream_read_stop(g)
      IN Quiet(s) /\ (W!Alive(s) => W!Alive(k)) /\ s.state # "CS_RESP_SEND"
  <2>1. Like(W!stream_read_stop(g), g)
    BY <1>3, Stops
  <2>2. W!stream_read_stop(g).state = g.state
    BY <1>3 DEF W!stream_read_stop, Shape, Fields
  <2> QED
    BY <1>3, <1>4, <2>1, <2>2, LikeQuiet DEF Like, W!Alive
<1> QED
  BY <1>2, <1>5, <1>6 DEF m

(* The application runs, and what it returns is sent. *)
LEMMA Runs ==
  ASSUME NEW k, Quiet(k), NEW r \in W!Reply
  PROVE  Good(W!RunApplication(k, r, FALSE))
<1> DEFINE a == [k EXCEPT !.state = "CS_RESP_BILD", !.calls = @ + 1]
           b == [a EXCEPT !.pre = r.pre, !.total = r.total,
                          !.chunked = IF r.kind = "chunked" THEN 1 ELSE 0,
                          !.iter = TRUE]
           h == W!WriteHead(b, "200")
           act == IF W!Writable(b) THEN "CA_OK" ELSE "CA_SHUTDOWN"
<1>1. r.pre \in Nat /\ r.total \in Nat
  BY DEF W!Reply
<1>2. Quiet(a) /\ a.state = "CS_RESP_BILD" /\ (W!Alive(a) => W!Alive(k))
  BY DEF Quiet, Shape, Fields, W!Alive, NoResp
<1>3. CASE r.kind = "fail"
  <2>1. W!RunApplication(k, r, FALSE) = W!ReadFin(a, "500", "CA_OK", FALSE)
    BY <1>3 DEF W!RunApplication
  <2> HIDE DEF a
  <2> QED
    BY <1>2, <2>1, Errors
<1>4. CASE r.kind # "fail"
  <2>1. W!RunApplication(k, r, FALSE) = W!ReadFin(h, "none", act, FALSE)
    BY <1>4 DEF W!RunApplication
  <2>2. W!ReadFin(h, "none", act, FALSE) = W!TakeAction(h, act)
    BY DEF W!ReadFin
  <2> HIDE DEF a
  <2>3. Quiet(b) /\ b.state = "CS_RESP_BILD"
    <3>1. b.chunked \in 0 .. 2
      BY <1>2 DEF Quiet, Shape, Fields
    <3>2. /\ DOMAIN b = Fields /\ b.wq = a.wq /\ b.uv = a.uv /\ b.shut = a.shut
          /\ b.state = a.state /\ b.pre = r.pre /\ b.total = r.total
          /\ b.written = a.written
      BY <1>2 DEF Quiet, Shape, Fields
    <3> HIDE DEF b
    <3> QED
      BY <1>1, <1>2, <3>1, <3>2 DEF Quiet, Shape, W!Alive, NoResp
  <2> HIDE DEF b
  <2>4. Shape(h) /\ (W!Alive(h) => W!Alive(b)) /\ (W!Alive(b) => Sends(h))
    BY <2>3, Heads
  <2> HIDE DEF h
  <2>5. W!TakeAction(h, "CA_OK") = h
    BY DEF W!TakeAction
  <2> QED
    BY <2>1, <2>2, <2>4, <2>5, Acts, DeadGood DEF Good
<1> QED
  BY <1>3, <1>4

(* read_cb from `parsing:` on: a live connection comes out good. *)
LEMMA Parses ==
  ASSUME NEW k, Ready(k), NEW e, NEW r \in W!Reply
  PROVE  Good(W!Parse(k, e, r, FALSE))
<1> DEFINE p == W!Feed(k, e)
           x == [p EXCEPT !.parser = "error"]
           s == W!SendStatus(x, "400")
           c == W!Paused(W!on_message_complete(p, e), e)
<1>1. Ready(p) /\ (W!Alive(p) <=> W!Alive(k)) /\ p.state # "CS_RESP_SEND"
  BY Feeds
<1>2. \A q, act : W!ReadFin(q, "none", act, FALSE) = W!TakeAction(q, act)
  BY DEF W!ReadFin
<1>3. CASE W!ParseFails(k, e)
  <2>1. W!Parse(k, e, r, FALSE) = W!ReadFin(s, "none", "CA_SHUTDOWN", FALSE)
    BY <1>3 DEF W!Parse
  <2> HIDE DEF p
  <2>2. Quiet(x) /\ x.state # "CS_RESP_SEND"
    BY <1>1 DEF Ready, Quiet, Shape, Fields, W!Alive, NoResp
  <2> HIDE DEF x
  <2>3. Shape(s)
    BY <2>2, Answers
  <2> HIDE DEF s
  <2> QED
    BY <1>2, <2>1, <2>3, Acts, DeadGood
<1>4. CASE ~W!ParseFails(k, e) /\ k.buf[e] \notin W!Stops
  <2>1. W!Parse(k, e, r, FALSE) =
          W!ReadFin(W!Incomplete(p, e), "none", "CA_OK", FALSE)
    BY <1>4, Zenon DEF W!Parse, W!Stops
  <2> HIDE DEF p
  <2>2. Good(W!Incomplete(p, e))
    BY <1>1, Unfinished
  <2>3. W!TakeAction(W!Incomplete(p, e), "CA_OK") = W!Incomplete(p, e)
    BY DEF W!TakeAction
  <2> QED
    BY <1>2, <2>1, <2>2, <2>3
<1>5. CASE ~W!ParseFails(k, e) /\ k.buf[e] = "oversize"
  <2>1. W!Parse(k, e, r, FALSE) = W!ReadFin(c, "417", "CA_OK", FALSE)
    BY <1>5 DEF W!Parse, W!Stops
  <2> HIDE DEF p
  <2>2. Quiet(c) /\ c.state # "CS_RESP_SEND"
    BY <1>1, Completes
  <2> HIDE DEF c
  <2> QED
    BY <2>1, <2>2, Errors
<1>6. CASE ~W!ParseFails(k, e) /\ k.buf[e] \in {"end", "endClose"}
  <2>1. W!Parse(k, e, r, FALSE) = W!RunApplication(c, r, FALSE)
    BY <1>6 DEF W!Parse, W!Stops
  <2> HIDE DEF p
  <2>2. Quiet(c)
    BY <1>1, Completes
  <2> HIDE DEF c
  <2> QED
    BY <2>1, <2>2, Runs
<1>7. ~W!ParseFails(k, e) => k.buf[e] # "bad"
  BY DEF W!ParseFails
<1> QED
  BY <1>3, <1>4, <1>5, <1>6, <1>7 DEF W!Stops

-----------------------------------------------------------------------------
(* Completion of a response write.                                         *)

(* shutdown_cb, when libuv has reported the last write. *)
LEMMA Drains == ASSUME NEW k, Good(k) PROVE Good(W!Drain(k))
  BY Closed, DeadGood DEF W!Drain, Good

(* The next part of the body. *)
LEMMA Chunks ==
  ASSUME NEW k, Quiet(k), k.state # "CS_RESP_SEND"
  PROVE  Good(W!WriteMore(k))
<1>1. Good(W!stream_write(k))
  BY Responds DEF Good
<1> QED
  BY <1>1, Closed, DeadGood DEF W!WriteMore, Good

(* The response is complete: a persistent connection parses what is left   *)
(* in a frozen buffer, or reads on.                                        *)
LEMMA Finishes ==
  ASSUME NEW k, Quiet(k), k.lastT, NEW e, NEW r \in W!Reply
  PROVE  Good(W!FinishResponse(k, e, r, FALSE))
<1> DEFINE d == [k EXCEPT !.done = @ + 1]
           b == W!reset_response_body(d)
           q == [b EXCEPT !.state = "CS_RESP_END"]
<1>1. Shape(d) /\ d.wq = k.wq /\ d.uv = k.uv /\ d.shut = k.shut /\ d.rx = k.rx
               /\ d.lastT = k.lastT
  BY DEF Quiet, Shape, Fields
<1>2. W!FinishResponse(k, e, r, FALSE) =
        IF ~W!Persistent(k) THEN W!close_connection(d)
        ELSE IF W!Resumes(k) THEN W!Parse(q, e, r, FALSE)
        ELSE W!stream_read_start(q)
  BY Zenon DEF W!FinishResponse, W!Resumes
<1>3. W!Persistent(k) /\ ~W!Resumes(k) => k.rx # "RXS_FREEZED"
  BY DEF W!Resumes
<1>4. W!Resumes(k) => k.rx = "RXS_FREEZED"
  BY DEF W!Resumes
<1> HIDE DEF d
<1>5. Like(b, d)
  BY <1>1, Resets
<1> HIDE DEF b
<1>6. /\ Shape(q) /\ q.wq = k.wq /\ q.uv = k.uv /\ q.shut = k.shut
      /\ q.rx = k.rx /\ q.lastT = k.lastT /\ q.state = "CS_RESP_END"
  BY <1>1, <1>5 DEF Like, Shape, Fields
<1> HIDE DEF q
<1>7. W!Alive(q) => NoResp(q) /\ Timed(q)
  BY <1>6 DEF Quiet, W!Alive, NoResp, Timed
<1>8. W!Resumes(k) => Good(W!Parse(q, e, r, FALSE))
  BY <1>4, <1>6, <1>7, Parses DEF Ready
<1>9. k.rx # "RXS_FREEZED" => Good(W!stream_read_start(q))
  BY <1>6, <1>7, Starts DEF Good, Listens, Like, NoResp, Timed
<1>10. Good(W!close_connection(d))
  BY <1>1, Closed, DeadGood
<1> QED
  BY <1>2, <1>3, <1>8, <1>9, <1>10

(* write_cb: the next part of the body, the end of the response, or the    *)
(* end of the connection.  An iterator that ends in time has sent what the *)
(* response declared.                                                      *)
LEMMA WritesOn ==
  ASSUME NEW k, Quiet(k), NEW n \in W!Pull, NEW e, NEW r \in W!Reply,
         n.kind = "end" /\ k.chunked = 0 => k.written + k.pre >= k.total
  PROVE  Good(W!write_cb(k, n, e, r, FALSE))
<1> DEFINE sum == k.written + k.pre
           s == [k EXCEPT !.state = "CS_RESP_SENDED", !.written = sum,
                          !.pre = 0]
           b == [s EXCEPT !.state = "CS_RESP_BILD"]
           l == [s EXCEPT !.lastT = TRUE]
           m == [b EXCEPT !.pre = n.size]
           o == [b EXCEPT !.chunked = 2]
           w == W!write_cb(k, n, e, r, FALSE)
<1>1. sum \in Nat /\ k.total \in Nat /\ k.chunked \in 0 .. 2 /\ 0 \in Nat
  BY DEF Quiet, Shape
<1>2. s = W!Sent(k)
  BY DEF W!Sent, Quiet, Shape, Fields
<1>3. n.size \in Nat /\ n.kind \in {"chunk", "end", "raise", "notBytes"}
  BY DEF W!Pull
<1> HIDE DEF sum
<1>4. /\ Shape(s) /\ s.wq = k.wq /\ s.uv = k.uv /\ s.shut = k.shut
      /\ s.chunked = k.chunked /\ s.total = k.total /\ s.written = sum
      /\ s.state = "CS_RESP_SENDED"
  BY <1>1 DEF Quiet, Shape, Fields
<1>5. \/ w = W!close_connection(s)
      \/ w = W!FinishResponse(l, e, r, FALSE)
      \/ w = W!close_connection(b)
      \/ w = W!WriteMore(m)
      \/ w = W!WriteMore(o)
  <2>1. W!OverLength(s) <=> k.chunked = 0 /\ sum > k.total
    BY <1>4 DEF W!OverLength
  <2>2. W!LastWritten(s) <=> k.chunked = 2 \/ (k.chunked = 0 /\ sum = k.total)
    BY <1>4 DEF W!LastWritten
  <2>3. W!Pulls(k) <=> ~W!LastWritten(s) /\ ~W!OverLength(s)
    BY <1>2 DEF W!Pulls
  <2>4. ~(W!Pulls(k) /\ n.kind = "end" /\ k.chunked = 0)
    BY <1>1, <2>1, <2>2, <2>3 DEF sum
  <2>5. ~(W!OverLength(s) /\ W!LastWritten(s))
    BY <1>1, <2>1, <2>2
  <2>6. k.chunked \in {0, 1, 2} /\ (k.chunked = 2 => ~W!Pulls(k))
    BY <1>1, <2>2, <2>3
  <2> HIDE DEF s
  <2>7. CASE W!Pulls(k)
    <3> HIDE DEF w
    <3>1. w = W!write_cb(k, n, e, r, FALSE)
      BY DEF w
    <3> QED
      BY <1>2, <1>3, <2>3, <2>4, <2>6, <2>7, <3>1 DEF W!write_cb
  <2>8. CASE ~W!Pulls(k)
    BY <1>2, <2>3, <2>5, <2>8 DEF W!write_cb
  <2> QED
    BY <2>7, <2>8
<1> HIDE DEF s
<1>6. /\ Shape(b) /\ b.wq = k.wq /\ b.uv = k.uv /\ b.shut = k.shut
      /\ b.state = "CS_RESP_BILD"
      /\ Shape(l) /\ l.wq = k.wq /\ l.uv = k.uv /\ l.shut = k.shut
      /\ l.lastT = TRUE
  BY <1>4 DEF Shape, Fields
<1> HIDE DEF b, l
<1>7. /\ Shape(m) /\ m.wq = k.wq /\ m.uv = k.uv /\ m.shut = k.shut
      /\ m.state = "CS_RESP_BILD"
      /\ Shape(o) /\ o.wq = k.wq /\ o.uv = k.uv /\ o.shut = k.shut
      /\ o.state = "CS_RESP_BILD"
  BY <1>3, <1>6 DEF Shape, Fields
<1> HIDE DEF m, o
<1>8. Quiet(l) /\ Quiet(m) /\ Quiet(o)
  BY <1>6, <1>7 DEF Quiet, W!Alive, NoResp
<1>9. Good(W!close_connection(s)) /\ Good(W!close_connection(b))
  BY <1>4, <1>6, Closed, DeadGood
<1>10. Good(W!FinishResponse(l, e, r, FALSE))
  BY <1>6, <1>8, Finishes
<1>11. Good(W!WriteMore(m)) /\ Good(W!WriteMore(o))
  BY <1>7, <1>8, Chunks
<1> HIDE DEF w
<1>12. Good(w)
  BY <1>5, <1>9, <1>10, <1>11
<1> QED
  BY <1>12 DEF w

(* A write that libuv reports leaves the queue. *)
LEMMA Shortens ==
  ASSUME NEW k, Shape(k), k.wq # <<>>
  PROVE  LET q == [k EXCEPT !.wq = Tail(@)]
         IN /\ Shape(q) /\ q.wq = Tail(k.wq) /\ q.uv = k.uv /\ q.shut = k.shut
            /\ q.state = k.state /\ q.reading = k.reading
            /\ q.reqT = k.reqT /\ q.lastT = k.lastT /\ q.pre = k.pre
            /\ q.total = k.total /\ q.written = k.written
            /\ q.chunked = k.chunked
            /\ Len(q.wq) = Len(k.wq) - 1 /\ Len(k.wq) \in Nat
            /\ \A i \in 1 .. Len(q.wq) : q.wq[i] = k.wq[i + 1]
<1>1. k.wq \in Seq(Writes) /\ Tail(k.wq) \in Seq(Writes)
  BY DEF Shape
<1>2. /\ Len(Tail(k.wq)) = Len(k.wq) - 1 /\ Len(k.wq) \in Nat
      /\ \A i \in 1 .. Len(Tail(k.wq)) : Tail(k.wq)[i] = k.wq[i + 1]
  BY <1>1
<1> QED
  BY <1>1, <1>2 DEF Shape, Fields

(* When it was the response, none is left. *)
LEMMA ResponseLeaves ==
  ASSUME NEW k, Good(k), k.wq # <<>>, Head(k.wq) = "resp"
  PROVE  Quiet([k EXCEPT !.wq = Tail(@)])
<1> DEFINE q == [k EXCEPT !.wq = Tail(@)]
<1>1. /\ Shape(q) /\ (W!Alive(q) => W!Alive(k))
      /\ Len(q.wq) = Len(k.wq) - 1 /\ Len(k.wq) \in Nat
      /\ \A i \in 1 .. Len(q.wq) : q.wq[i] = k.wq[i + 1]
  BY Shortens DEF Good, W!Alive
<1>2. k.wq[1] = "resp" /\ Len(k.wq) > 0
  BY DEF Good, Shape
<1> HIDE DEF q
<1>3. W!Alive(k) => NoResp(q)
  BY <1>1, <1>2 DEF Good, Sends, Listens, NoResp
<1> QED
  BY <1>1, <1>3 DEF Quiet, q

(* When it was not, nothing else changes. *)
LEMMA OtherLeaves ==
  ASSUME NEW k, Good(k), k.wq # <<>>, Head(k.wq) # "resp"
  PROVE  Good([k EXCEPT !.wq = Tail(@)])
<1> DEFINE q == [k EXCEPT !.wq = Tail(@)]
<1>1. /\ Shape(q) /\ (W!Alive(q) => W!Alive(k))
      /\ q.state = k.state /\ q.reading = k.reading
      /\ q.reqT = k.reqT /\ q.lastT = k.lastT
      /\ Len(q.wq) = Len(k.wq) - 1 /\ Len(k.wq) \in Nat
      /\ \A i \in 1 .. Len(q.wq) : q.wq[i] = k.wq[i + 1]
  BY Shortens DEF Good, W!Alive
<1>2. k.wq[1] # "resp" /\ Len(k.wq) > 0
  BY DEF Good, Shape
<1> SUFFICES Good(q)
  OBVIOUS
<1> HIDE DEF q
<1>3. CASE Listens(k)
  BY <1>1, <1>3 DEF Good, Listens, NoResp, Timed
<1>4. CASE Sends(k)
  <2>1. PICK i \in 1 .. Len(k.wq) :
          k.wq[i] = "resp" /\ \A j \in 1 .. Len(k.wq) : k.wq[j] = "resp" => j = i
    BY <1>4 DEF Sends
  <2>2. i - 1 \in 1 .. Len(q.wq) /\ q.wq[i - 1] = "resp"
    BY <1>1, <1>2, <2>1
  <2>3. \A j \in 1 .. Len(q.wq) : q.wq[j] = "resp" => j = i - 1
    BY <1>1, <2>1
  <2> QED
    BY <1>1, <1>4, <2>2, <2>3 DEF Good, Sends
<1>5. CASE ~W!Alive(k)
  BY <1>1, <1>5 DEF Good
<1> QED
  BY <1>3, <1>4, <1>5 DEF Good

(* A good connection may be told to read on at any time. *)
LEMMA GoodStarts == ASSUME NEW k, Good(k) PROVE Good(W!stream_read_start(k))
<1> DEFINE q == W!stream_read_start(k)
<1>1. Shape(k)
  BY DEF Good
<1>2. CASE ~W!Alive(k)
  BY <1>1, <1>2, Starts DEF Good
<1>3. CASE W!Alive(k) /\ Sends(k)
  BY <1>1, <1>3, Starts DEF Good, Sends
<1>4. CASE W!Alive(k) /\ Listens(k)
  <2>1. Shape(q) /\ Like(q, k) /\ q.reading
    BY <1>1, <1>4, Starts DEF Listens
  <2> HIDE DEF q
  <2>2. Listens(q)
    BY <1>4, <2>1 DEF Listens, Like, NoResp, Timed
  <2> QED
    BY <2>1, <2>2 DEF Good, q
<1> QED
  BY <1>2, <1>3, <1>4 DEF Good

-----------------------------------------------------------------------------
(* The callbacks.                                                          *)

IInv == Good(conn)

(* A new client_t is not live. *)
LEMMA FreshDead == Dead(W!Fresh)
<1>1. <<>> \in Seq(Writes)
  OBVIOUS
<1>2. DOMAIN W!Fresh = Fields /\ W!Fresh.wq = <<>> /\ W!Fresh.uv = "none"
      /\ W!Fresh.pre = 0 /\ W!Fresh.total = 0 /\ W!Fresh.written = 0
      /\ W!Fresh.chunked = 0
  BY DEF W!Fresh, Fields
<1> QED
  BY <1>1, <1>2 DEF Dead, Shape, W!Alive

(* connection_cb: a new connection listens, and its first request is timed. *)
LEMMA Connects == ASSUME connection_cb PROVE Good(conn')
<1> DEFINE q == [W!Fresh EXCEPT !.uv = "open", !.state = "CS_REQ_READ",
                                !.reading = TRUE, !.reqT = TRUE]
           d == [W!Fresh EXCEPT !.uv = "closing", !.state = "CS_DESTROY"]
<1>1. DOMAIN W!Fresh = Fields /\ W!Fresh.wq = <<>>
      /\ W!Fresh.pre = 0 /\ W!Fresh.total = 0 /\ W!Fresh.written = 0
      /\ W!Fresh.chunked = 0
  BY DEF W!Fresh, Fields
<1>2. /\ DOMAIN q = Fields /\ q.wq = <<>> /\ q.reading = TRUE /\ q.reqT = TRUE
      /\ q.pre = 0 /\ q.total = 0 /\ q.written = 0 /\ q.chunked = 0
      /\ DOMAIN d = Fields /\ d.wq = <<>> /\ d.uv = "closing"
      /\ d.pre = 0 /\ d.total = 0 /\ d.written = 0 /\ d.chunked = 0
  BY <1>1 DEF Fields
<1>3. conn' \in {q, d}
  BY DEF connection_cb
<1> HIDE DEF q, d
<1>4. <<>> \in Seq(Writes) /\ Len(<<>>) = 0
  OBVIOUS
<1>5. Good(q) /\ Good(d)
  BY <1>2, <1>4 DEF Good, Listens, NoResp, Timed, Shape, W!Alive
<1> QED
  BY <1>3, <1>5

(* alloc_cb starts the buffer over: what reads is ready to parse, and      *)
(* stays good when a flight is queued.                                     *)
LEMMA Allocates ==
  ASSUME NEW k, Good(k), k.reading
  PROVE  LET a == W!alloc_cb(k, <<>>)
             f == [a EXCEPT !.wq = Append(@, "flight")]
         IN /\ Good(a) /\ Ready(a)
            /\ Good(f) /\ Ready(f)
<1> DEFINE a == W!alloc_cb(k, <<>>)
           f == [a EXCEPT !.wq = Append(@, "flight")]
<1>1. /\ Shape(a) /\ a.wq = k.wq /\ a.uv = k.uv /\ a.shut = k.shut
      /\ a.reading = k.reading /\ a.reqT = k.reqT /\ a.lastT = k.lastT
  BY DEF Good, W!alloc_cb, Shape, Fields
<1> HIDE DEF a
<1>2. /\ DOMAIN f = Fields /\ f.wq = Append(a.wq, "flight")
      /\ a.wq \in Seq(Writes) /\ f.uv = a.uv /\ f.shut = a.shut
      /\ f.reading = a.reading /\ f.reqT = a.reqT /\ f.lastT = a.lastT
      /\ f.pre = a.pre /\ f.total = a.total /\ f.written = a.written
      /\ f.chunked = a.chunked
  BY <1>1 DEF Shape, Fields
<1> HIDE DEF f
<1>3. Shape(f)
  BY <1>1, <1>2 DEF Shape, Writes
<1>4. W!Alive(k) => NoResp(a) /\ a.reading /\ Timed(a)
  BY <1>1 DEF Good, Sends, Listens, NoResp, Timed
<1>5. NoResp(a) => NoResp(f)
  <2> SUFFICES ASSUME NoResp(a), NEW i \in 1 .. Len(f.wq)
               PROVE  f.wq[i] # "resp"
    BY DEF NoResp
  <2> QED
    BY <1>2 DEF NoResp
<1>6. W!Alive(a) = W!Alive(k) /\ W!Alive(f) = W!Alive(k)
  BY <1>1, <1>2 DEF W!Alive
<1>7. W!Alive(k) => NoResp(f) /\ f.reading /\ Timed(f)
  BY <1>2, <1>4, <1>5 DEF Timed
<1>8. Good(a) /\ Ready(a) /\ Good(f) /\ Ready(f)
  BY <1>1, <1>3, <1>4, <1>6, <1>7 DEF Good, Listens, Ready
<1> QED
  BY <1>8 DEF a, f

(* What has been decrypted is parsed. *)
LEMMA DecryptsGood ==
  ASSUME NEW t, NEW w, Ready(w), Decrypts(t, w) PROVE Good(conn')
<1> DEFINE k == [w EXCEPT !.buf = Pieces(Decrypted(t)),
                          !.recvd = @ + Len(Decrypted(t))]
<1>1. \E e : \E r \in W!Reply : conn' = W!Parse(k, e, r, FALSE)
  BY DEF Decrypts
<1>2. Ready(k)
  BY DEF Ready, Shape, Fields, W!Alive, NoResp, Timed
<1> HIDE DEF k
<1> QED
  BY <1>1, <1>2, Parses

(* read_cb: the handshake goes on, or what was decrypted is parsed. *)
LEMMA Reads == ASSUME Good(conn), read_cb PROVE Good(conn')
<1>1. Shape(conn) /\ conn.reading
  BY DEF Good, read_cb
<1>2. PICK units \in PeerData : LET g == Given(units) IN
       IF Refuses(conn, tls)
       THEN conn' = W!TakeAction(conn, "CA_SHUTDOWN") /\ tls' = g
       ELSE \E output \in Outputs(g) :
              LET h == IF g.hs = "TLS_HS_DONE" THEN g ELSE tls_do_handshake(g)
                  t == IF output THEN tls_flush_enc_out(Drained(h, TRUE)) ELSE h
                  k == W!alloc_cb(conn, <<>>)
                  w == IF output THEN [k EXCEPT !.wq = Append(@, "flight")] ELSE k
              IN CASE output /\ W!NotConn(conn) ->
                        conn' = W!TakeAction(k, "CA_SHUTDOWN") /\ tls' = h
                   [] ~(output /\ W!NotConn(conn)) /\ Closes(t) ->
                        /\ conn' = W!TakeAction(w, "CA_CLOSE")
                        /\ tls' = SSL_read(t)
                   [] ~(output /\ W!NotConn(conn)) /\ Waits(t) ->
                        conn' = W!stream_read_start(w) /\ tls' = t
                   [] OTHER -> Decrypts(t, w)
  BY DEF read_cb
<1> DEFINE g == Given(units)
           k == W!alloc_cb(conn, <<>>)
           f == [k EXCEPT !.wq = Append(@, "flight")]
<1>3. Good(k) /\ Ready(k) /\ Good(f) /\ Ready(f) /\ Shape(k) /\ Shape(f)
  BY <1>1, Allocates DEF Good
<1>4. CASE Refuses(conn, tls)
  BY <1>1, <1>2, <1>4, Acts, DeadGood
<1>5. CASE ~Refuses(conn, tls)
  <2>1. PICK output \in Outputs(g) :
          LET h == IF g.hs = "TLS_HS_DONE" THEN g ELSE tls_do_handshake(g)
              t == IF output THEN tls_flush_enc_out(Drained(h, TRUE)) ELSE h
              w == IF output THEN f ELSE k
          IN CASE output /\ W!NotConn(conn) ->
                    conn' = W!TakeAction(k, "CA_SHUTDOWN") /\ tls' = h
               [] ~(output /\ W!NotConn(conn)) /\ Closes(t) ->
                    /\ conn' = W!TakeAction(w, "CA_CLOSE")
                    /\ tls' = SSL_read(t)
               [] ~(output /\ W!NotConn(conn)) /\ Waits(t) ->
                    conn' = W!stream_read_start(w) /\ tls' = t
               [] OTHER -> Decrypts(t, w)
    BY <1>2, <1>5, Zenon
  <2> DEFINE h == IF g.hs = "TLS_HS_DONE" THEN g ELSE tls_do_handshake(g)
             t == IF output THEN tls_flush_enc_out(Drained(h, TRUE)) ELSE h
             w == IF output THEN f ELSE k
  <2> HIDE DEF g, k, f
  <2>2. Good(w) /\ Ready(w) /\ Shape(w)
    BY <1>3
  <2> HIDE DEF w, t, h
  <2>3. \/ conn' = W!TakeAction(k, "CA_SHUTDOWN")
        \/ conn' = W!TakeAction(w, "CA_CLOSE")
        \/ conn' = W!stream_read_start(w)
        \/ Decrypts(t, w)
    BY <2>1, Zenon DEF w, t, h
  <2> QED
    BY <1>3, <2>2, <2>3, Acts, DeadGood, GoodStarts, DecryptsGood
<1> QED
  BY <1>4, <1>5

(* read_cb with UV_EOF or an error. *)
LEMMA Closing == ASSUME Good(conn), PeerCloses PROVE Good(conn')
<1>1. \E act \in {"CA_SHUTDOWN", "CA_CLOSE"} : conn' = W!TakeAction(conn, act)
  BY DEF PeerCloses
<1> QED
  BY <1>1, Acts, DeadGood DEF Good

(* The report of a flight leaves a response that is under way alone.       *)
LEMMA Flown == ASSUME Good(conn), FlightWritten PROVE Good(conn')
<1>1. Good(Reported)
  BY OtherLeaves DEF FlightWritten, Reports, Reported
<1>2. \/ conn' = W!Drain(W!stream_read_start(Reported))
      \/ conn' = W!close_connection(Reported)
  BY DEF FlightWritten, tls_write_cb
<1> QED
  BY <1>1, <1>2, GoodStarts, Drains, Closed, DeadGood DEF Good

(* x_write_cb. *)
LEMMA Stated == ASSUME Good(conn), StatusWritten PROVE Good(conn')
<1>1. Good(Reported)
  BY OtherLeaves DEF StatusWritten, Reports, Reported
<1>2. conn' = W!Drain(W!stream_read_start(Reported))
  BY DEF StatusWritten
<1> QED
  BY <1>1, <1>2, GoodStarts, Drains

(* write_cb. *)
LEMMA Written == ASSUME Good(conn), ResponseWritten PROVE Good(conn')
<1> DEFINE k == Reported
<1>1. /\ Quiet(k) /\ k.written = conn.written /\ k.pre = conn.pre
      /\ k.total = conn.total /\ k.chunked = conn.chunked
  BY ResponseLeaves, Shortens DEF ResponseWritten, Reports, Reported, Good
<1>2. PICK n \in W!NextPull(conn) : \E r \in W!Reply : \E e :
        conn' = W!Drain(W!write_cb(k, n, e, r, FALSE))
  BY Zenon DEF ResponseWritten
<1>3. PICK r \in W!Reply : \E e :
        conn' = W!Drain(W!write_cb(k, n, e, r, FALSE))
  BY <1>2
<1>4. PICK e : conn' = W!Drain(W!write_cb(k, n, e, r, FALSE))
  BY <1>3
<1> HIDE DEF k
<1>5. /\ n \in W!Pull
      /\ n.kind = "end" /\ k.chunked = 0 => k.written + k.pre >= k.total
  BY <1>1 DEF W!NextPull
<1>6. Good(W!write_cb(k, n, e, r, FALSE))
  BY <1>1, <1>5, WritesOn
<1> QED
  BY <1>4, <1>6, Drains

(* write_cb with an error. *)
LEMMA Failed == ASSUME Good(conn), WriteFailed PROVE Good(conn')
<1> DEFINE q == [Reported EXCEPT !.pre = 0]
<1>1. Shape(Reported)
  BY ResponseLeaves DEF WriteFailed, Reports, Reported, Quiet
<1>2. Shape(q)
  BY <1>1 DEF Shape, Fields
<1> QED
  BY <1>2, Closed, DeadGood DEF WriteFailed

(* shutdown_cb. *)
LEMMA ShutDown == ASSUME Good(conn), shutdown_cb PROVE Good(conn')
  BY Closed, DeadGood DEF shutdown_cb, Good

(* close_cb. *)
LEMMA ClosedDown == ASSUME Good(conn), close_cb PROVE Good(conn')
<1> DEFINE b == W!reset_response_body(conn)
           q == [b EXCEPT !.uv = "closed", !.rx = "RXS_RESTING",
                          !.reading = FALSE]
<1>1. Shape(b)
  BY Resets DEF Good, Like
<1> HIDE DEF b
<1>2. Shape(q) /\ q.uv = "closed"
  BY <1>1 DEF Shape, Fields
<1>3. conn' = q
  BY DEF close_cb, b
<1> QED
  BY <1>2, <1>3 DEF Good, W!Alive

(* client_aux_check. *)
LEMMA Checks == ASSUME Good(conn), client_aux_check PROVE Good(conn')
<1>1. Shape(W!stream_read_stop(conn))
  BY Stops DEF Good, Like
<1> QED
  BY <1>1, Shuts, DeadGood DEF client_aux_check

(* The invariant holds before the first connection. *)
THEOREM Initial == Init => IInv
  BY FreshDead, DeadGood DEF Init, IInv

(* Each callback of libuv keeps the invariant. *)
THEOREM Inductive == IInv /\ [Next]_vars => IInv'
<1> SUFFICES ASSUME Good(conn), [Next]_vars PROVE Good(conn')
  BY DEF IInv
<1>1. CASE connection_cb
  BY <1>1, Connects
<1>2. CASE read_cb
  BY <1>2, Reads
<1>3. CASE PeerCloses
  BY <1>3, Closing
<1>4. CASE FlightWritten
  BY <1>4, Flown
<1>5. CASE ResponseWritten
  BY <1>5, Written
<1>6. CASE WriteFailed
  BY <1>6, Failed
<1>7. CASE StatusWritten
  BY <1>7, Stated
<1>8. CASE shutdown_cb
  BY <1>8, ShutDown
<1>9. CASE close_cb
  BY <1>9, ClosedDown
<1>10. CASE client_aux_check
  BY <1>10, Checks
<1>11. CASE UNCHANGED vars
  BY <1>11 DEF vars
<1> QED
  BY <1>1, <1>2, <1>3, <1>4, <1>5, <1>6, <1>7, <1>8, <1>9, <1>10, <1>11 DEF Next

(* The client_t of a TLS connection is good in every reachable state. *)
THEOREM Invariance == Spec => []IInv
  BY Initial, Inductive, PTL DEF Spec

(* While a response is on its way a live connection neither reads nor      *)
(* leaves CS_RESP_SEND, whenever the last flight of the handshake is       *)
(* reported (tls.c:466).                                                   *)
THEOREM RespondingIsDeaf == Spec => []DeafWhileResponding
<1>1. IInv => DeafWhileResponding
  BY DEF IInv, DeafWhileResponding, Alive, InFlight, Good, Sends, Listens,
         NoResp, Shape
<1> QED
  BY <1>1, Invariance, PTL

(* A live connection with no response under way listens, in the handshake  *)
(* too, and one of the times that client_aux_check compares is set         *)
(* (server.c:519-742, tls.c:466, 540-620).                                 *)
THEOREM NeverLeftAlone == Spec => []NeverStuck
<1>1. IInv => NeverStuck
  BY DEF IInv, NeverStuck, Alive, InFlight, Good, Sends, Listens, Timed, Shape
<1> QED
  BY <1>1, Invariance, PTL
=============================================================================
