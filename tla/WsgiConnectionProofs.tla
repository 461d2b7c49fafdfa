------------------------ MODULE WsgiConnectionProofs ------------------------
(***************************************************************************)
(* TLAPS proofs about WsgiConnection, for any number of connections, any   *)
(* amount of request data and any bodies; the last part shows that it      *)
(* implements HttpExchange.                                                *)
(*                                                                         *)
(* The inductive invariant says of every client_t that it is well formed,  *)
(* that at most one response is queued, and that a live connection with a  *)
(* queued response is deaf and in CS_RESP_SEND (Good).  A handler works on *)
(* a client_t that, while live, has no response queued (Quiet): read_cb    *)
(* because reading was on, write_cb because libuv has just handed the      *)
(* write back.  Each C function is a lemma: from Quiet or Good to Good.    *)
(***************************************************************************)
EXTENDS WsgiExchange, TLAPS

NoResponse(k) == \A i \in 1 .. Len(k.wq) : k.wq[i] # "resp"

AtMostOne(k) ==
  \A i, j \in 1 .. Len(k.wq) : k.wq[i] = "resp" /\ k.wq[j] = "resp" => i = j

Good(k) ==
  /\ k \in Conn
  /\ AtMostOne(k)
  /\ Alive(k) => NoResponse(k) \/ (k.state = "CS_RESP_SEND" /\ ~k.reading)

Quiet(k) ==
  /\ k \in Conn
  /\ AtMostOne(k)
  /\ Alive(k) => NoResponse(k)

IInv ==
  /\ conn \in [Clients -> Conn]
  /\ pyerr \in Clients \cup {NoClient}
  /\ \A c \in Clients : Good(conn[c])

-----------------------------------------------------------------------------
(* Sameness: q has the writes of k and is live only if k is. *)
Follows(q, k) ==
  /\ q \in Conn
  /\ q.wq = k.wq
  /\ q.uv = k.uv \/ q.uv = "closing"
  /\ q.shut = k.shut \/ q.shut = TRUE

(* A quiet connection is good. *)
LEMMA QuietIsGood == ASSUME NEW k, Quiet(k) PROVE Good(k)
  BY DEF Quiet, Good

(* What follows a quiet connection is quiet. *)
LEMMA FollowsQuiet == ASSUME NEW k, NEW q, Quiet(k), Follows(q, k)
                      PROVE Quiet(q)
  BY DEF Quiet, Follows, Alive, AtMostOne, NoResponse

(* What follows a good connection and is not live is quiet. *)
LEMMA DeadQuiet == ASSUME NEW k, NEW q, Good(k), Follows(q, k), ~Alive(q)
                   PROVE Quiet(q)
  BY DEF Good, Quiet, Follows, AtMostOne

(* Closing keeps the writes and ends the connection (close_connection). *)
LEMMA CloseFollows ==
  ASSUME NEW k \in Conn
  PROVE  Follows(close_connection(k), k) /\ ~Alive(close_connection(k))
  BY ZenonT(60) DEF Conn, ClientState, close_connection, Follows, Alive

(* stream_read_stop changes nothing but reading. *)
LEMMA StopFollows ==
  ASSUME NEW k \in Conn
  PROVE  /\ Follows(stream_read_stop(k), k)
         /\ stream_read_stop(k).reading = FALSE
  BY DEF Conn, ClientState, stream_read_stop, Follows

(* shutdown_connection keeps the writes and ends the connection. *)
LEMMA ShutdownFollows ==
  ASSUME NEW k \in Conn
  PROVE  Follows(shutdown_connection(k), k) /\ ~Alive(shutdown_connection(k))
<1>1. CASE NotConn(k)
  BY <1>1, CloseFollows DEF shutdown_connection
<1>2. CASE ~NotConn(k)
  BY <1>2 DEF Conn, ClientState, shutdown_connection, NotConn, Follows, Alive
<1> QED
  BY <1>1, <1>2

(* stream_read_start keeps the writes; it may close, never reopen. *)
LEMMA StartFollows ==
  ASSUME NEW k \in Conn
  PROVE  Follows(stream_read_start(k), k)
<1>1. CASE k.rx = "RXS_FREEZED" \/ k.state = "CS_RESP_SEND"
  BY <1>1 DEF stream_read_start, Follows, Conn
<1>2. CASE /\ ~(k.rx = "RXS_FREEZED" \/ k.state = "CS_RESP_SEND")
           /\ k.uv = "open"
  BY <1>2 DEF stream_read_start, Follows, Conn, ClientState
<1>3. CASE /\ ~(k.rx = "RXS_FREEZED" \/ k.state = "CS_RESP_SEND")
           /\ k.uv # "open"
  BY <1>3, CloseFollows DEF stream_read_start
<1> QED
  BY <1>1, <1>2, <1>3

(* reset_response_body keeps the writes and the request buffer. *)
LEMMA ResetFollows ==
  ASSUME NEW k \in Conn
  PROVE  /\ Follows(reset_response_body(k), k)
         /\ reset_response_body(k).buf = k.buf
         /\ reset_response_body(k).parsed = k.parsed
<1> DEFINE q == reset_response_body(k)
<1>1. 0 \in Nat /\ 0 \in 0 .. 2 /\ FALSE \in BOOLEAN
  OBVIOUS
<1>2. q \in Conn
  <2>1. [k EXCEPT !.pre = 0, !.total = 0, !.written = 0] \in Conn
    BY <1>1 DEF Conn
  <2> QED
    BY <1>1, <2>1 DEF Conn, reset_response_body
<1>3. q.wq = k.wq /\ q.uv = k.uv /\ q.shut = k.shut
  BY DEF Conn, reset_response_body
<1>4. q.buf = k.buf /\ q.parsed = k.parsed
  BY DEF Conn, reset_response_body
<1> QED
  BY <1>2, <1>3, <1>4 DEF Follows

(* stream_write leaves a good connection when it found a quiet one. *)
LEMMA WriteGood == ASSUME NEW k, Quiet(k) PROVE Good(stream_write(k))
<1> DEFINE q == stream_write(k)
<1>1. k \in Conn
  BY DEF Quiet
<1>2. CASE Writable(k)
  <2>1. k.wq \in Seq({"status", "resp"})
    BY <1>1 DEF Conn
  <2>2. Append(k.wq, "resp") \in Seq({"status", "resp"})
    BY <2>1
  <2>3. q = [k EXCEPT !.state = "CS_RESP_SEND", !.reading = FALSE,
                      !.wq = Append(k.wq, "resp")]
    BY <1>2 DEF stream_write, Writable
  <2>4. q \in Conn
    BY ZenonT(60), <1>1, <2>2, <2>3 DEF Conn, ClientState
  <2>5. /\ q.wq = Append(k.wq, "resp")
        /\ q.state = "CS_RESP_SEND" /\ q.reading = FALSE
    BY <1>1, <2>3 DEF Conn
  <2>6. NoResponse(k)
    BY <1>2 DEF Writable, NotConn, Quiet, Alive
  <2>7. AtMostOne(q)
    BY <2>1, <2>5, <2>6 DEF AtMostOne, NoResponse
  <2> QED
    BY <2>4, <2>5, <2>7 DEF Good
<1>3. CASE ~Writable(k)
  <2>1. \/ q = [k EXCEPT !.state = "CS_DESTROY"]
        \/ q = [k EXCEPT !.state = "CS_DESTROY", !.reading = FALSE]
    BY <1>3 DEF stream_write
  <2>2. Follows(q, k)
    BY ZenonT(60), <1>1, <2>1 DEF Follows, Conn, ClientState
  <2> QED
    BY <2>2, FollowsQuiet, QuietIsGood
<1> QED
  BY <1>2, <1>3

(* The same of the write of a response head. *)
LEMMA WriteHeadGood ==
  ASSUME NEW k, NEW status \in Status, Quiet(k)
  PROVE  Good(WriteHead(k, status))
<1> DEFINE w == stream_write(k)
           n == IF status = "stray500" THEN w.begun ELSE w.begun + 1
           q == [w EXCEPT !.begun = n, !.status = status]
<1>1. Good(w) /\ w \in Conn
  BY WriteGood DEF Good
<1>2. n \in Nat
  BY <1>1 DEF Conn
<1> HIDE DEF n
<1>3. q \in Conn
  BY <1>1, <1>2 DEF Conn
<1>4. /\ q.wq = w.wq /\ q.uv = w.uv /\ q.shut = w.shut
      /\ q.state = w.state /\ q.reading = w.reading
  BY <1>1 DEF Conn
<1>5. Good(q)
  BY <1>1, <1>3, <1>4 DEF Good, AtMostOne, NoResponse, Alive
<1> QED
  BY <1>1, <1>5 DEF WriteHead, n

(* send_fatal and send_error write only what stream_write allows. *)
LEMMA SendStatusGood ==
  ASSUME NEW k, NEW status \in Status, Quiet(k)
  PROVE  Good(SendStatus(k, status))
<1>1. k \in Conn
  BY DEF Quiet
<1>2. Quiet(BuildEmpty(k))
  BY <1>1, ResetFollows, FollowsQuiet DEF BuildEmpty
<1> QED
  BY <1>2, WriteHeadGood, QuietIsGood DEF SendStatus

(* Whatever action read_cb ends with leaves a good connection. *)
LEMMA TakeActionGood ==
  ASSUME NEW k, NEW act \in Action, Good(k)
  PROVE  Good(TakeAction(k, act))
<1>1. k \in Conn
  BY DEF Good
<1> DEFINE s == stream_read_stop(k)
<1>2. Follows(s, k) /\ s \in Conn
  BY <1>1, StopFollows DEF Follows
<1>3. Follows(close_connection(s), k) /\ ~Alive(close_connection(s))
  BY <1>2, CloseFollows DEF Follows
<1>4. Follows(shutdown_connection(s), k) /\ ~Alive(shutdown_connection(s))
  BY <1>2, ShutdownFollows DEF Follows
<1>5. Good(close_connection(s)) /\ Good(shutdown_connection(s))
  BY <1>3, <1>4, DeadQuiet, QuietIsGood
<1> QED
  BY <1>5 DEF TakeAction, Action

(* `fin:` of read_cb: always from a quiet connection, and from a good one  *)
(* when no error is answered there.                                        *)
LEMMA ReadFinGood ==
  ASSUME NEW k, NEW err \in Status, NEW act \in Action, NEW py \in BOOLEAN,
         Quiet(k) \/ (Good(k) /\ (act # "CA_OK" \/ (err = "none" /\ ~py)))
  PROVE  Good(ReadFin(k, err, act, py))
<1> DEFINE e == IF py /\ err = "none" THEN "stray500" ELSE err
<1>1. e \in Status
  BY DEF Status
<1>2. Good(k)
  BY QuietIsGood
<1>3. CASE e = "none" \/ act # "CA_OK"
  BY <1>2, <1>3, TakeActionGood DEF ReadFin
<1>4. CASE ~(e = "none" \/ act # "CA_OK")
  <2>1. Quiet(k)
    BY <1>4
  <2>2. Good(SendStatus(k, e))
    BY <1>1, <2>1, SendStatusGood
  <2> DEFINE a == IF Persistent(k) THEN "CA_OK" ELSE "CA_SHUTDOWN"
  <2>3. a \in Action
    BY DEF Action
  <2>4. Good(TakeAction(SendStatus(k, e), a))
    BY <2>2, <2>3, TakeActionGood
  <2> QED
    BY <1>4, <2>4 DEF ReadFin
<1> QED
  BY <1>3, <1>4

-----------------------------------------------------------------------------
(* Parsing. *)

(* x_send_status only adds a status line to the queue. *)
LEMMA StatusQuiet ==
  ASSUME NEW k, Quiet(k)
  PROVE  /\ Quiet(x_send_status(k))
         /\ x_send_status(k).buf = k.buf
         /\ x_send_status(k).parsed = k.parsed
<1> DEFINE q == x_send_status(k)
<1>1. k \in Conn
  BY DEF Quiet
<1>2. CASE NotConn(k)
  <2>1. q = [k EXCEPT !.state = "CS_DESTROY"]
    BY <1>2 DEF x_send_status
  <2>2. Follows(q, k) /\ q.buf = k.buf /\ q.parsed = k.parsed
    BY <1>1, <2>1 DEF Follows, Conn, ClientState
  <2> QED
    BY <2>2, FollowsQuiet
<1>3. CASE ~NotConn(k)
  <2>1. k.wq \in Seq({"status", "resp"})
    BY <1>1 DEF Conn
  <2>2. Append(k.wq, "status") \in Seq({"status", "resp"})
    BY <2>1
  <2>3. q = [k EXCEPT !.wq = Append(k.wq, "status")]
    BY <1>3 DEF x_send_status
  <2>4. q \in Conn
    BY <1>1, <2>2, <2>3 DEF Conn
  <2>5. /\ q.wq = Append(k.wq, "status") /\ q.uv = k.uv /\ q.shut = k.shut
        /\ q.buf = k.buf /\ q.parsed = k.parsed
    BY <1>1, <2>3 DEF Conn
  <2>6. AtMostOne(q)
    BY <2>1, <2>5 DEF AtMostOne, Quiet
  <2>7. Alive(q) => NoResponse(q)
    BY <2>1, <2>5 DEF NoResponse, Quiet, Alive
  <2> QED
    BY <2>4, <2>5, <2>6, <2>7 DEF Quiet
<1> QED
  BY <1>2, <1>3

(* The parser callbacks leave the connection quiet and rx.buf alone. *)
LEMMA FeedQuiet ==
  ASSUME NEW k, NEW e, Quiet(k)
  PROVE  /\ Quiet(Feed(k, e))
         /\ Feed(k, e).buf = k.buf
         /\ Feed(k, e).parsed = k.parsed
<1> DEFINE p == [k EXCEPT !.state = "CS_REQ_PARSE"]
           b == on_message_begin(p)
           m == IF k.parser = "idle" THEN b ELSE p
<1>1. k \in Conn
  BY DEF Quiet
<1>2. Follows(p, k) /\ p.buf = k.buf /\ p.parsed = k.parsed
  BY <1>1 DEF Follows, Conn, ClientState
<1>3. Quiet(p) /\ p \in Conn
  BY <1>2, FollowsQuiet DEF Follows
<1> DEFINE z == reset_response_body(p)
<1>4. Quiet(z) /\ z \in Conn /\ z.buf = p.buf /\ z.parsed = p.parsed
  BY <1>3, ResetFollows, FollowsQuiet DEF Follows
<1>5. b = [z EXCEPT !.reqT = TRUE, !.lastT = FALSE, !.parser = "mid"]
  BY DEF on_message_begin
<1> HIDE DEF z, b
<1>6. Follows(b, z) /\ b.buf = z.buf /\ b.parsed = z.parsed
  BY <1>4, <1>5 DEF Follows, Conn
<1>7. Quiet(m) /\ m.buf = k.buf /\ m.parsed = k.parsed
  BY <1>2, <1>3, <1>4, <1>6, FollowsQuiet
<1>8. /\ Quiet(x_send_status(m)) /\ x_send_status(m).buf = k.buf
      /\ x_send_status(m).parsed = k.parsed
  BY <1>7, StatusQuiet
<1>9. Feed(k, e) = m \/ Feed(k, e) = x_send_status(m)
  BY DEF Feed, b
<1> HIDE DEF m
<1> QED
  BY <1>7, <1>8, <1>9

(* The pieces up to e are consumed. *)
Within(k, e) == e \in Unparsed(k, Len(k.buf))

(* What one llhttp_execute consumes is a number of pieces. *)
LEMMA WithinNat ==
  ASSUME NEW k \in Conn, NEW e, Within(k, e)
  PROVE  e \in Nat /\ e - k.parsed \in Nat /\ k.ppos + (e - k.parsed) \in Nat
<1>1. k.parsed \in Nat /\ k.ppos \in Nat /\ Len(k.buf) \in Nat
  BY DEF Conn
<1>2. e \in k.parsed + 1 .. Len(k.buf)
  BY DEF Within, Unparsed
<1> QED
  BY <1>1, <1>2

(* An incomplete message queues no response. *)
LEMMA IncompleteQuiet ==
  ASSUME NEW k, NEW e, Quiet(k), Within(k, e)
  PROVE  Quiet(Incomplete(k, e))
<1> DEFINE p == [k EXCEPT !.parsed = e, !.ppos = k.ppos + (e - k.parsed)]
           q == [p EXCEPT !.rx = "RXS_READING"]
<1>1. k \in Conn
  BY DEF Quiet
<1>2. e \in Nat /\ k.ppos + (e - k.parsed) \in Nat
  BY <1>1, WithinNat
<1>3. p \in Conn
  BY <1>1, <1>2 DEF Conn
<1>4. Follows(p, k)
  BY <1>1, <1>3 DEF Follows, Conn
<1>5. q \in Conn
  BY <1>3 DEF Conn, RxStatus
<1>6. q.wq = p.wq /\ q.uv = p.uv /\ q.shut = p.shut
  BY <1>3 DEF Conn
<1>7. Quiet(p) /\ Quiet(q)
  BY <1>4, <1>5, <1>6, FollowsQuiet DEF Follows
<1>8. Quiet(stream_read_start(q))
  BY <1>5, <1>7, StartFollows, FollowsQuiet
<1>9. Incomplete(k, e) = p \/ Incomplete(k, e) = stream_read_start(q)
  BY DEF Incomplete
<1> HIDE DEF p, q
<1> QED
  BY <1>7, <1>8, <1>9

(* A complete message queues no response yet. *)
LEMMA CompleteQuiet ==
  ASSUME NEW k, NEW e, Quiet(k), Within(k, e)
  PROVE  /\ Quiet(on_message_complete(k, e))
         /\ Within(on_message_complete(k, e), e)
<1> DEFINE m == on_message_complete(k, e)
<1>1. k \in Conn
  BY DEF Quiet
<1>2. k.asked + 1 \in Nat /\ (k.buf[e] # "endClose") \in BOOLEAN
  BY <1>1 DEF Conn
<1>3. m \in Conn
  BY <1>1, <1>2 DEF Conn, on_message_complete
<1>4. /\ m.wq = k.wq /\ m.uv = k.uv /\ m.shut = k.shut
      /\ m.buf = k.buf /\ m.parsed = k.parsed
  BY <1>1 DEF Conn, on_message_complete
<1> HIDE DEF m
<1>5. Quiet(m)
  BY <1>3, <1>4, FollowsQuiet DEF Follows
<1>6. Within(m, e)
  BY <1>4 DEF Within, Unparsed
<1> QED
  BY <1>5, <1>6 DEF m

(* Freezing the buffer, or reading on, queues nothing either. *)
LEMMA PausedQuiet ==
  ASSUME NEW k, NEW e, Quiet(k), Within(k, e)
  PROVE  Quiet(Paused(k, e))
<1> DEFINE p == [k EXCEPT !.parsed = e, !.ppos = k.ppos + (e - k.parsed)]
           r == [p EXCEPT !.rx = "RXS_READING"]
           f == [p EXCEPT !.rx = "RXS_FREEZED"]
<1>1. k \in Conn
  BY DEF Quiet
<1>2. e \in Nat /\ k.ppos + (e - k.parsed) \in Nat
  BY <1>1, WithinNat
<1>3. p \in Conn
  BY <1>1, <1>2 DEF Conn
<1>4. p.wq = k.wq /\ p.uv = k.uv /\ p.shut = k.shut
  BY <1>1 DEF Conn
<1>5. \/ Paused(k, e) = stream_read_start(r)
      \/ Paused(k, e) = stream_read_stop(f)
  BY DEF Paused
<1> HIDE DEF p
<1>6. r \in Conn /\ r.wq = p.wq /\ r.uv = p.uv /\ r.shut = p.shut
  BY <1>3 DEF Conn, RxStatus
<1>7. f \in Conn /\ f.wq = p.wq /\ f.uv = p.uv /\ f.shut = p.shut
  BY <1>3 DEF Conn, RxStatus
<1> HIDE DEF r, f
<1>8. Quiet(r) /\ Quiet(f)
  BY <1>4, <1>6, <1>7, FollowsQuiet DEF Follows
<1>9. Quiet(stream_read_start(r)) /\ Quiet(stream_read_stop(f))
  BY <1>6, <1>7, <1>8, StartFollows, StopFollows, FollowsQuiet
<1> QED
  BY <1>5, <1>9

(* Calling the application queues its response or an error, once. *)
LEMMA RunApplicationGood ==
  ASSUME NEW k, NEW r \in Reply, NEW py \in BOOLEAN, Quiet(k)
  PROVE  Good(RunApplication(k, r, py))
<1> DEFINE a == [k EXCEPT !.state = "CS_RESP_BILD", !.calls = k.calls + 1]
           ch == IF r.kind = "chunked" THEN 1 ELSE 0
           b == [a EXCEPT !.pre = r.pre, !.total = r.total, !.chunked = ch,
                          !.iter = TRUE]
<1>1. k \in Conn /\ k.calls + 1 \in Nat
  BY DEF Quiet, Conn
<1>2. a \in Conn /\ a.wq = k.wq /\ a.uv = k.uv /\ a.shut = k.shut
  BY <1>1 DEF Conn, ClientState
<1>3. r.pre \in Nat /\ r.total \in Nat
  BY BoundsAssumption DEF Reply
<1>4. ch \in 0 .. 2
  OBVIOUS
<1>5. b \in Conn /\ b.wq = a.wq /\ b.uv = a.uv /\ b.shut = a.shut
  <2>1. b \in Conn
    BY ZenonT(60), <1>2, <1>3, <1>4 DEF Conn
  <2>2. b.wq = a.wq /\ b.uv = a.uv /\ b.shut = a.shut
    BY <1>2 DEF Conn
  <2> QED
    BY <2>1, <2>2
<1>6. \/ /\ py \/ r.kind = "fail"
         /\ RunApplication(k, r, py)
              = ReadFin(a, IF r.kind = "fail" THEN "500" ELSE "stray500",
                        "CA_OK", py)
      \/ RunApplication(k, r, py)
           = ReadFin(WriteHead(b, "200"), "none",
                     IF Writable(b) THEN "CA_OK" ELSE "CA_SHUTDOWN", FALSE)
  BY DEF RunApplication
<1> HIDE DEF a, b, ch
<1>7. Quiet(a) /\ Quiet(b)
  BY <1>2, <1>5, FollowsQuiet DEF Follows
<1>8. Good(ReadFin(a, "500", "CA_OK", py)) /\ Good(ReadFin(a, "stray500", "CA_OK", py))
  BY <1>7, ReadFinGood DEF Status, Action
<1>9. Good(WriteHead(b, "200"))
  BY <1>7, WriteHeadGood DEF Status
<1>10. /\ Good(ReadFin(WriteHead(b, "200"), "none", "CA_OK", FALSE))
       /\ Good(ReadFin(WriteHead(b, "200"), "none", "CA_SHUTDOWN", FALSE))
  BY <1>9, ReadFinGood DEF Status, Action
<1> QED
  BY <1>6, <1>8, <1>10

(* read_cb from `parsing:` on queues at most one response. *)
LEMMA ParseGood ==
  ASSUME NEW k, NEW e, NEW r \in Reply, NEW py \in BOOLEAN,
         Quiet(k), EndsAt(k, e)
  PROVE  Good(Parse(k, e, r, py))
<1> DEFINE p == Feed(k, e)
           x == [p EXCEPT !.parser = "error"]
<1>1. Quiet(p) /\ p.buf = k.buf /\ p.parsed = k.parsed /\ p \in Conn
  BY FeedQuiet DEF Quiet
<1>2. Within(p, e)
  BY <1>1 DEF EndsAt, Within, Unparsed
<1> HIDE DEF p
<1>3. Quiet(x)
  <2>1. x \in Conn /\ x.wq = p.wq /\ x.uv = p.uv /\ x.shut = p.shut
    BY <1>1 DEF Conn
  <2> QED
    BY <1>1, <2>1, FollowsQuiet DEF Follows
<1> HIDE DEF x
<1>4. Good(ReadFin(SendStatus(x, "400"), "none", "CA_SHUTDOWN", py))
  BY <1>3, SendStatusGood, ReadFinGood DEF Status, Action
<1>5. Good(ReadFin(Incomplete(p, e), "none", "CA_OK", py))
  BY <1>1, <1>2, IncompleteQuiet, ReadFinGood DEF Status, Action
<1>6. Quiet(Paused(on_message_complete(p, e), e))
  BY <1>1, <1>2, CompleteQuiet, PausedQuiet
<1>7. Good(ReadFin(Paused(on_message_complete(p, e), e), "417", "CA_OK", py))
  BY <1>6, ReadFinGood DEF Status, Action
<1>8. Good(RunApplication(Paused(on_message_complete(p, e), e), r, py))
  BY <1>6, RunApplicationGood
<1>9. k \in Conn /\ k.parsed \in Nat /\ k.buf \in Seq(Token)
  BY DEF Quiet, Conn
<1>10. k.buf[e] \in Token
  BY <1>9 DEF EndsAt, Unparsed
<1>11. k.buf[e] = "bad" => ParseFails(k, e)
  BY DEF ParseFails
<1> QED
  BY <1>4, <1>5, <1>7, <1>8, <1>10, <1>11 DEF Parse, Stops, p, x

-----------------------------------------------------------------------------
(* Completion of a response write. *)

(* close_connection takes a good connection to a good one. *)
LEMMA CloseGood == ASSUME NEW k, Good(k) PROVE Good(close_connection(k))
  BY CloseFollows, DeadQuiet, QuietIsGood DEF Good

(* Reading on from a quiet connection leaves it quiet. *)
LEMMA StartQuiet == ASSUME NEW k, Quiet(k) PROVE Quiet(stream_read_start(k))
  BY StartFollows, FollowsQuiet DEF Quiet

(* shutdown_cb closes, nothing else. *)
LEMMA DrainGood == ASSUME NEW k, Good(k) PROVE Good(Drain(k))
  BY CloseGood DEF Drain

(* The next chunk is written by a write_cb that found a quiet connection. *)
LEMMA WriteMoreGood == ASSUME NEW k, Quiet(k) PROVE Good(WriteMore(k))
  BY WriteGood, CloseGood DEF WriteMore

(* EndsAt depends on the buffer and on how much of it is parsed. *)
LEMMA EndsAtSame ==
  ASSUME NEW k, NEW q, NEW e, q.buf = k.buf, q.parsed = k.parsed, EndsAt(k, e)
  PROVE  EndsAt(q, e)
  BY DEF EndsAt, Unparsed

(* The end of a response, a resumed frozen buffer included. *)
LEMMA FinishGood ==
  ASSUME NEW k, NEW e, NEW r \in Reply, NEW py \in BOOLEAN, Quiet(k),
         Resumes(k) => EndsAt(k, e)
  PROVE  Good(FinishResponse(k, e, r, py))
<1> DEFINE d == [k EXCEPT !.done = k.done + 1]
           z == reset_response_body(d)
           q == [z EXCEPT !.state = "CS_RESP_END"]
<1>1. k \in Conn /\ k.done + 1 \in Nat
  BY DEF Quiet, Conn
<1>2. /\ d \in Conn /\ d.wq = k.wq /\ d.uv = k.uv /\ d.shut = k.shut
      /\ d.buf = k.buf /\ d.parsed = k.parsed
  BY <1>1 DEF Conn
<1>3. \/ FinishResponse(k, e, r, py) = close_connection(d)
      \/ Resumes(k) /\ FinishResponse(k, e, r, py) = Parse(q, e, r, py)
      \/ FinishResponse(k, e, r, py) = stream_read_start(q)
  BY DEF FinishResponse
<1>4. Quiet(d)
  BY <1>2, FollowsQuiet DEF Follows
<1> HIDE DEF d
<1>5. Quiet(z) /\ z \in Conn /\ z.buf = k.buf /\ z.parsed = k.parsed
  BY <1>2, <1>4, ResetFollows, FollowsQuiet DEF Follows
<1> HIDE DEF z
<1>6. /\ q \in Conn /\ q.wq = z.wq /\ q.uv = z.uv /\ q.shut = z.shut
      /\ q.buf = z.buf /\ q.parsed = z.parsed
  BY <1>5 DEF Conn, ClientState
<1> HIDE DEF q
<1>7. Quiet(q)
  BY <1>5, <1>6, FollowsQuiet DEF Follows
<1>8. Good(close_connection(d)) /\ Good(stream_read_start(q))
  BY <1>4, <1>7, QuietIsGood, CloseGood, StartQuiet
<1>9. Resumes(k) => Good(Parse(q, e, r, py))
  BY <1>5, <1>6, <1>7, EndsAtSame, ParseGood
<1> QED
  BY <1>3, <1>8, <1>9

(* write_cb queues at most one response, whatever the iterator answers. *)
LEMMA WriteCbGood ==
  ASSUME NEW k, NEW n \in Pull, NEW e, NEW r \in Reply, NEW py \in BOOLEAN,
         Quiet(k), Resumes(k) /\ Exhausted(k, n) => EndsAt(k, e)
  PROVE  Good(write_cb(k, n, e, r, py))
<1> DEFINE s == Sent(k)
           b == [s EXCEPT !.state = "CS_RESP_BILD"]
           l == [s EXCEPT !.lastT = TRUE]
           m == [b EXCEPT !.pre = n.size]
           o == [b EXCEPT !.chunked = 2]
<1>1. k \in Conn /\ k.written + k.pre \in Nat /\ 0 \in Nat
  BY DEF Quiet, Conn
<1>2. /\ s \in Conn /\ s.wq = k.wq /\ s.uv = k.uv /\ s.shut = k.shut
      /\ s.buf = k.buf /\ s.parsed = k.parsed /\ s.chunked = k.chunked
      /\ s.keep = k.keep /\ s.rx = k.rx
  BY <1>1 DEF Sent, Conn, ClientState
<1>3. Quiet(s)
  BY <1>2, FollowsQuiet DEF Follows
<1>4. n.size \in Nat
  BY BoundsAssumption DEF Pull
<1> DEFINE w == write_cb(k, n, e, r, py)
<1>5. \/ w = close_connection(s)
      \/ LastWritten(s) /\ w = FinishResponse(l, e, r, py)
      \/ w = close_connection(b)
      \/ w = WriteMore(m)
      \/ w = WriteMore(o)
      \/ /\ Pulls(k) /\ n.kind = "end" /\ k.chunked = 0
         /\ w = FinishResponse(b, e, r, py)
  <2>1. n.kind \in {"chunk", "end", "raise", "notBytes"}
    BY DEF Pull
  <2>2. k.chunked \in {0, 1, 2}
    BY <1>1 DEF Conn
  <2>3. k.chunked = 2 => LastWritten(s)
    BY <1>2 DEF LastWritten
  <2>4. ~OverLength(s) /\ ~LastWritten(s) <=> Pulls(k)
    BY DEF Pulls
  <2> HIDE DEF s, b, l, m, o
  <2>5. CASE Pulls(k)
    BY <2>1, <2>2, <2>3, <2>4, <2>5 DEF write_cb, s, b, l, m, o
  <2>6. CASE ~Pulls(k)
    BY <2>4, <2>6 DEF write_cb, s, b, l, m, o
  <2> QED
    BY <2>5, <2>6
<1>6. LastWritten(s) => Exhausted(k, n)
  BY DEF Exhausted
<1>7. Pulls(k) /\ n.kind = "end" /\ k.chunked = 0 => Exhausted(k, n)
  BY DEF Exhausted, Pulls
<1> HIDE DEF s
<1>8. /\ b \in Conn /\ b.wq = s.wq /\ b.uv = s.uv /\ b.shut = s.shut
      /\ b.buf = s.buf /\ b.parsed = s.parsed /\ b.keep = s.keep /\ b.rx = s.rx
  BY <1>2 DEF Conn, ClientState
<1>9. /\ l \in Conn /\ l.wq = s.wq /\ l.uv = s.uv /\ l.shut = s.shut
      /\ l.buf = s.buf /\ l.parsed = s.parsed /\ l.keep = s.keep /\ l.rx = s.rx
  BY <1>2 DEF Conn
<1> HIDE DEF b, l
<1>10. Quiet(b) /\ Quiet(l)
  BY <1>3, <1>8, <1>9, FollowsQuiet DEF Follows
<1>11. Quiet(m)
  <2>1. m \in Conn /\ m.wq = b.wq /\ m.uv = b.uv /\ m.shut = b.shut
    BY <1>4, <1>8 DEF Conn
  <2> QED
    BY <1>10, <2>1, FollowsQuiet DEF Follows
<1>12. Quiet(o)
  <2>1. 2 \in 0 .. 2
    OBVIOUS
  <2>2. o \in Conn /\ o.wq = b.wq /\ o.uv = b.uv /\ o.shut = b.shut
    BY <1>8, <2>1 DEF Conn
  <2> QED
    BY <1>10, <2>2, FollowsQuiet DEF Follows
<1> HIDE DEF m, o
<1>13. /\ Good(close_connection(s)) /\ Good(close_connection(b))
       /\ Good(WriteMore(m)) /\ Good(WriteMore(o))
  BY <1>3, <1>10, <1>11, <1>12, QuietIsGood, CloseGood, WriteMoreGood
<1>14. LastWritten(s) => Good(FinishResponse(l, e, r, py))
  <2>1. LastWritten(s) /\ Resumes(l) => EndsAt(l, e)
    BY <1>2, <1>6, <1>9, EndsAtSame DEF Resumes, Persistent
  <2> QED
    BY <1>10, <2>1, FinishGood
<1>15. Pulls(k) /\ n.kind = "end" /\ k.chunked = 0
         => Good(FinishResponse(b, e, r, py))
  <2>1. Exhausted(k, n) /\ Resumes(b) => EndsAt(b, e)
    BY <1>2, <1>8, EndsAtSame DEF Resumes, Persistent
  <2> QED
    BY <1>7, <1>10, <2>1, FinishGood
<1> HIDE DEF w
<1>16. Good(w)
  BY <1>5, <1>13, <1>14, <1>15
<1> QED
  BY <1>16 DEF w

-----------------------------------------------------------------------------
(* The callbacks. *)

(* A response write that libuv reports leaves no other response queued. *)
LEMMA ReportQuiet ==
  ASSUME NEW k, Good(k), k.wq # <<>>, Head(k.wq) = "resp"
  PROVE  Quiet([k EXCEPT !.wq = Tail(k.wq)])
<1> DEFINE q == [k EXCEPT !.wq = Tail(k.wq)]
<1>1. k \in Conn /\ k.wq \in Seq({"status", "resp"})
  BY DEF Good, Conn
<1>2. Tail(k.wq) \in Seq({"status", "resp"})
  BY <1>1
<1>3. q \in Conn /\ q.wq = Tail(k.wq)
  BY <1>1, <1>2 DEF Conn
<1>4. NoResponse(q)
  BY <1>1, <1>3 DEF Good, AtMostOne, NoResponse
<1>5. AtMostOne(q)
  BY <1>4 DEF AtMostOne, NoResponse
<1> QED
  BY <1>3, <1>4, <1>5 DEF Quiet

(* ... and one that reports a status line leaves the response where it is. *)
LEMMA StatusGood ==
  ASSUME NEW k, Good(k), k.wq # <<>>, Head(k.wq) = "status"
  PROVE  Good([k EXCEPT !.wq = Tail(k.wq)])
<1> DEFINE q == [k EXCEPT !.wq = Tail(k.wq)]
<1>1. k \in Conn /\ k.wq \in Seq({"status", "resp"})
  BY DEF Good, Conn
<1>2. Tail(k.wq) \in Seq({"status", "resp"})
  BY <1>1
<1>3. /\ q \in Conn /\ q.wq = Tail(k.wq) /\ q.uv = k.uv /\ q.shut = k.shut
      /\ q.state = k.state /\ q.reading = k.reading
  BY <1>1, <1>2 DEF Conn
<1>4. \A i \in 1 .. Len(q.wq) : i + 1 \in 1 .. Len(k.wq) /\ q.wq[i] = k.wq[i + 1]
  BY <1>1, <1>3
<1>5. AtMostOne(q)
  <2> SUFFICES ASSUME NEW i \in 1 .. Len(q.wq), NEW j \in 1 .. Len(q.wq),
                      q.wq[i] = "resp", q.wq[j] = "resp"
               PROVE  i = j
    BY DEF AtMostOne
  <2>1. i + 1 = j + 1
    BY <1>4 DEF Good, AtMostOne
  <2> QED
    BY <2>1
<1>6. NoResponse(k) => NoResponse(q)
  BY <1>1, <1>3 DEF NoResponse
<1> QED
  BY <1>3, <1>5, <1>6 DEF Good, Alive

(* Restarting reading disturbs nothing: CS_RESP_SEND refuses it. *)
LEMMA StartGood == ASSUME NEW k, Good(k) PROVE Good(stream_read_start(k))
<1>1. k \in Conn
  BY DEF Good
<1>2. CASE Quiet(k)
  BY <1>2, StartQuiet, QuietIsGood
<1>3. CASE ~Quiet(k)
  <2>1. k.state = "CS_RESP_SEND"
    BY <1>3 DEF Good, Quiet
  <2> QED
    BY <2>1 DEF stream_read_start
<1> QED
  BY <1>2, <1>3

(* alloc_cb fills the buffer of a connection that is being read. *)
LEMMA AllocQuiet ==
  ASSUME NEW k, NEW toks \in Seq(Token), Good(k), k.reading
  PROVE  Quiet(k) /\ Quiet(alloc_cb(k, toks))
<1> DEFINE q == alloc_cb(k, toks)
<1>1. Quiet(k) /\ k \in Conn /\ k.recvd + Len(toks) \in Nat
  BY DEF Good, Quiet, Conn
<1>2. q \in Conn
  BY <1>1 DEF alloc_cb, Conn, RxStatus
<1>3. q.wq = k.wq /\ q.uv = k.uv /\ q.shut = k.shut
  BY <1>1 DEF alloc_cb, Conn
<1> QED
  BY <1>1, <1>2, <1>3, FollowsQuiet DEF Follows

(* A slot is good before and after connection_cb. *)
LEMMA FreshGood ==
  /\ Good([Fresh EXCEPT !.uv = "open", !.state = "CS_REQ_READ",
                        !.reading = TRUE, !.reqT = TRUE])
  /\ Good([Fresh EXCEPT !.uv = "closing", !.state = "CS_DESTROY"])
  /\ Good(Fresh)
<1>1. 0 \in Nat /\ 0 \in 0 .. 2 /\ <<>> \in Seq(Token)
      /\ <<>> \in Seq({"status", "resp"})
  OBVIOUS
<1>2. Fresh \in Conn /\ Fresh.wq = <<>>
  BY <1>1 DEF Fresh, Conn, ClientState, RxStatus, Status
<1> HIDE DEF Fresh
<1> DEFINE a == [Fresh EXCEPT !.uv = "open", !.state = "CS_REQ_READ",
                              !.reading = TRUE, !.reqT = TRUE]
           b == [Fresh EXCEPT !.uv = "closing", !.state = "CS_DESTROY"]
<1>3. a \in Conn /\ a.wq = <<>> /\ b \in Conn /\ b.wq = <<>>
  BY <1>2 DEF Conn, ClientState
<1> HIDE DEF a, b
<1>4. Good(a) /\ Good(b) /\ Good(Fresh)
  BY <1>2, <1>3 DEF Good, AtMostOne, NoResponse
<1> QED
  BY <1>4 DEF a, b

(* One slot changes, the others stay. *)
LEMMA SetGood ==
  ASSUME conn \in [Clients -> Conn], \A d \in Clients : Good(conn[d]),
         NEW c \in Clients, NEW k, Good(k), Set(c, k)
  PROVE  conn' \in [Clients -> Conn] /\ \A d \in Clients : Good(conn'[d])
  BY DEF Set, Good

(* The initial state satisfies the invariant. *)
THEOREM Initial == Init => IInv
<1> SUFFICES ASSUME Init PROVE IInv
  OBVIOUS
<1>1. Good(Fresh) /\ Fresh \in Conn
  BY FreshGood DEF Good
<1> QED
  BY <1>1 DEF Init, IInv

(* Every callback preserves the invariant, whatever the order libuv        *)
(* delivers them in.                                                       *)
THEOREM Inductive == IInv /\ [Next]_vars => IInv'
<1> SUFFICES ASSUME IInv, [Next]_vars PROVE IInv'
  OBVIOUS
<1> USE DEF IInv
<1>1. ASSUME NEW c \in Clients, connection_cb(c) PROVE IInv'
  BY <1>1, FreshGood, SetGood DEF connection_cb
<1>2. ASSUME NEW c \in Clients, read_cb(c) PROVE IInv'
  <2>1. PICK toks \in PeerData(conn[c]) :
          LET k == alloc_cb(conn[c], toks)
          IN IF conn[c].rx = "RXS_FREEZED"
             THEN Set(c, ReadFin(conn[c], "none", "CA_SHUTDOWN", pyerr # NoClient))
             ELSE \E e \in 1 .. Len(toks), r \in Reply :
                    /\ EndsAt(k, e)
                    /\ Set(c, Parse(k, e, r, pyerr # NoClient))
    BY <1>2 DEF read_cb
  <2>2. toks \in Seq(Token)
    BY PeersAssumption, BoundsAssumption DEF PeerData
  <2>3. Quiet(conn[c]) /\ Quiet(alloc_cb(conn[c], toks))
    BY <1>2, <2>2, AllocQuiet DEF read_cb
  <2>4. Good(ReadFin(conn[c], "none", "CA_SHUTDOWN", pyerr # NoClient))
    BY <2>3, ReadFinGood DEF Status, Action
  <2>5. \A e : \A r \in Reply : EndsAt(alloc_cb(conn[c], toks), e) =>
          Good(Parse(alloc_cb(conn[c], toks), e, r, pyerr # NoClient))
    BY <2>3, ParseGood
  <2>6. conn' \in [Clients -> Conn] /\ \A d \in Clients : Good(conn'[d])
    <3>1. CASE conn[c].rx = "RXS_FREEZED"
      BY <2>1, <2>4, <3>1, SetGood
    <3>2. CASE conn[c].rx # "RXS_FREEZED"
      <4>1. PICK e \in 1 .. Len(toks), r \in Reply :
              /\ EndsAt(alloc_cb(conn[c], toks), e)
              /\ Set(c, Parse(alloc_cb(conn[c], toks), e, r, pyerr # NoClient))
        BY <2>1, <3>2
      <4>2. Good(Parse(alloc_cb(conn[c], toks), e, r, pyerr # NoClient))
        BY <2>5, <4>1
      <4> QED
        BY <4>1, <4>2, SetGood
    <3> QED
      BY <3>1, <3>2
  <2> QED
    BY <1>2, <2>6 DEF read_cb
<1>3. ASSUME NEW c \in Clients, EmptyRead(c) PROVE IInv'
  <2>0. <<>> \in Seq(Token)
    OBVIOUS
  <2>1. Good(alloc_cb(conn[c], <<>>))
    BY <1>3, <2>0, AllocQuiet, QuietIsGood DEF EmptyRead
  <2> QED
    BY <1>3, <2>1, SetGood DEF EmptyRead
<1>4. ASSUME NEW c \in Clients, PeerCloses(c) PROVE IInv'
  <2>1. Good(TakeAction(conn[c], "CA_CLOSE"))
    BY TakeActionGood DEF Action
  <2> QED
    BY <1>4, <2>1, SetGood DEF PeerCloses
<1>5. ASSUME NEW c \in Clients, StatusWritten(c) PROVE IInv'
  <2> DEFINE k == [conn[c] EXCEPT !.wq = Tail(conn[c].wq)]
  <2>1. Set(c, Drain(stream_read_start(k))) \/ Set(c, close_connection(k))
    BY <1>5 DEF StatusWritten
  <2>2. Good(k)
    BY <1>5, StatusGood DEF StatusWritten
  <2>3. Good(Drain(stream_read_start(k))) /\ Good(close_connection(k))
    BY <2>2, StartGood, DrainGood, CloseGood
  <2> HIDE DEF k
  <2> QED
    BY <1>5, <2>1, <2>3, SetGood DEF StatusWritten
<1>6. ASSUME NEW c \in Clients, ResponseWritten(c) PROVE IInv'
  <2> DEFINE k == [conn[c] EXCEPT !.wq = Tail(conn[c].wq)]
  <2>1. Quiet(k) /\ k.buf = conn[c].buf /\ k.parsed = conn[c].parsed
    BY <1>6, ReportQuiet DEF ResponseWritten, Conn
  <2>2. PICK n \in NextPull(conn[c]), r \in Reply,
             e \in 0 .. Len(conn[c].buf), left \in BOOLEAN :
          /\ IF Resumes(k) /\ Exhausted(k, n) THEN EndsAt(k, e)
             ELSE e = 0 /\ r.kind = "fail"
          /\ Set(c, Drain(write_cb(k, n, e, r, pyerr # NoClient \/ left)))
          /\ pyerr' = IF Resumes(k) /\ Exhausted(k, n) THEN NoClient
                      ELSE IF left \/ (Pulls(k) /\ n.kind = "raise") THEN c
                      ELSE pyerr
    BY <1>6 DEF ResponseWritten
  <2> HIDE DEF k
  <2>3. n \in Pull
    BY DEF NextPull
  <2>4. Good(Drain(write_cb(k, n, e, r, pyerr # NoClient \/ left)))
    BY <2>1, <2>2, <2>3, WriteCbGood, DrainGood
  <2>5. conn' \in [Clients -> Conn] /\ \A d \in Clients : Good(conn'[d])
    BY <2>2, <2>4, SetGood
  <2>6. pyerr' \in Clients \cup {NoClient}
    BY <2>2
  <2> QED
    BY <2>5, <2>6
<1>7. ASSUME NEW c \in Clients, WriteFailed(c) PROVE IInv'
  <2> DEFINE k == [conn[c] EXCEPT !.wq = Tail(conn[c].wq)]
             z == [k EXCEPT !.pre = 0]
  <2>1. Quiet(k) /\ k \in Conn
    BY <1>7, ReportQuiet DEF WriteFailed, Quiet
  <2>2. Set(c, close_connection([conn[c] EXCEPT !.wq = Tail(conn[c].wq), !.pre = 0]))
    BY <1>7 DEF WriteFailed
  <2>3. [conn[c] EXCEPT !.wq = Tail(conn[c].wq), !.pre = 0] = z
    BY DEF Conn
  <2> HIDE DEF k
  <2>4. z \in Conn /\ z.wq = k.wq /\ z.uv = k.uv /\ z.shut = k.shut
    BY <2>1 DEF Conn
  <2>5. Good(close_connection(z))
    BY <2>1, <2>4, FollowsQuiet, QuietIsGood, CloseGood DEF Follows
  <2> HIDE DEF z
  <2> QED
    BY <1>7, <2>2, <2>3, <2>5, SetGood DEF WriteFailed
<1>8. ASSUME NEW c \in Clients, shutdown_cb(c) PROVE IInv'
  BY <1>8, CloseGood, SetGood DEF shutdown_cb
<1>9. ASSUME NEW c \in Clients, close_cb(c) PROVE IInv'
  <2> DEFINE z == reset_response_body(conn[c])
             q == [z EXCEPT !.uv = "closed", !.rx = "RXS_RESTING",
                            !.reading = FALSE]
  <2>1. z \in Conn /\ z.wq = conn[c].wq
    BY ResetFollows DEF Follows
  <2>2. Set(c, q)
    BY <1>9 DEF close_cb
  <2> HIDE DEF z
  <2>3. q \in Conn /\ q.wq = z.wq /\ q.uv = "closed"
    BY <2>1 DEF Conn, RxStatus
  <2> HIDE DEF q
  <2>4. Good(q)
    BY <2>1, <2>3 DEF Good, AtMostOne, Alive
  <2> QED
    BY <1>9, <2>2, <2>4, SetGood DEF close_cb
<1>10. ASSUME NEW c \in Clients, client_aux_check(c) PROVE IInv'
  <2>1. conn[c] \in Conn /\ Good(conn[c])
    OBVIOUS
  <2>2. Good(TakeAction(conn[c], "CA_SHUTDOWN"))
    BY <2>1, TakeActionGood DEF Action
  <2>3. TakeAction(conn[c], "CA_SHUTDOWN")
          = shutdown_connection(stream_read_stop(conn[c]))
    BY DEF TakeAction
  <2> QED
    BY <1>10, <2>2, <2>3, SetGood DEF client_aux_check
<1>11. CASE UNCHANGED vars
  BY <1>11 DEF vars
<1>12. CASE AllClosed
  BY <1>11, <1>12 DEF AllClosed
<1> QED
  BY <1>1, <1>2, <1>3, <1>4, <1>5, <1>6, <1>7, <1>8, <1>9, <1>10, <1>11, <1>12
  DEF Next

(* The invariant holds in every reachable state of the specification. *)
THEOREM Invariance == Spec => []IInv
  BY Initial, Inductive, PTL DEF Spec

(* Every client_t keeps its declared shape in every reachable state. *)
THEOREM Typed == Spec => []TypeOK
<1>1. IInv => TypeOK
  BY DEF IInv, TypeOK
<1> QED
  BY <1>1, Invariance, PTL

(* write_req is never given to uv_write while libuv owns it. *)
THEOREM WritesAreExclusive == Spec => []OneWriteInFlight
<1>1. IInv => OneWriteInFlight
  BY DEF IInv, Good, AtMostOne, OneWriteInFlight, InFlight
<1> QED
  BY <1>1, Invariance, PTL

(* A live connection is deaf while its response is on its way. *)
THEOREM RespondingIsDeaf == Spec => []DeafWhileResponding
<1>1. IInv => DeafWhileResponding
  BY DEF IInv, Good, NoResponse, DeafWhileResponding, InFlight
<1> QED
  BY <1>1, Invariance, PTL

-----------------------------------------------------------------------------
(***************************************************************************)
(* TLAPS proofs about what a connection of WsgiConnection has read, heard  *)
(* and answered.  The inductive invariant adds three parts to that of      *)
(* WsgiConnectionProofs: Parsed counts the pieces of request data and says *)
(* that only a frozen buffer holds unparsed ones, Answered counts messages *)
(* against response heads, Heard says that a live connection reads or has  *)
(* a response under way.                                                   *)
(***************************************************************************)

(* What was received and not parsed is what the buffer holds. *)
Counted(k) ==
  k.parser # "error" => k.recvd - k.ppos = Len(k.buf) - k.parsed

(* A buffer that is not frozen has been parsed to its end. *)
Drained(k) ==
  k.parser # "error" /\ k.rx # "RXS_FREEZED" => k.parsed = Len(k.buf)

(* No more answers than messages, and nothing lives behind a parse error. *)
Answered(k) ==
  /\ k.parser = "error" => ~Alive(k)
  /\ k.begun <= k.asked + (IF k.parser = "error" THEN 1 ELSE 0)

Heard(k) == Alive(k) => k.reading \/ ~NoResponse(k)

(* What every handler leaves of a connection that is not closed. *)
Tracked(k) == Counted(k) /\ Drained(k) /\ Answered(k) /\ Heard(k)

Settled(k) ==
  /\ Counted(k) /\ Answered(k) /\ Heard(k)
  /\ k.uv # "closed" => Drained(k)
  /\ k.uv = "closed" => k.wq = <<>>

TInv == IInv /\ \A c \in Clients : Settled(conn[c])

-----------------------------------------------------------------------------
(* Most functions leave alone what was read and parsed, and may only end   *)
(* the connection.                                                         *)
Same(q, k) ==
  /\ q \in Conn
  /\ q.buf = k.buf /\ q.parsed = k.parsed /\ q.rx = k.rx
  /\ q.parser = k.parser /\ q.keep = k.keep
  /\ q.reqT = k.reqT /\ q.lastT = k.lastT
  /\ q.recvd = k.recvd /\ q.ppos = k.ppos
  /\ q.asked = k.asked /\ q.calls = k.calls /\ q.done = k.done
  /\ q.uv = k.uv \/ q.uv = "closing"
  /\ q.shut = k.shut \/ q.shut = TRUE

Silent(q, k) == Same(q, k) /\ q.begun = k.begun

(* A head is given to libuv by a live connection only. *)
Speaks(q, k) ==
  /\ Same(q, k)
  /\ q.begun = k.begun \/ (q.begun = k.begun + 1 /\ Alive(k))

(* Silent functions compose with each other and with one that speaks. *)
LEMMA SilentTrans ==
  ASSUME NEW k, NEW p, NEW q, Silent(p, k), Silent(q, p)
  PROVE  Silent(q, k)
  BY DEF Silent, Same

(* Then one that speaks. *)
LEMMA SilentThenSpeaks ==
  ASSUME NEW k, NEW p, NEW q, Silent(p, k), Speaks(q, p)
  PROVE  Speaks(q, k)
  BY DEF Silent, Speaks, Same, Alive

(* Or first one that speaks. *)
LEMMA SpeaksThenSilent ==
  ASSUME NEW k, NEW p, NEW q, Speaks(p, k), Silent(q, p)
  PROVE  Speaks(q, k)
  BY DEF Silent, Speaks, Same

(* Speaking includes silence. *)
LEMMA SilentSpeaks == ASSUME NEW k, NEW q, Silent(q, k) PROVE Speaks(q, k)
  BY DEF Silent, Speaks

(* close_connection, stream_read_stop and shutdown_connection. *)
LEMMA CloseSilent ==
  ASSUME NEW k \in Conn PROVE Silent(close_connection(k), k)
  BY ZenonT(60) DEF Conn, ClientState, close_connection, Silent, Same

(* stream_read_stop keeps the state too. *)
LEMMA StopSilent ==
  ASSUME NEW k \in Conn
  PROVE  Silent(stream_read_stop(k), k) /\ stream_read_stop(k).state = k.state
  BY DEF Conn, ClientState, stream_read_stop, Silent, Same

(* shutdown_connection closes a connection that is not connected any       *)
(* more.                                                                   *)
LEMMA ShutdownSilent ==
  ASSUME NEW k \in Conn PROVE Silent(shutdown_connection(k), k)
<1>1. CASE NotConn(k)
  BY <1>1, CloseSilent DEF shutdown_connection
<1>2. CASE ~NotConn(k)
  BY <1>2 DEF Conn, ClientState, shutdown_connection, Silent, Same
<1> QED
  BY <1>1, <1>2

(* stream_read_start: a connection that is still open, has no frozen       *)
(* buffer and sends nothing reads on.                                      *)
LEMMA StartSilent ==
  ASSUME NEW k \in Conn
  PROVE  /\ Silent(stream_read_start(k), k)
         /\ k.state # "CS_RESP_SEND"
              => stream_read_start(k).state # "CS_RESP_SEND"
         /\ k.state # "CS_RESP_SEND" /\ k.rx # "RXS_FREEZED" /\ k.uv = "open"
              => stream_read_start(k).reading
         /\ k.reading => stream_read_start(k).reading \/ k.uv # "open"
         /\ k.uv = "open" => /\ stream_read_start(k).uv = "open"
                             /\ stream_read_start(k).shut = k.shut
<1>1. CASE k.rx = "RXS_FREEZED" \/ k.state = "CS_RESP_SEND"
  BY <1>1 DEF stream_read_start, Silent, Same
<1>2. CASE /\ ~(k.rx = "RXS_FREEZED" \/ k.state = "CS_RESP_SEND")
           /\ k.uv = "open"
  BY <1>2 DEF stream_read_start, Silent, Same, Conn, ClientState
<1>3. CASE /\ ~(k.rx = "RXS_FREEZED" \/ k.state = "CS_RESP_SEND")
           /\ k.uv # "open"
  <2>1. stream_read_start(k) = [k EXCEPT !.state = "CS_DESTROY"]
    BY <1>3 DEF stream_read_start, close_connection
  <2>2. stream_read_start(k).state = "CS_DESTROY"
    BY <2>1 DEF Conn
  <2>3. Silent(stream_read_start(k), k)
    BY <1>3, CloseSilent DEF stream_read_start
  <2> QED
    BY <1>3, <2>2, <2>3
<1> QED
  BY <1>1, <1>2, <1>3

(* reset_response_body touches the body of the response only. *)
LEMMA ResetSilent ==
  ASSUME NEW k \in Conn
  PROVE  /\ Silent(reset_response_body(k), k)
         /\ reset_response_body(k).state = k.state
         /\ reset_response_body(k).reading = k.reading
<1> DEFINE q == reset_response_body(k)
<1>1. q \in Conn
  BY ResetFollows DEF Follows
<1>2. /\ q.state = k.state /\ q.reading = k.reading /\ q.begun = k.begun
      /\ q.buf = k.buf /\ q.parsed = k.parsed /\ q.rx = k.rx
      /\ q.parser = k.parser /\ q.keep = k.keep
      /\ q.reqT = k.reqT /\ q.lastT = k.lastT
  BY DEF Conn, reset_response_body
<1>3. /\ q.recvd = k.recvd /\ q.ppos = k.ppos
      /\ q.asked = k.asked /\ q.calls = k.calls /\ q.done = k.done
      /\ q.uv = k.uv /\ q.shut = k.shut
  BY DEF Conn, reset_response_body
<1> QED
  BY <1>1, <1>2, <1>3 DEF Silent, Same

(* stream_write queues a response, or the connection is not live. *)
LEMMA WriteSilent ==
  ASSUME NEW k, Quiet(k)
  PROVE  /\ Silent(stream_write(k), k)
         /\ k.state # "CS_RESP_SEND" => Heard(stream_write(k))
<1> DEFINE q == stream_write(k)
<1>1. k \in Conn /\ q \in Conn
  BY WriteGood DEF Quiet, Good
<1>2. CASE Writable(k)
  <2>1. q = [k EXCEPT !.state = "CS_RESP_SEND", !.reading = FALSE,
                      !.wq = Append(k.wq, "resp")]
    BY <1>2 DEF stream_write, Writable
  <2>2. Silent(q, k) /\ q.wq = Append(k.wq, "resp")
    BY <1>1, <2>1 DEF Conn, Silent, Same
  <2>3. ~NoResponse(q)
    <3>1. k.wq \in Seq({"status", "resp"})
      BY <1>1 DEF Conn
    <3>2. /\ Len(q.wq) = Len(k.wq) + 1 /\ Len(k.wq) \in Nat
          /\ q.wq[Len(k.wq) + 1] = "resp"
      BY <2>2, <3>1
    <3> QED
      BY <3>2 DEF NoResponse
  <2> QED
    BY <2>2, <2>3 DEF Heard
<1>3. CASE ~Writable(k)
  <2>1. \/ q = [k EXCEPT !.state = "CS_DESTROY"]
        \/ q = [k EXCEPT !.state = "CS_DESTROY", !.reading = FALSE]
    BY <1>3 DEF stream_write
  <2>2. Silent(q, k)
    BY ZenonT(60), <1>1, <2>1 DEF Silent, Same, Conn, ClientState
  <2>3. k.state # "CS_RESP_SEND" => ~Alive(q)
    BY <1>3, <2>2 DEF Writable, NotConn, Alive, Silent, Same
  <2> QED
    BY <2>2, <2>3 DEF Heard
<1> QED
  BY <1>2, <1>3

(* A response head counts as begun when libuv takes it; the head of a      *)
(* stray 500 answers no message.                                           *)
LEMMA WriteHeadSpeaks ==
  ASSUME NEW k, NEW status \in Status, Quiet(k)
  PROVE  /\ Speaks(WriteHead(k, status), k)
         /\ status = "stray500" => Silent(WriteHead(k, status), k)
         /\ k.state # "CS_RESP_SEND" => Heard(WriteHead(k, status))
<1> DEFINE w == stream_write(k)
           n == IF status = "stray500" THEN w.begun ELSE w.begun + 1
           q == [w EXCEPT !.begun = n, !.status = status]
<1>1. /\ Silent(w, k) /\ w \in Conn
      /\ k.state # "CS_RESP_SEND" => Heard(w)
  BY WriteSilent DEF Silent, Same
<1>2. CASE Writable(k)
  <2>1. /\ n \in Nat /\ n \in {w.begun, w.begun + 1}
        /\ status = "stray500" => n = w.begun
    BY <1>1 DEF Conn
  <2>2. WriteHead(k, status) = q
    BY <1>2 DEF WriteHead
  <2> HIDE DEF n, w
  <2>3. /\ q \in Conn /\ q.begun = n /\ Same(q, w)
        /\ q.reading = w.reading /\ q.wq = w.wq
    BY <1>1, <2>1 DEF Conn, Same
  <2>4. Alive(k)
    BY <1>2 DEF Writable, NotConn, Alive
  <2> HIDE DEF q
  <2>5. Speaks(q, k)
    BY <1>1, <2>1, <2>3, <2>4 DEF Speaks, Silent, Same
  <2>6. Heard(w) => Heard(q)
    BY <1>1, <2>3 DEF Heard, NoResponse, Alive, Same
  <2>7. status = "stray500" => Silent(q, k)
    BY <1>1, <2>1, <2>3, <2>5 DEF Silent, Speaks
  <2> QED
    BY <1>1, <2>2, <2>5, <2>6, <2>7
<1>3. CASE ~Writable(k)
  BY <1>1, <1>3, SilentSpeaks DEF WriteHead
<1> QED
  BY <1>2, <1>3

(* send_error: the head of a response without a body. *)
LEMMA SendStatusSpeaks ==
  ASSUME NEW k, NEW status \in Status, Quiet(k)
  PROVE  /\ Speaks(SendStatus(k, status), k)
         /\ status = "stray500" => Silent(SendStatus(k, status), k)
         /\ k.state # "CS_RESP_SEND" => Heard(SendStatus(k, status))
<1> DEFINE b == BuildEmpty(k)
<1>1. k \in Conn /\ Silent(k, k)
  BY DEF Quiet, Silent, Same
<1>2. Quiet(b) /\ Silent(b, k) /\ b.state = k.state
  BY <1>1, ResetFollows, ResetSilent, FollowsQuiet DEF BuildEmpty
<1>3. /\ Speaks(WriteHead(b, status), b)
      /\ status = "stray500" => Silent(WriteHead(b, status), b)
      /\ b.state # "CS_RESP_SEND" => Heard(WriteHead(b, status))
  BY <1>2, WriteHeadSpeaks
<1> DEFINE w == WriteHead(b, status)
<1> HIDE DEF b, w
<1>4. Speaks(w, k)
  BY <1>2, <1>3, SilentThenSpeaks DEF w
<1>5. Speaks(k, k)
  BY <1>1, SilentSpeaks
<1>6. status = "stray500" => Silent(w, k)
  BY <1>2, <1>3, SilentTrans DEF w
<1> QED
  BY <1>1, <1>2, <1>3, <1>4, <1>5, <1>6 DEF SendStatus, b, w

(* A connection that is closed or shut down has nothing left to hear. *)
LEMMA TakeActionSilent ==
  ASSUME NEW k \in Conn, NEW act \in Action
  PROVE  /\ Silent(TakeAction(k, act), k)
         /\ act # "CA_OK" => ~Alive(TakeAction(k, act))
         /\ Heard(k) \/ act # "CA_OK" => Heard(TakeAction(k, act))
<1> DEFINE s == stream_read_stop(k)
           c == close_connection(s)
           d == shutdown_connection(s)
<1>1. Silent(s, k) /\ s \in Conn
  BY StopSilent DEF Silent, Same
<1>2. Silent(c, k) /\ Silent(d, k)
  BY <1>1, CloseSilent, ShutdownSilent, SilentTrans
<1>3. ~Alive(c) /\ ~Alive(d)
  BY <1>1, CloseFollows, ShutdownFollows
<1>4. Silent(k, k)
  BY DEF Silent, Same
<1> QED
  BY <1>2, <1>3, <1>4 DEF TakeAction, Action, Heard

(* `fin:` of read_cb answers an error at most once. *)
LEMMA ReadFinSpeaks ==
  ASSUME NEW k, NEW err \in Status, NEW act \in Action, NEW py \in BOOLEAN,
         k \in Conn,
         (Quiet(k) /\ k.state # "CS_RESP_SEND")
           \/ act # "CA_OK" \/ (err = "none" /\ ~py),
         Heard(k) \/ err # "none" \/ act # "CA_OK"
  PROVE  /\ Speaks(ReadFin(k, err, act, py), k)
         /\ Heard(ReadFin(k, err, act, py))
         /\ act # "CA_OK" \/ err = "none"
              => Silent(ReadFin(k, err, act, py), k)
         /\ act # "CA_OK" => ~Alive(ReadFin(k, err, act, py))
<1> DEFINE e == IF py /\ err = "none" THEN "stray500" ELSE err
<1>1. e \in Status
  BY DEF Status
<1>2. CASE act # "CA_OK"
  <2>1. ReadFin(k, err, act, py) = TakeAction(k, act)
    BY <1>2 DEF ReadFin
  <2> QED
    BY <1>2, <2>1, TakeActionSilent, SilentSpeaks
<1>3. CASE act = "CA_OK" /\ e = "none"
  <2>1. ReadFin(k, err, act, py) = TakeAction(k, act)
    BY <1>3 DEF ReadFin
  <2>2. err = "none"
    BY <1>3
  <2> QED
    BY <1>3, <2>1, <2>2, TakeActionSilent, SilentSpeaks
<1>4. CASE act = "CA_OK" /\ e # "none"
  <2>1. Quiet(k) /\ k.state # "CS_RESP_SEND" /\ ~(err = "none" /\ ~py)
    BY <1>4
  <2> DEFINE a == IF Persistent(k) THEN "CA_OK" ELSE "CA_SHUTDOWN"
             s == SendStatus(k, e)
  <2>2. a \in Action
    BY DEF Action
  <2>3. /\ Speaks(s, k) /\ Heard(s) /\ s \in Conn
        /\ err = "none" => Silent(s, k)
    BY <1>1, <2>1, SendStatusSpeaks DEF Speaks, Same
  <2>4. ReadFin(k, err, act, py) = TakeAction(s, a)
    BY <1>4 DEF ReadFin
  <2> HIDE DEF s, a
  <2>5. Silent(TakeAction(s, a), s) /\ Heard(TakeAction(s, a))
    BY <2>2, <2>3, TakeActionSilent
  <2>6. Speaks(TakeAction(s, a), k)
    BY <2>3, <2>5, SpeaksThenSilent
  <2>7. err = "none" => Silent(TakeAction(s, a), k)
    BY <2>3, <2>5, SilentTrans
  <2> QED
    BY <1>4, <2>4, <2>5, <2>6, <2>7
<1> QED
  BY <1>2, <1>3, <1>4

-----------------------------------------------------------------------------
(* Parsing. *)

(* The parser callbacks before the last one begin a message at most. *)
LEMMA FeedMoves ==
  ASSUME NEW k, NEW e, Quiet(k)
  PROVE  LET p == Feed(k, e)
         IN /\ p \in Conn
            /\ p.buf = k.buf /\ p.parsed = k.parsed /\ p.rx = k.rx
            /\ p.keep = k.keep /\ p.recvd = k.recvd /\ p.ppos = k.ppos
            /\ p.asked = k.asked /\ p.calls = k.calls /\ p.done = k.done
            /\ p.begun = k.begun /\ p.uv = k.uv /\ p.shut = k.shut
            /\ p.reading = k.reading /\ p.state # "CS_RESP_SEND"
            /\ p.parser = IF k.parser = "idle" THEN "mid" ELSE k.parser
            /\ p.lastT = IF k.parser = "idle" THEN FALSE ELSE k.lastT
<1> DEFINE p == [k EXCEPT !.state = "CS_REQ_PARSE"]
           z == reset_response_body(p)
           b == [z EXCEPT !.reqT = TRUE, !.lastT = FALSE, !.parser = "mid"]
           m == IF k.parser = "idle" THEN b ELSE p
<1> DEFINE Moved(q, prs, last) ==
             /\ q \in Conn
             /\ q.buf = k.buf /\ q.parsed = k.parsed /\ q.rx = k.rx
             /\ q.keep = k.keep /\ q.recvd = k.recvd /\ q.ppos = k.ppos
             /\ q.asked = k.asked /\ q.calls = k.calls /\ q.done = k.done
             /\ q.begun = k.begun /\ q.uv = k.uv /\ q.shut = k.shut
             /\ q.reading = k.reading /\ q.state # "CS_RESP_SEND"
             /\ q.parser = prs /\ q.lastT = last
<1>1. k \in Conn
  BY DEF Quiet
<1>2. Moved(p, k.parser, k.lastT)
  BY <1>1 DEF Conn, ClientState
<1>3. Moved(z, k.parser, k.lastT)
  <2>1. z \in Conn
    BY <1>2, ResetFollows DEF Follows
  <2>2. z.uv = p.uv /\ z.shut = p.shut
    BY <1>2 DEF reset_response_body, Conn
  <2> QED
    BY <1>2, <2>1, <2>2, ResetSilent DEF Silent, Same
<1> HIDE DEF z, p
<1>4. Moved(b, "mid", FALSE)
  BY <1>3 DEF Conn
<1> DEFINE prs == IF k.parser = "idle" THEN "mid" ELSE k.parser
           last == IF k.parser = "idle" THEN FALSE ELSE k.lastT
<1>5. Moved(m, prs, last)
  BY <1>2, <1>4
<1>6. Feed(k, e) = m \/ Feed(k, e) = x_send_status(m)
  BY DEF Feed, on_message_begin, z, p
<1> HIDE DEF m, b, prs, last
<1>7. Moved(x_send_status(m), prs, last)
  <2>1. CASE NotConn(m)
    BY <1>5, <2>1 DEF x_send_status, Conn, ClientState
  <2>2. CASE ~NotConn(m)
    <3>1. Append(m.wq, "status") \in Seq({"status", "resp"})
      BY <1>5 DEF Conn
    <3>2. x_send_status(m) = [m EXCEPT !.wq = Append(m.wq, "status")]
      BY <2>2 DEF x_send_status
    <3> QED
      BY ZenonT(60), <1>5, <3>1, <3>2 DEF Conn
  <2> QED
    BY <2>1, <2>2
<1> QED
  BY <1>5, <1>6, <1>7 DEF prs, last

(* What the parser has consumed, whatever becomes of the buffer. *)
Consumed(q, k, e) ==
  /\ q \in Conn
  /\ q.buf = k.buf /\ q.parsed = e /\ q.ppos = k.ppos + (e - k.parsed)
  /\ q.recvd = k.recvd /\ q.parser = k.parser /\ q.keep = k.keep
  /\ q.asked = k.asked /\ q.calls = k.calls /\ q.done = k.done
  /\ q.begun = k.begun /\ q.reqT = k.reqT /\ q.lastT = k.lastT
  /\ q.uv = k.uv \/ q.uv = "closing"
  /\ q.shut = k.shut \/ q.shut = TRUE

(* A message that goes on: the buffer is used up and the connection reads  *)
(* on.                                                                     *)
LEMMA IncompleteMoves ==
  ASSUME NEW k, NEW e, Quiet(k), Within(k, e), k.state # "CS_RESP_SEND",
         k.reading \/ k.rx = "RXS_FREEZED" \/ ~Alive(k)
  PROVE  /\ Consumed(Incomplete(k, e), k, e)
         /\ Incomplete(k, e).rx # "RXS_FREEZED"
         /\ Incomplete(k, e).state # "CS_RESP_SEND"
         /\ Heard(Incomplete(k, e))
         /\ Incomplete(k, e).wq = k.wq
         /\ k.uv = "open" => /\ Incomplete(k, e).uv = "open"
                             /\ Incomplete(k, e).shut = k.shut
<1> DEFINE p == [k EXCEPT !.parsed = e, !.ppos = k.ppos + (e - k.parsed)]
           q == [p EXCEPT !.rx = "RXS_READING"]
<1>1. k \in Conn /\ e \in Nat /\ k.ppos + (e - k.parsed) \in Nat
  BY WithinNat DEF Quiet
<1>2. /\ Consumed(p, k, e) /\ p.rx = k.rx /\ p.state = k.state
      /\ p.reading = k.reading /\ p.uv = k.uv /\ p.shut = k.shut
      /\ p.wq = k.wq
  BY <1>1 DEF Conn, Consumed
<1>3. Incomplete(k, e)
        = IF p.rx = "RXS_FREEZED" THEN stream_read_start(q) ELSE p
  BY DEF Incomplete
<1> HIDE DEF p
<1>4. /\ Consumed(q, k, e) /\ q.rx = "RXS_READING" /\ q.state = k.state
      /\ q.uv = k.uv /\ q.shut = k.shut /\ q \in Conn /\ q.wq = k.wq
  BY <1>1, <1>2 DEF Conn, RxStatus, Consumed
<1> HIDE DEF q
<1> DEFINE s == stream_read_start(q)
<1>5. /\ Silent(s, q) /\ s.state # "CS_RESP_SEND"
      /\ q.uv = "open" => s.reading /\ s.uv = "open" /\ s.shut = q.shut
      /\ s.wq = q.wq
  BY <1>4, StartSilent, StartFollows DEF Follows
<1> HIDE DEF s
<1>6. Consumed(s, k, e) /\ s.rx # "RXS_FREEZED"
  BY <1>4, <1>5 DEF Consumed, Silent, Same
<1>7. Heard(s)
  BY <1>4, <1>5 DEF Heard, Alive, Silent, Same
<1>8. p.rx # "RXS_FREEZED" => Heard(p)
  BY <1>2 DEF Heard, Alive
<1> QED
  BY <1>2, <1>3, <1>4, <1>5, <1>6, <1>7, <1>8 DEF s

(* A message that is complete: what is left in the buffer is frozen. *)
LEMMA PausedMoves ==
  ASSUME NEW k, NEW e, Quiet(k), Within(k, e), k.state # "CS_RESP_SEND"
  PROVE  /\ Consumed(Paused(k, e), k, e)
         /\ Paused(k, e).rx = "RXS_FREEZED" \/ e = Len(k.buf)
         /\ Paused(k, e).state # "CS_RESP_SEND"
         /\ Paused(k, e).wq = k.wq
         /\ k.uv = "open" => /\ Paused(k, e).uv = "open"
                             /\ Paused(k, e).shut = k.shut
<1> DEFINE p == [k EXCEPT !.parsed = e, !.ppos = k.ppos + (e - k.parsed)]
           r == [p EXCEPT !.rx = "RXS_READING"]
           f == [p EXCEPT !.rx = "RXS_FREEZED"]
<1>1. k \in Conn /\ e \in Nat /\ k.ppos + (e - k.parsed) \in Nat
  BY WithinNat DEF Quiet
<1>2. /\ Consumed(p, k, e) /\ p.state = k.state /\ p.wq = k.wq
      /\ p.uv = k.uv /\ p.shut = k.shut
  BY <1>1 DEF Conn, Consumed
<1>3. Paused(k, e) = IF e = Len(k.buf) THEN stream_read_start(r)
                                       ELSE stream_read_stop(f)
  BY DEF Paused
<1> HIDE DEF p
<1>4. /\ Consumed(r, k, e) /\ r.state = k.state /\ r \in Conn
      /\ Consumed(f, k, e) /\ f.state = k.state /\ f \in Conn
      /\ f.rx = "RXS_FREEZED"
      /\ r.wq = k.wq /\ r.uv = k.uv /\ r.shut = k.shut
      /\ f.wq = k.wq /\ f.uv = k.uv /\ f.shut = k.shut
  BY <1>2 DEF Conn, RxStatus, Consumed
<1> HIDE DEF r, f
<1>5. /\ Silent(stream_read_start(r), r)
      /\ stream_read_start(r).state # "CS_RESP_SEND"
      /\ Silent(stream_read_stop(f), f)
      /\ stream_read_stop(f).state # "CS_RESP_SEND"
      /\ r.uv = "open" => /\ stream_read_start(r).uv = "open"
                          /\ stream_read_start(r).shut = r.shut
  BY <1>4, StartSilent, StopSilent
<1>7. stream_read_start(r).wq = r.wq /\ stream_read_stop(f).wq = f.wq
  BY <1>4, StartFollows, StopFollows DEF Follows
<1>6. /\ Consumed(stream_read_start(r), k, e)
      /\ Consumed(stream_read_stop(f), k, e)
      /\ stream_read_stop(f).rx = "RXS_FREEZED"
      /\ stream_read_stop(f).uv = k.uv /\ stream_read_stop(f).shut = k.shut
  BY <1>4, <1>5 DEF Consumed, Silent, Same, stream_read_stop, Conn
<1> QED
  BY <1>3, <1>4, <1>5, <1>6, <1>7

(* The message that is complete is one more to answer. *)
LEMMA CompleteMoves ==
  ASSUME NEW k \in Conn, NEW e
  PROVE  LET m == on_message_complete(k, e)
         IN /\ m \in Conn
            /\ m.buf = k.buf /\ m.parsed = k.parsed /\ m.rx = k.rx
            /\ m.recvd = k.recvd /\ m.ppos = k.ppos
            /\ m.asked = k.asked + 1 /\ m.calls = k.calls /\ m.done = k.done
            /\ m.begun = k.begun /\ m.uv = k.uv /\ m.shut = k.shut
            /\ m.state = k.state /\ m.reading = k.reading
            /\ m.parser = "idle" /\ m.lastT = k.lastT /\ m.reqT = FALSE
<1>1. k.asked + 1 \in Nat /\ (k.buf[e] # "endClose") \in BOOLEAN
  BY DEF Conn
<1> QED
  BY <1>1 DEF Conn, on_message_complete

(* call_wsgi_app: one call, one answer or an end. *)
Called(q, k) ==
  /\ q \in Conn
  /\ q.buf = k.buf /\ q.parsed = k.parsed /\ q.rx = k.rx
  /\ q.parser = k.parser /\ q.keep = k.keep
  /\ q.reqT = k.reqT /\ q.lastT = k.lastT
  /\ q.recvd = k.recvd /\ q.ppos = k.ppos
  /\ q.asked = k.asked /\ q.calls = k.calls + 1 /\ q.done = k.done
  /\ q.uv = k.uv \/ q.uv = "closing"
  /\ q.shut = k.shut \/ q.shut = TRUE

(* call_wsgi_app answers the message at most once, and a live connection   *)
(* that cannot write is ended.                                             *)
LEMMA RunApplicationSpeaks ==
  ASSUME NEW k, NEW r \in Reply, NEW py \in BOOLEAN, Quiet(k)
  PROVE  LET q == RunApplication(k, r, py)
         IN /\ Called(q, k) /\ Heard(q)
            /\ q.begun = k.begun \/ (q.begun = k.begun + 1 /\ Alive(k))
<1> DEFINE a == [k EXCEPT !.state = "CS_RESP_BILD", !.calls = k.calls + 1]
           ch == IF r.kind = "chunked" THEN 1 ELSE 0
           b == [a EXCEPT !.pre = r.pre, !.total = r.total, !.chunked = ch,
                          !.iter = TRUE]
           err == IF r.kind = "fail" THEN "500" ELSE "stray500"
           act == IF Writable(b) THEN "CA_OK" ELSE "CA_SHUTDOWN"
           f == ReadFin(a, err, "CA_OK", py)
           h == WriteHead(b, "200")
           g == ReadFin(h, "none", act, FALSE)
<1>1. k \in Conn /\ k.calls + 1 \in Nat
  BY DEF Quiet, Conn
<1>2. /\ Called(a, k) /\ a.wq = k.wq /\ a.uv = k.uv /\ a.shut = k.shut
      /\ a.begun = k.begun /\ a.state = "CS_RESP_BILD"
  BY <1>1 DEF Conn, ClientState, Called
<1>3. r.pre \in Nat /\ r.total \in Nat
  BY BoundsAssumption DEF Reply
<1>4. ch \in 0 .. 2
  OBVIOUS
<1>5. RunApplication(k, r, py) = IF py \/ r.kind = "fail" THEN f ELSE g
  BY DEF RunApplication
<1> HIDE DEF a, ch
<1>6. /\ b \in Conn /\ b.wq = a.wq /\ b.uv = a.uv /\ b.shut = a.shut
      /\ b.begun = a.begun /\ b.state = a.state
  BY <1>2, <1>3, <1>4 DEF Conn, Called
<1>7. Called(b, k)
  BY <1>2, <1>6 DEF Conn, Called
<1> HIDE DEF b
<1>8. Quiet(a) /\ Quiet(b)
  BY <1>2, <1>6, FollowsQuiet DEF Follows, Called
<1>9. err \in Status \ {"none"} /\ act \in Action
  BY DEF Status, Action
<1>10. Speaks(f, a) /\ Heard(f)
  BY <1>2, <1>8, <1>9, ReadFinSpeaks DEF Called, Action
<1>11. Speaks(h, b) /\ Heard(h) /\ h \in Conn
  BY <1>2, <1>6, <1>8, WriteHeadSpeaks DEF Status, Speaks, Same
<1> HIDE DEF f, h, act
<1>12. Silent(g, h) /\ Heard(g)
  BY <1>9, <1>11, ReadFinSpeaks DEF Status
<1> HIDE DEF g
<1>13. Speaks(g, b)
  BY <1>11, <1>12, SpeaksThenSilent
<1>14. /\ Called(f, k) /\ Called(g, k)
       /\ f.begun = k.begun \/ (f.begun = k.begun + 1 /\ Alive(k))
       /\ g.begun = k.begun \/ (g.begun = k.begun + 1 /\ Alive(k))
  BY <1>2, <1>6, <1>7, <1>10, <1>13 DEF Called, Speaks, Same, Alive
<1> QED
  BY <1>5, <1>10, <1>12, <1>14

(* What a connection must be for its buffer to be parsed. *)
Parsable(k) ==
  /\ Quiet(k) /\ Counted(k) /\ Answered(k)
  /\ k.reading \/ k.rx = "RXS_FREEZED" \/ ~Alive(k)

(* Consuming up to e moves both ends of the count. *)
LEMMA Advance ==
  ASSUME NEW recvd \in Int, NEW ppos \in Int, NEW len \in Int,
         NEW parsed \in Int, NEW e \in Int, recvd - ppos = len - parsed
  PROVE  recvd - (ppos + (e - parsed)) = len - e
  OBVIOUS

(* read_cb from `parsing:` on keeps the books. *)
LEMMA ParseTracked ==
  ASSUME NEW k, NEW e, NEW r \in Reply, NEW py \in BOOLEAN,
         Parsable(k), EndsAt(k, e)
  PROVE  LET q == Parse(k, e, r, py)
         IN Tracked(q) /\ (q.uv = k.uv \/ q.uv = "closing")
<1> DEFINE p == Feed(k, e)
           x == [p EXCEPT !.parser = "error"]
           i == Incomplete(p, e)
           m == on_message_complete(p, e)
           z == Paused(m, e)
<1>1. k \in Conn /\ Quiet(k) /\ Counted(k) /\ Answered(k)
  BY DEF Parsable, Quiet
<1>2. /\ k.parsed \in Nat /\ k.ppos \in Nat /\ k.recvd \in Nat
      /\ Len(k.buf) \in Nat /\ k.asked \in Nat /\ k.begun \in Nat
      /\ e \in k.parsed + 1 .. Len(k.buf) /\ k.buf[e] \in Token
      /\ e = Len(k.buf) \/ k.buf[e] \in Stops
  BY <1>1 DEF Conn, EndsAt, Unparsed
<1>3. Quiet(p) /\ Within(p, e)
  BY <1>1, FeedQuiet DEF EndsAt, Within, Unparsed
<1>4. /\ p \in Conn
      /\ p.buf = k.buf /\ p.parsed = k.parsed /\ p.rx = k.rx
      /\ p.recvd = k.recvd /\ p.ppos = k.ppos
      /\ p.asked = k.asked /\ p.begun = k.begun /\ p.uv = k.uv
      /\ p.shut = k.shut /\ p.reading = k.reading
      /\ p.state # "CS_RESP_SEND"
      /\ p.parser = IF k.parser = "idle" THEN "mid" ELSE k.parser
  BY ZenonT(60), <1>1, FeedMoves
<1> HIDE DEF p
<1>5. CASE ParseFails(k, e)
  <2> DEFINE s == SendStatus(x, "400")
             f == ReadFin(s, "none", "CA_SHUTDOWN", py)
  <2>1. /\ x \in Conn /\ x.wq = p.wq /\ x.uv = p.uv /\ x.shut = p.shut
        /\ x.parser = "error" /\ x.begun = p.begun /\ x.asked = p.asked
    BY <1>4 DEF Conn
  <2>2. Parse(k, e, r, py) = f
    BY <1>5 DEF Parse, p
  <2> HIDE DEF x
  <2>3. Quiet(x)
    BY <1>3, <2>1, FollowsQuiet DEF Follows
  <2>4. Speaks(s, x) /\ s \in Conn
    BY <2>3, SendStatusSpeaks DEF Status, Speaks, Same
  <2> HIDE DEF s
  <2>5. Silent(f, s) /\ Heard(f) /\ ~Alive(f)
    BY <2>4, ReadFinSpeaks DEF Status, Action
  <2> HIDE DEF f
  <2>6. Speaks(f, x)
    BY <2>4, <2>5, SpeaksThenSilent
  <2>7. f.parser = "error" /\ f.asked = k.asked
        /\ (f.uv = k.uv \/ f.uv = "closing")
    BY <1>4, <2>1, <2>6 DEF Speaks, Same
  <2>8. f.begun <= f.asked + 1
    <3>1. Alive(x) => k.parser # "error"
      BY <1>1, <1>4, <2>1 DEF Answered, Alive
    <3> QED
      BY <1>1, <1>2, <1>4, <2>1, <2>6, <2>7, <3>1 DEF Answered, Speaks
  <2> QED
    BY <2>2, <2>5, <2>7, <2>8 DEF Tracked, Counted, Drained, Answered
<1>6. CASE ~ParseFails(k, e) /\ k.buf[e] \notin Stops
  <2> DEFINE f == ReadFin(i, "none", "CA_OK", py)
  <2>1. Parse(k, e, r, py) = f
    BY <1>6 DEF Parse, Stops, p
  <2>2. /\ Consumed(i, p, e) /\ i.rx # "RXS_FREEZED"
        /\ i.state # "CS_RESP_SEND" /\ Heard(i)
    BY <1>3, <1>4, IncompleteMoves DEF Parsable, Alive
  <2>3. Quiet(i) /\ i \in Conn
    BY <1>3, IncompleteQuiet DEF Quiet
  <2> HIDE DEF i
  <2>4. Silent(f, i) /\ Heard(f)
    BY <2>2, <2>3, ReadFinSpeaks DEF Status, Action
  <2> HIDE DEF f
  <2>5. e = Len(k.buf) /\ k.parser # "error"
    BY <1>2, <1>6 DEF ParseFails
  <2>6. /\ f.buf = k.buf /\ f.parsed = e /\ f.ppos = k.ppos + (e - k.parsed)
        /\ f.recvd = k.recvd /\ f.begun = k.begun /\ f.asked = k.asked
        /\ f.parser # "error" /\ f.rx # "RXS_FREEZED"
        /\ f.uv = k.uv \/ f.uv = "closing"
    BY <1>4, <2>2, <2>4, <2>5 DEF Consumed, Silent, Same
  <2> QED
    BY <1>1, <1>2, <2>1, <2>4, <2>5, <2>6
    DEF Tracked, Counted, Drained, Answered
<1>7. CASE ~ParseFails(k, e) /\ k.buf[e] \in Stops \ {"bad"}
  <2> DEFINE g == ReadFin(z, "417", "CA_OK", py)
             h == RunApplication(z, r, py)
             f == Parse(k, e, r, py)
  <2>1. Quiet(m) /\ Within(m, e) /\ m.state # "CS_RESP_SEND"
    BY <1>3, <1>4, CompleteQuiet, CompleteMoves
  <2>2. /\ m.buf = k.buf /\ m.parsed = k.parsed
        /\ m.recvd = k.recvd /\ m.ppos = k.ppos
        /\ m.asked = k.asked + 1 /\ m.begun = k.begun /\ m.uv = k.uv
        /\ m.parser = "idle"
    BY ZenonT(60), <1>4, CompleteMoves
  <2> HIDE DEF m
  <2>3. /\ Consumed(z, m, e) /\ z.state # "CS_RESP_SEND"
        /\ z.rx = "RXS_FREEZED" \/ e = Len(m.buf)
    BY <2>1, PausedMoves DEF Quiet
  <2>0. Quiet(z) /\ z \in Conn
    BY <2>1, PausedQuiet DEF Quiet
  <2> HIDE DEF z
  <2>4. Speaks(g, z) /\ Heard(g)
    BY <2>0, <2>3, ReadFinSpeaks DEF Status, Action
  <2>5. /\ Called(h, z) /\ Heard(h)
        /\ h.begun = z.begun \/ (h.begun = z.begun + 1 /\ Alive(z))
    BY <2>0, RunApplicationSpeaks
  <2>6. f = g \/ f = h
    BY <1>2, <1>7 DEF Parse, Stops, z, m, p
  <2> HIDE DEF f, g, h
  <2>7. /\ f.buf = k.buf /\ f.parsed = e /\ f.ppos = k.ppos + (e - k.parsed)
        /\ f.recvd = k.recvd /\ f.asked = k.asked + 1
        /\ f.begun \in {k.begun, k.begun + 1}
        /\ f.parser # "error"
        /\ f.rx = "RXS_FREEZED" \/ e = Len(k.buf)
        /\ f.uv = k.uv \/ f.uv = "closing"
        /\ Heard(f)
    <3>1. CASE f = g
      BY <2>2, <2>3, <2>4, <3>1 DEF Consumed, Speaks, Same
    <3>2. CASE f = h
      BY <2>2, <2>3, <2>5, <3>2 DEF Consumed, Called
    <3> QED
      BY <2>6, <3>1, <3>2
  <2>8. k.parser # "error"
    BY <1>7 DEF ParseFails
  <2>9. Counted(f) /\ Drained(f)
    <3>1. k.recvd - k.ppos = Len(k.buf) - k.parsed
      BY <1>1, <2>8 DEF Counted
    <3>2. /\ k.recvd \in Int /\ k.ppos \in Int /\ Len(k.buf) \in Int
          /\ k.parsed \in Int /\ e \in Int
      BY <1>2
    <3>3. k.recvd - (k.ppos + (e - k.parsed)) = Len(k.buf) - e
      BY <3>1, <3>2, Advance
    <3> QED
      BY <2>7, <3>3 DEF Counted, Drained
  <2>10. Answered(f)
    BY <1>1, <1>2, <2>7, <2>8 DEF Answered
  <2> QED
    BY <2>7, <2>9, <2>10 DEF f, Tracked
<1> QED
  BY <1>2, <1>5, <1>6, <1>7 DEF ParseFails

-----------------------------------------------------------------------------
(* Completion of a response write. *)

(* A connection that has ended has nothing to hear, and keeps its books. *)
LEMMA SilentTracked ==
  ASSUME NEW k, NEW q, Silent(q, k), Tracked(k), Heard(k) => Heard(q)
  PROVE  Tracked(q)
<1>1. Counted(q) /\ Drained(q)
  BY DEF Tracked, Counted, Drained, Silent, Same
<1>2. Answered(q)
  BY DEF Tracked, Answered, Silent, Same, Alive
<1> QED
  BY <1>1, <1>2 DEF Tracked

(* The same but for the ears. *)
Books(k) == Counted(k) /\ Drained(k) /\ Answered(k)

LEMMA SilentBooks ==
  ASSUME NEW k, NEW q, Silent(q, k), Books(k)
  PROVE  Books(q)
<1>1. Counted(q) /\ Drained(q)
  BY DEF Books, Counted, Drained, Silent, Same
<1>2. Answered(q)
  BY DEF Books, Answered, Silent, Same, Alive
<1> QED
  BY <1>1, <1>2 DEF Books

(* close_connection leaves nothing to listen to. *)
LEMMA CloseTracked ==
  ASSUME NEW k \in Conn, Books(k)
  PROVE  /\ Tracked(close_connection(k))
         /\ close_connection(k).uv = k.uv \/ close_connection(k).uv = "closing"
<1>1. Silent(close_connection(k), k) /\ ~Alive(close_connection(k))
  BY CloseSilent, CloseFollows
<1> QED
  BY <1>1, SilentBooks DEF Books, Tracked, Heard, Silent, Same

(* The next chunk of a response: it is written, or the connection closes. *)
LEMMA WriteMoreTracked ==
  ASSUME NEW k, Quiet(k), Books(k), k.state # "CS_RESP_SEND"
  PROVE  /\ Tracked(WriteMore(k))
         /\ WriteMore(k).uv = k.uv \/ WriteMore(k).uv = "closing"
<1> DEFINE w == stream_write(k)
<1>1. Silent(w, k) /\ Heard(w) /\ w \in Conn
  BY WriteSilent DEF Silent, Same
<1> HIDE DEF w
<1>2. Books(w)
  BY <1>1, SilentBooks
<1>3. Tracked(w) /\ Tracked(close_connection(w))
  BY <1>1, <1>2, CloseTracked DEF Books, Tracked
<1>4. /\ w.uv = k.uv \/ w.uv = "closing"
      /\ close_connection(w).uv = w.uv \/ close_connection(w).uv = "closing"
  BY <1>1, <1>2, CloseTracked DEF Silent, Same
<1> QED
  BY <1>3, <1>4 DEF WriteMore, w

(* The end of a response: the frozen buffer is parsed on, or reading       *)
(* starts again, or the connection ends (write_cb from `fin:` on).         *)
LEMMA FinishTracked ==
  ASSUME NEW k, NEW e, NEW r \in Reply, NEW py \in BOOLEAN, Quiet(k), Books(k),
         Resumes(k) => EndsAt(k, e)
  PROVE  LET q == FinishResponse(k, e, r, py)
         IN Tracked(q) /\ (q.uv = k.uv \/ q.uv = "closing")
<1> DEFINE d == [k EXCEPT !.done = k.done + 1]
           z == reset_response_body(d)
           q == [z EXCEPT !.state = "CS_RESP_END"]
           f == FinishResponse(k, e, r, py)
<1>1. k \in Conn /\ k.done + 1 \in Nat
  BY DEF Quiet, Conn
<1>2. /\ d \in Conn /\ d.wq = k.wq /\ d.uv = k.uv /\ d.shut = k.shut
      /\ d.buf = k.buf /\ d.parsed = k.parsed /\ d.rx = k.rx
      /\ d.parser = k.parser /\ d.recvd = k.recvd /\ d.ppos = k.ppos
      /\ d.asked = k.asked /\ d.begun = k.begun
  BY <1>1 DEF Conn
<1>3. f = CASE ~Persistent(k) -> close_connection(d)
            [] Resumes(k)     -> Parse(q, e, r, py)
            [] OTHER          -> stream_read_start(q)
  BY DEF FinishResponse
<1> HIDE DEF d
<1>4. Books(d) /\ Quiet(d)
  BY <1>2, FollowsQuiet
  DEF Books, Counted, Drained, Answered, Alive, Follows
<1>5. Silent(z, d) /\ Quiet(z) /\ z \in Conn /\ z.uv = d.uv
  <2>1. z.uv = d.uv
    BY <1>2 DEF reset_response_body, Conn
  <2> QED
    BY <1>2, <1>4, <2>1, ResetSilent, ResetFollows, FollowsQuiet DEF Follows
<1> HIDE DEF z
<1>6. /\ q \in Conn /\ q.wq = z.wq /\ q.uv = z.uv /\ q.shut = z.shut
      /\ q.state = "CS_RESP_END" /\ Silent(q, z)
  BY <1>5 DEF Conn, ClientState, Silent, Same
<1> HIDE DEF q
<1>7. Quiet(q) /\ Books(q) /\ q.uv = k.uv
  BY <1>2, <1>4, <1>5, <1>6, SilentBooks, FollowsQuiet DEF Follows
<1>8. /\ Tracked(close_connection(d))
      /\ close_connection(d).uv = k.uv \/ close_connection(d).uv = "closing"
  BY <1>2, <1>4, CloseTracked
<1>9. q.buf = k.buf /\ q.parsed = k.parsed /\ q.rx = k.rx
  BY <1>2, <1>5, <1>6 DEF Silent, Same
<1>10. Resumes(k) => /\ Tracked(Parse(q, e, r, py))
                     /\ \/ Parse(q, e, r, py).uv = k.uv
                        \/ Parse(q, e, r, py).uv = "closing"
  <2>1. Resumes(k) => EndsAt(q, e)
    BY <1>9, EndsAtSame
  <2>2. Resumes(k) => Parsable(q)
    BY <1>7, <1>9 DEF Parsable, Books, Resumes
  <2> QED
    BY <1>7, <2>1, <2>2, ParseTracked
<1>11. k.rx # "RXS_FREEZED" => /\ Tracked(stream_read_start(q))
                               /\ \/ stream_read_start(q).uv = k.uv
                                  \/ stream_read_start(q).uv = "closing"
  <2> DEFINE s == stream_read_start(q)
  <2>1. Silent(s, q) /\ (k.rx # "RXS_FREEZED" /\ q.uv = "open" => s.reading)
    BY <1>6, <1>9, StartSilent
  <2> HIDE DEF s
  <2>2. Books(s) /\ (k.rx # "RXS_FREEZED" => Heard(s))
    BY <1>7, <2>1, SilentBooks DEF Heard, Alive, Silent, Same
  <2>3. s.uv = k.uv \/ s.uv = "closing"
    BY <1>7, <2>1 DEF Silent, Same
  <2> QED
    BY <2>2, <2>3 DEF Tracked, Books, s
<1> HIDE DEF f
<1> QED
  BY <1>3, <1>8, <1>10, <1>11 DEF Resumes, f

(* write_cb with status 0, whatever the iterator gives. *)
LEMMA WriteCbTracked ==
  ASSUME NEW k, NEW n \in Pull, NEW e, NEW r \in Reply, NEW py \in BOOLEAN,
         Quiet(k), Books(k), Resumes(k) /\ Exhausted(k, n) => EndsAt(k, e)
  PROVE  LET q == write_cb(k, n, e, r, py)
         IN Tracked(q) /\ (q.uv = k.uv \/ q.uv = "closing")
<1> DEFINE s == Sent(k)
           b == [s EXCEPT !.state = "CS_RESP_BILD"]
           l == [s EXCEPT !.lastT = TRUE]
           m == [b EXCEPT !.pre = n.size]
           o == [b EXCEPT !.chunked = 2]
           w == write_cb(k, n, e, r, py)
           Kept(q) == /\ q \in Conn /\ q.wq = k.wq /\ q.uv = k.uv
                      /\ q.shut = k.shut /\ q.buf = k.buf
                      /\ q.parsed = k.parsed /\ q.rx = k.rx
                      /\ q.parser = k.parser /\ q.recvd = k.recvd
                      /\ q.ppos = k.ppos /\ q.asked = k.asked
                      /\ q.begun = k.begun /\ q.keep = k.keep
                      /\ q.state # "CS_RESP_SEND"
<1>1. k \in Conn /\ k.written + k.pre \in Nat /\ 0 \in Nat
  BY DEF Quiet, Conn
<1>2. Kept(s) /\ s.chunked = k.chunked
  BY <1>1 DEF Sent, Conn, ClientState
<1>3. n.size \in Nat
  BY BoundsAssumption DEF Pull
<1>4. \/ w = close_connection(s)
      \/ LastWritten(s) /\ w = FinishResponse(l, e, r, py)
      \/ w = close_connection(b)
      \/ w = WriteMore(m)
      \/ w = WriteMore(o)
      \/ /\ Pulls(k) /\ n.kind = "end" /\ k.chunked = 0
         /\ w = FinishResponse(b, e, r, py)
  <2>1. n.kind \in {"chunk", "end", "raise", "notBytes"}
    BY DEF Pull
  <2>2. k.chunked \in {0, 1, 2}
    BY <1>1 DEF Conn
  <2>3. k.chunked = 2 => LastWritten(s)
    BY <1>2 DEF LastWritten
  <2>4. ~OverLength(s) /\ ~LastWritten(s) <=> Pulls(k)
    BY DEF Pulls
  <2> HIDE DEF s, b, l, m, o
  <2>5. CASE Pulls(k)
    BY <2>1, <2>2, <2>3, <2>4, <2>5 DEF write_cb, s, b, l, m, o
  <2>6. CASE ~Pulls(k)
    BY <2>4, <2>6 DEF write_cb, s, b, l, m, o
  <2> QED
    BY <2>5, <2>6
<1>5. LastWritten(s) => Exhausted(k, n)
  BY DEF Exhausted
<1>6. Pulls(k) /\ n.kind = "end" /\ k.chunked = 0 => Exhausted(k, n)
  BY DEF Exhausted, Pulls
<1> HIDE DEF s
<1>7. Kept(b) /\ Kept(l)
  BY ZenonT(60), <1>2 DEF Conn, ClientState
<1> HIDE DEF b, l
<1>8. Kept(m)
  BY <1>3, <1>7 DEF Conn
<1>9. Kept(o)
  <2>1. 2 \in 0 .. 2
    OBVIOUS
  <2> QED
    BY <1>7, <2>1 DEF Conn
<1> HIDE DEF m, o
<1>10. ASSUME NEW q, Kept(q)
       PROVE  Quiet(q) /\ Books(q) /\ q.uv = k.uv /\ q.state # "CS_RESP_SEND"
              /\ q \in Conn
  <2>1. Quiet(q)
    BY <1>10, FollowsQuiet DEF Follows
  <2>2. Books(q)
    BY <1>10 DEF Books, Counted, Drained, Answered, Alive
  <2> QED
    BY <1>10, <2>1, <2>2
<1>11. ASSUME NEW q, Kept(q), Exhausted(k, n)
       PROVE  Resumes(q) => EndsAt(q, e)
  BY <1>11, EndsAtSame DEF Resumes, Persistent
<1> HIDE DEF Kept
<1> DEFINE Fine(x) == Tracked(x) /\ (x.uv = k.uv \/ x.uv = "closing")
<1>12. /\ Fine(close_connection(s)) /\ Fine(close_connection(b))
       /\ Fine(WriteMore(m)) /\ Fine(WriteMore(o))
  BY <1>2, <1>7, <1>8, <1>9, <1>10, CloseTracked, WriteMoreTracked
<1>13. LastWritten(s) => Fine(FinishResponse(l, e, r, py))
  <2>1. Quiet(l) /\ Books(l) /\ l.uv = k.uv
    BY <1>7, <1>10
  <2>2. LastWritten(s) /\ Resumes(l) => EndsAt(l, e)
    BY <1>5, <1>7, <1>11
  <2> QED
    BY <2>1, <2>2, FinishTracked
<1>14. Pulls(k) /\ n.kind = "end" /\ k.chunked = 0
         => Fine(FinishResponse(b, e, r, py))
  <2>1. Quiet(b) /\ Books(b) /\ b.uv = k.uv
    BY <1>7, <1>10
  <2>2. Exhausted(k, n) /\ Resumes(b) => EndsAt(b, e)
    BY <1>7, <1>11
  <2> QED
    BY <1>6, <2>1, <2>2, FinishTracked
<1> HIDE DEF w, Fine
<1>15. Fine(w)
  BY <1>4, <1>12, <1>13, <1>14
<1> QED
  BY <1>15 DEF Fine, w

-----------------------------------------------------------------------------
(* The callbacks. *)

(* A connection that is not closed is settled when it is tracked. *)
LEMMA SettledTracked ==
  ASSUME NEW k, Settled(k), k.uv # "closed"
  PROVE  Tracked(k) /\ Books(k)
  BY DEF Settled, Tracked, Books

(* What a handler leaves of a slot that was not closed. *)
LEMMA TrackedSettled ==
  ASSUME NEW q, NEW k, Tracked(q), k.uv # "closed",
         q.uv = k.uv \/ q.uv = "closing"
  PROVE  Settled(q)
  BY DEF Settled, Tracked

(* A dying connection without writes. *)
LEMMA DrainTracked ==
  ASSUME NEW k \in Conn, Tracked(k)
  PROVE  /\ Tracked(Drain(k))
         /\ Drain(k).uv = k.uv \/ Drain(k).uv = "closing"
<1>1. Books(k)
  BY DEF Tracked, Books
<1> QED
  BY <1>1, CloseTracked DEF Drain

(* A written status or response is off the queue, the rest is as it was. *)
LEMMA PopBooks ==
  ASSUME NEW k \in Conn, Books(k), k.wq # <<>>
  PROVE  LET q == [k EXCEPT !.wq = Tail(k.wq)]
         IN /\ Books(q) /\ q \in Conn /\ q.uv = k.uv /\ q.shut = k.shut
            /\ q.wq = Tail(k.wq)
            /\ q.buf = k.buf /\ q.parsed = k.parsed /\ q.reading = k.reading
<1> DEFINE q == [k EXCEPT !.wq = Tail(k.wq)]
<1>1. k.wq \in Seq({"status", "resp"})
  BY DEF Conn
<1>2. Tail(k.wq) \in Seq({"status", "resp"})
  BY <1>1
<1>3. Silent(q, k) /\ q \in Conn /\ q.uv = k.uv /\ q.shut = k.shut
      /\ q.wq = Tail(k.wq) /\ q.reading = k.reading
  BY <1>2 DEF Conn, Silent, Same
<1> HIDE DEF q
<1>4. Books(q) /\ q.buf = k.buf /\ q.parsed = k.parsed
  BY <1>3, SilentBooks DEF Silent, Same
<1> QED
  BY <1>3, <1>4 DEF q

(* One slot changes, the others stay. *)
LEMMA SetSettled ==
  ASSUME conn \in [Clients -> Conn], \A d \in Clients : Settled(conn[d]),
         NEW c \in Clients, NEW k, Settled(k), Set(c, k)
  PROVE  \A d \in Clients : Settled(conn'[d])
  BY DEF Set

(* A buffer that has been read to its end may be filled again. *)
LEMMA AllocParsable ==
  ASSUME NEW k, NEW toks \in Seq(Token), Good(k), Settled(k), k.reading,
         k.uv # "closed", k.rx # "RXS_FREEZED"
  PROVE  /\ Parsable(alloc_cb(k, toks))
         /\ alloc_cb(k, toks).uv = k.uv
         /\ toks = <<>> => Tracked(alloc_cb(k, toks))
<1> DEFINE q == alloc_cb(k, toks)
<1>1. k \in Conn /\ Quiet(q)
  BY AllocQuiet DEF Good
<1>2. k.recvd + Len(toks) \in Nat /\ Len(toks) \in Nat
  BY <1>1 DEF Conn
<1>3. /\ q.buf = toks /\ q.parsed = 0 /\ q.recvd = k.recvd + Len(toks)
      /\ q.ppos = k.ppos /\ q.parser = k.parser /\ q.reading = k.reading
      /\ q.asked = k.asked /\ q.begun = k.begun /\ q.uv = k.uv
      /\ q.shut = k.shut
  BY <1>1 DEF Conn, alloc_cb
<1> HIDE DEF q
<1>4. Counted(q)
  <2> SUFFICES ASSUME k.parser # "error"
               PROVE  q.recvd - q.ppos = Len(q.buf) - q.parsed
    BY <1>3 DEF Counted
  <2>1. k.recvd - k.ppos = Len(k.buf) - k.parsed /\ k.parsed = Len(k.buf)
    BY DEF Settled, Counted, Drained
  <2>2. k.recvd \in Nat /\ k.ppos \in Nat /\ Len(k.buf) \in Nat
    BY <1>1 DEF Conn
  <2>3. k.recvd = k.ppos
    BY <2>1, <2>2
  <2> QED
    BY <1>2, <1>3, <2>2, <2>3
<1>5. Answered(q) /\ Heard(q)
  BY <1>3 DEF Settled, Answered, Heard, Alive
<1>6. toks = <<>> => Drained(q)
  BY <1>3 DEF Drained
<1> QED
  BY <1>1, <1>3, <1>4, <1>5, <1>6 DEF Parsable, Tracked, q

(* A slot before and after connection_cb. *)
LEMMA FreshSettled ==
  /\ Settled([Fresh EXCEPT !.uv = "open", !.state = "CS_REQ_READ",
                           !.reading = TRUE, !.reqT = TRUE])
  /\ Settled([Fresh EXCEPT !.uv = "closing", !.state = "CS_DESTROY"])
  /\ Settled(Fresh)
<1>1. Len(<<>>) = 0 /\ 0 <= 0 + 0 /\ 0 - 0 = 0 - 0
  OBVIOUS
<1> QED
  BY <1>1 DEF Fresh, Settled, Counted, Drained, Answered, Heard, Alive

(* Every callback on every connection keeps the invariant: it accounts     *)
(* for each piece of request data, answers each message at most once and   *)
(* leaves a live connection listening.                                     *)
THEOREM Settles == TInv /\ [Next]_vars => TInv'
<1> SUFFICES ASSUME TInv, [Next]_vars PROVE \A c \in Clients : Settled(conn'[c])
  BY Inductive DEF TInv
<1> USE DEF TInv
<1>0. /\ IInv /\ conn \in [Clients -> Conn] /\ pyerr \in Clients \cup {NoClient}
      /\ \A c \in Clients : Good(conn[c]) /\ Settled(conn[c])
  BY DEF IInv
<1> DEFINE Done == \A c \in Clients : Settled(conn'[c])
<1>1. ASSUME NEW c \in Clients, connection_cb(c) PROVE Done
  BY <1>0, <1>1, FreshSettled, SetSettled DEF connection_cb
<1>2. ASSUME NEW c \in Clients, read_cb(c) PROVE Done
  <2>1. PICK toks \in PeerData(conn[c]) :
          LET k == alloc_cb(conn[c], toks)
          IN IF conn[c].rx = "RXS_FREEZED"
             THEN Set(c, ReadFin(conn[c], "none", "CA_SHUTDOWN", pyerr # NoClient))
             ELSE \E e \in 1 .. Len(toks), r \in Reply :
                    /\ EndsAt(k, e)
                    /\ Set(c, Parse(k, e, r, pyerr # NoClient))
    BY <1>2 DEF read_cb
  <2>2. toks \in Seq(Token)
    BY PeersAssumption, BoundsAssumption DEF PeerData
  <2>3. conn[c].uv = "open" /\ conn[c].reading /\ conn[c] \in Conn
    BY <1>0, <1>2 DEF read_cb
  <2>4. CASE conn[c].rx = "RXS_FREEZED"
    <3> DEFINE f == ReadFin(conn[c], "none", "CA_SHUTDOWN", pyerr # NoClient)
    <3>1. Silent(f, conn[c]) /\ Heard(f)
      BY <2>3, ReadFinSpeaks DEF Status, Action
    <3> HIDE DEF f
    <3>2. Settled(f)
      BY <1>0, <2>3, <3>1, SettledTracked, SilentTracked, TrackedSettled
      DEF Silent, Same
    <3> QED
      BY <1>0, <2>1, <2>4, <3>2, SetSettled DEF f
  <2>5. CASE conn[c].rx # "RXS_FREEZED"
    <3> DEFINE k == alloc_cb(conn[c], toks)
    <3>1. PICK e \in 1 .. Len(toks), r \in Reply :
            EndsAt(k, e) /\ Set(c, Parse(k, e, r, pyerr # NoClient))
      BY <2>1, <2>5
    <3>2. Parsable(k) /\ k.uv = "open"
      BY <1>0, <2>2, <2>3, <2>5, AllocParsable
    <3> HIDE DEF k
    <3> DEFINE f == Parse(k, e, r, pyerr # NoClient)
    <3>3. Tracked(f) /\ (f.uv = k.uv \/ f.uv = "closing")
      BY <3>1, <3>2, ParseTracked
    <3> HIDE DEF f
    <3>4. Settled(f)
      BY <3>2, <3>3, TrackedSettled
    <3> QED
      BY <1>0, <3>1, <3>4, SetSettled DEF f
  <2> QED
    BY <2>4, <2>5
<1>3. ASSUME NEW c \in Clients, EmptyRead(c) PROVE Done
  <2>1. <<>> \in Seq(Token)
    OBVIOUS
  <2>2. Tracked(alloc_cb(conn[c], <<>>)) /\ alloc_cb(conn[c], <<>>).uv = "open"
    BY <1>0, <1>3, <2>1, AllocParsable DEF EmptyRead
  <2>3. Settled(alloc_cb(conn[c], <<>>))
    BY <1>3, <2>2, TrackedSettled DEF EmptyRead
  <2> QED
    BY <1>0, <1>3, <2>3, SetSettled DEF EmptyRead
<1>4. ASSUME NEW c \in Clients, NEW q, Set(c, q), Silent(q, conn[c]), ~Alive(q),
             conn[c].uv # "closed"
      PROVE  Done
  <2>1. Tracked(q)
    BY <1>0, <1>4, SettledTracked, SilentTracked DEF Heard
  <2>2. Settled(q)
    BY <1>4, <2>1, TrackedSettled DEF Silent, Same
  <2> QED
    BY <1>0, <1>4, <2>2, SetSettled
<1>5. ASSUME NEW c \in Clients, PeerCloses(c) PROVE Done
  <2> DEFINE q == TakeAction(conn[c], "CA_CLOSE")
  <2>1. Silent(q, conn[c]) /\ ~Alive(q)
    BY <1>0, TakeActionSilent DEF Action
  <2>2. Set(c, q) /\ conn[c].uv = "open"
    BY <1>5 DEF PeerCloses
  <2> HIDE DEF q
  <2> QED
    BY <1>4, <2>1, <2>2
<1>6. ASSUME NEW c \in Clients, StatusWritten(c) PROVE Done
  <2> DEFINE k == [conn[c] EXCEPT !.wq = Tail(conn[c].wq)]
             s == stream_read_start(k)
  <2>1. Set(c, Drain(s)) \/ Set(c, close_connection(k))
    BY <1>6 DEF StatusWritten
  <2>2. conn[c].wq # <<>> /\ Head(conn[c].wq) = "status" /\ conn[c].uv # "closed"
    BY <1>0, <1>6 DEF StatusWritten, Settled
  <2>3. Tracked(conn[c]) /\ Books(conn[c])
    BY <1>0, <2>2, SettledTracked
  <2>4. /\ Books(k) /\ k \in Conn /\ k.uv = conn[c].uv /\ k.shut = conn[c].shut
        /\ k.wq = Tail(conn[c].wq) /\ k.reading = conn[c].reading
    BY <1>0, <2>2, <2>3, PopBooks
  <2>5. NoResponse(k) => NoResponse(conn[c])
    <3>1. conn[c].wq \in Seq({"status", "resp"})
      BY <1>0 DEF Conn
    <3>2. /\ conn[c].wq[1] = "status"
          /\ \A i \in 2 .. Len(conn[c].wq) :
               i - 1 \in 1 .. Len(k.wq) /\ conn[c].wq[i] = k.wq[i - 1]
      BY <2>2, <2>4, <3>1
    <3>3. \A i \in 1 .. Len(conn[c].wq) : i = 1 \/ i \in 2 .. Len(conn[c].wq)
      BY <3>1
    <3> HIDE DEF k
    <3> QED
      BY <3>2, <3>3 DEF NoResponse
  <2> HIDE DEF k
  <2>6. Heard(k)
    BY <2>3, <2>4, <2>5 DEF Tracked, Heard, Alive
  <2>7. /\ Silent(s, k) /\ s \in Conn /\ s.wq = k.wq
        /\ k.reading => s.reading \/ k.uv # "open"
    BY <2>4, StartSilent, StartFollows DEF Follows
  <2> HIDE DEF s
  <2>8. Heard(s)
    BY <2>6, <2>7 DEF Heard, Alive, NoResponse, Silent, Same
  <2>9. Tracked(s)
    BY <2>4, <2>6, <2>7, <2>8, SilentTracked DEF Tracked, Books
  <2>10. Settled(Drain(s)) /\ Settled(close_connection(k))
    <3>1. s.uv # "closed"
      BY <2>2, <2>4, <2>7 DEF Silent, Same
    <3> QED
      BY <2>2, <2>4, <2>7, <2>9, <3>1, DrainTracked, CloseTracked, TrackedSettled
  <2> QED
    BY <1>0, <2>1, <2>10, SetSettled
<1>7. ASSUME NEW c \in Clients, ResponseWritten(c) PROVE Done
  <2> DEFINE k == [conn[c] EXCEPT !.wq = Tail(conn[c].wq)]
  <2>1. conn[c].wq # <<>> /\ Head(conn[c].wq) = "resp" /\ conn[c].uv # "closed"
    BY <1>0, <1>7 DEF ResponseWritten, Settled
  <2>2. Quiet(k)
    BY <1>0, <2>1, ReportQuiet
  <2>3. /\ Books(k) /\ k \in Conn /\ k.uv = conn[c].uv
        /\ k.buf = conn[c].buf /\ k.parsed = conn[c].parsed
    BY <1>0, <2>1, SettledTracked, PopBooks
  <2>4. PICK n \in NextPull(conn[c]), r \in Reply,
             e \in 0 .. Len(conn[c].buf), left \in BOOLEAN :
          /\ IF Resumes(k) /\ Exhausted(k, n) THEN EndsAt(k, e)
             ELSE e = 0 /\ r.kind = "fail"
          /\ Set(c, Drain(write_cb(k, n, e, r, pyerr # NoClient \/ left)))
    BY <1>7 DEF ResponseWritten
  <2> HIDE DEF k
  <2> DEFINE w == write_cb(k, n, e, r, pyerr # NoClient \/ left)
  <2>5. n \in Pull
    BY DEF NextPull
  <2>6. Tracked(w) /\ (w.uv = k.uv \/ w.uv = "closing")
    BY <2>2, <2>3, <2>4, <2>5, WriteCbTracked
  <2>7. w \in Conn
    BY <2>2, <2>4, <2>5, WriteCbGood DEF Good
  <2> HIDE DEF w
  <2>8. Settled(Drain(w))
    BY <2>1, <2>3, <2>6, <2>7, DrainTracked, TrackedSettled
  <2> QED
    BY <1>0, <2>4, <2>8, SetSettled DEF w
<1>8. ASSUME NEW c \in Clients, WriteFailed(c) PROVE Done
  <2> DEFINE k == [conn[c] EXCEPT !.wq = Tail(conn[c].wq)]
             z == [k EXCEPT !.pre = 0]
  <2>1. conn[c].wq # <<>> /\ conn[c].uv # "closed"
    BY <1>0, <1>8 DEF WriteFailed, Settled
  <2>2. Books(k) /\ k \in Conn /\ k.uv = conn[c].uv
    BY <1>0, <2>1, SettledTracked, PopBooks
  <2>3. Set(c, close_connection([conn[c] EXCEPT !.wq = Tail(conn[c].wq), !.pre = 0]))
    BY <1>8 DEF WriteFailed
  <2>4. [conn[c] EXCEPT !.wq = Tail(conn[c].wq), !.pre = 0] = z
    BY <1>0 DEF Conn
  <2> HIDE DEF k
  <2>5. Silent(z, k) /\ z \in Conn /\ z.uv = k.uv
    BY <2>2 DEF Conn, Silent, Same
  <2> HIDE DEF z
  <2>6. Settled(close_connection(z))
    BY <2>1, <2>2, <2>5, SilentBooks, CloseTracked, TrackedSettled
  <2> QED
    BY <1>0, <2>3, <2>4, <2>6, SetSettled
<1>9. ASSUME NEW c \in Clients, shutdown_cb(c) PROVE Done
  <2>1. /\ Silent(close_connection(conn[c]), conn[c])
        /\ ~Alive(close_connection(conn[c]))
    BY <1>0, CloseSilent, CloseFollows
  <2> QED
    BY <1>4, <1>9, <2>1 DEF shutdown_cb
<1>10. ASSUME NEW c \in Clients, close_cb(c) PROVE Done
  <2> DEFINE z == reset_response_body(conn[c])
             q == [z EXCEPT !.uv = "closed", !.rx = "RXS_RESTING",
                            !.reading = FALSE]
  <2>1. /\ z \in Conn /\ z.wq = <<>> /\ Silent(z, conn[c])
        /\ conn[c].uv = "closing" /\ Set(c, q)
    BY <1>0, <1>10, ResetFollows, ResetSilent DEF Follows, close_cb
  <2>2. Books(z)
    BY <1>0, <2>1, SettledTracked, SilentBooks
  <2> HIDE DEF z
  <2>3. /\ q.uv = "closed" /\ q.wq = <<>> /\ q.parser = z.parser
        /\ q.recvd = z.recvd /\ q.ppos = z.ppos /\ q.buf = z.buf
        /\ q.parsed = z.parsed /\ q.begun = z.begun /\ q.asked = z.asked
    BY <2>1 DEF Conn
  <2> HIDE DEF q
  <2>4. Settled(q)
    BY <2>2, <2>3 DEF Settled, Books, Counted, Answered, Heard, Alive
  <2> QED
    BY <1>0, <2>1, <2>4, SetSettled
<1>11. ASSUME NEW c \in Clients, client_aux_check(c) PROVE Done
  <2> DEFINE q == TakeAction(conn[c], "CA_SHUTDOWN")
  <2>1. Silent(q, conn[c]) /\ ~Alive(q)
    BY <1>0, TakeActionSilent DEF Action
  <2>2. Set(c, q) /\ conn[c].uv = "open"
    BY <1>11 DEF client_aux_check, TakeAction
  <2> HIDE DEF q
  <2> QED
    BY <1>4, <2>1, <2>2
<1>12. CASE UNCHANGED vars
  BY <1>0, <1>12 DEF vars
<1>13. CASE AllClosed
  BY <1>12, <1>13 DEF AllClosed
<1> QED
  BY <1>1, <1>2, <1>3, <1>5, <1>6, <1>7, <1>8, <1>9, <1>10, <1>11, <1>12, <1>13
  DEF Next

(* The invariant holds throughout, for any number of connections. *)
THEOREM Settlement == Spec => []TInv
<1>1. Init => TInv
  BY Initial, FreshSettled DEF Init, TInv
<1> QED
  BY <1>1, Settles, PTL DEF Spec

(* No piece of request data is parsed twice or lost, over any number of    *)
(* reads, frozen buffers and pipelined requests (alloc_cb, read_cb).       *)
THEOREM InSync == Spec => []ParserInSync
<1>1. TInv => ParserInSync
  BY DEF TInv, Settled, Counted, ParserInSync
<1> QED
  BY <1>1, Settlement, PTL

(* A live connection with no response under way listens: no return of      *)
(* read_cb, write_cb or x_write_cb leaves it without an event to wait for. *)
THEOREM AlwaysListens == Spec => []NeverStuck
<1>1. TInv => NeverStuck
  BY DEF TInv, Settled, Heard, NoResponse, NeverStuck, InFlight
<1> QED
  BY <1>1, Settlement, PTL

(* No message gets two answers; only a parse error adds one, and nothing   *)
(* lives behind it (send_fatal, send_error, call_wsgi_app).                *)
THEOREM AnsweredOnce == Spec => []AnswersMatchRequests
<1>1. TInv => AnswersMatchRequests
  BY DEF TInv, Settled, Answered, AnswersMatchRequests
<1> QED
  BY <1>1, Settlement, PTL

-----------------------------------------------------------------------------
(***************************************************************************)
(* An error answer stands alone.  A connection that is live and has no     *)
(* response queued has no chunked body left (Unframed), so send_error and     *)
(* send_fatal reset the whole body before they write; a queued response    *)
(* is then either that of the application or has no body at all (Proper).  *)
(***************************************************************************)

Bare(k) ==
  ~k.iter /\ k.chunked = 0 /\ k.pre = 0 /\ k.total = 0 /\ k.written = 0

Proper(k) ==
  Alive(k) => IF NoResponse(k) THEN k.chunked = 0
                               ELSE k.status # "200" => Bare(k)

Unframed(k) == Quiet(k) /\ (Alive(k) => k.chunked = 0)

(* q has the answer of k, body and status. *)
SameBody(q, k) ==
  /\ q.iter = k.iter /\ q.chunked = k.chunked /\ q.pre = k.pre
  /\ q.total = k.total /\ q.written = k.written /\ q.status = k.status

(* Who is not live has nothing to answer. *)
LEMMA DeadProper == ASSUME NEW k, ~Alive(k) PROVE Proper(k)
  BY DEF Proper

(* Unframed connections are proper. *)
LEMMA UnframedProper == ASSUME NEW k, Unframed(k) PROVE Proper(k)
  BY DEF Unframed, Proper, Quiet

(* The writes and the body decide. *)
LEMMA FollowsProper ==
  ASSUME NEW k, NEW q, Follows(q, k), SameBody(q, k)
  PROVE  /\ Proper(k) => Proper(q)
         /\ Unframed(k) => Unframed(q)
<1>1. Alive(q) => Alive(k)
  BY DEF Follows, Alive
<1>2. NoResponse(q) <=> NoResponse(k)
  BY DEF Follows, NoResponse
<1>3. Proper(k) => Proper(q)
  BY <1>1, <1>2 DEF Proper, SameBody, Bare
<1>4. Unframed(k) => Unframed(q)
  BY <1>1, FollowsQuiet DEF Unframed, SameBody
<1> QED
  BY <1>3, <1>4

(* close_connection, stream_read_stop, shutdown_connection and             *)
(* stream_read_start touch no body.                                        *)
LEMMA BodyKept ==
  ASSUME NEW k \in Conn
  PROVE  /\ SameBody(close_connection(k), k)
         /\ SameBody(stream_read_stop(k), k)
         /\ SameBody(stream_read_start(k), k)
<1>1. SameBody(close_connection(k), k)
  BY DEF SameBody, close_connection, Conn
<1>2. SameBody(stream_read_stop(k), k)
  BY DEF SameBody, stream_read_stop, Conn
<1>3. CASE k.rx = "RXS_FREEZED" \/ k.state = "CS_RESP_SEND"
  BY <1>1, <1>2, <1>3 DEF SameBody, stream_read_start
<1>4. CASE /\ ~(k.rx = "RXS_FREEZED" \/ k.state = "CS_RESP_SEND")
           /\ k.uv = "open"
  BY <1>1, <1>2, <1>4 DEF SameBody, stream_read_start, Conn
<1>5. CASE /\ ~(k.rx = "RXS_FREEZED" \/ k.state = "CS_RESP_SEND")
           /\ k.uv # "open"
  BY <1>1, <1>2, <1>5 DEF stream_read_start
<1> QED
  BY <1>1, <1>2, <1>3, <1>4, <1>5

(* Reading on leaves a connection as ready or proper as it was. *)
LEMMA StartUnframed ==
  ASSUME NEW k \in Conn
  PROVE  /\ Unframed(k) => Unframed(stream_read_start(k))
         /\ Proper(k) => Proper(stream_read_start(k))
  BY StartFollows, BodyKept, FollowsProper

(* Drain only closes. *)
LEMMA DrainProper == ASSUME NEW k \in Conn, Proper(k) PROVE Proper(Drain(k))
  BY CloseFollows, DeadProper DEF Drain

-----------------------------------------------------------------------------
(* Writing. *)

(* A head is written over a body that is the application's or none.        *)
LEMMA WriteHeadProper ==
  ASSUME NEW k, NEW status \in Status, Quiet(k), k.state # "CS_RESP_SEND",
         Alive(k) /\ status # "200" => Bare(k)
  PROVE  Proper(WriteHead(k, status))
<1> DEFINE w == stream_write(k)
           n == IF status = "stray500" THEN w.begun ELSE w.begun + 1
           q == [w EXCEPT !.begun = n, !.status = status]
<1>1. k \in Conn /\ k.wq \in Seq({"status", "resp"})
  BY DEF Quiet, Conn
<1>2. w \in Conn
  BY WriteGood DEF Good
<1>3. CASE Writable(k)
  <2>1. w = [k EXCEPT !.state = "CS_RESP_SEND", !.reading = FALSE,
                      !.wq = Append(k.wq, "resp")]
    BY <1>3 DEF stream_write, Writable
  <2>2. /\ w.wq = Append(k.wq, "resp") /\ w.uv = k.uv /\ w.shut = k.shut
        /\ w.iter = k.iter /\ w.chunked = k.chunked /\ w.pre = k.pre
        /\ w.total = k.total /\ w.written = k.written
    BY <1>1, <2>1 DEF Conn
  <2> HIDE DEF w, n
  <2>3. /\ q.wq = w.wq /\ q.uv = w.uv /\ q.shut = w.shut
        /\ q.iter = w.iter /\ q.chunked = w.chunked /\ q.pre = w.pre
        /\ q.total = w.total /\ q.written = w.written /\ q.status = status
    BY <1>2 DEF Conn
  <2> HIDE DEF q
  <2>4. ~NoResponse(q)
    <3>1. Len(k.wq) + 1 \in 1 .. Len(q.wq) /\ q.wq[Len(k.wq) + 1] = "resp"
      BY <1>1, <2>2, <2>3
    <3> QED
      BY <3>1 DEF NoResponse
  <2>5. Proper(q)
    BY <2>2, <2>3, <2>4 DEF Proper, Bare, Alive
  <2> QED
    BY <1>3, <2>5 DEF WriteHead, w, n, q
<1>4. CASE ~Writable(k)
  <2>1. ~Alive(k)
    BY <1>4 DEF Writable, NotConn, Alive
  <2>2. WriteHead(k, status)
          = [k EXCEPT !.state = "CS_DESTROY", !.reading = FALSE]
    BY <1>4 DEF WriteHead, stream_write
  <2>3. ~Alive(WriteHead(k, status))
    BY <1>1, <2>1, <2>2 DEF Alive, Conn
  <2> QED
    BY <2>3, DeadProper
<1> QED
  BY <1>3, <1>4

(* reset_response_body leaves no body. *)
LEMMA ResetBare ==
  ASSUME NEW k \in Conn
  PROVE  Bare(reset_response_body(k))
         /\ reset_response_body(k).state = k.state
  BY DEF reset_response_body, Bare, Conn

(* send_fatal and send_error answer without a body. *)
LEMMA SendStatusProper ==
  ASSUME NEW k, NEW status \in Status, status # "200", Unframed(k)
  PROVE  Proper(SendStatus(k, status)) /\ SendStatus(k, status) \in Conn
<1> DEFINE z == BuildEmpty(k)
<1>1. k \in Conn /\ Quiet(k) /\ (Alive(k) => k.chunked = 0)
  BY DEF Unframed, Quiet
<1>2. SendStatus(k, status) \in Conn
  BY <1>1, SendStatusGood DEF Good
<1>3. CASE k.state = "CS_RESP_SEND"
  BY <1>2, <1>3, UnframedProper DEF SendStatus
<1>4. CASE k.state # "CS_RESP_SEND"
  <2>1. Follows(z, k) /\ z.state = k.state
    BY <1>1, ResetFollows, ResetBare DEF BuildEmpty, Follows
  <2>2. Alive(z) => Bare(z)
    BY <1>1, <2>1, ResetBare DEF BuildEmpty, Follows, Alive
  <2>3. Quiet(z)
    BY <1>1, <2>1, FollowsQuiet
  <2> HIDE DEF z
  <2>4. Proper(WriteHead(z, status))
    BY <1>4, <2>1, <2>2, <2>3, WriteHeadProper
  <2> QED
    BY <1>2, <1>4, <2>4 DEF SendStatus, z
<1> QED
  BY <1>3, <1>4

(* The last lines of read_cb end the connection or change nothing. *)
LEMMA TakeActionProper ==
  ASSUME NEW k \in Conn, NEW act \in Action, Proper(k)
  PROVE  Proper(TakeAction(k, act))
<1> DEFINE s == stream_read_stop(k)
<1>1. s \in Conn
  BY StopFollows DEF Follows
<1>2. ~Alive(close_connection(s)) /\ ~Alive(shutdown_connection(s))
  BY <1>1, CloseFollows, ShutdownFollows
<1> QED
  BY <1>2, DeadProper DEF TakeAction, Action

(* read_cb from `fin:` on. *)
LEMMA ReadFinProper ==
  ASSUME NEW k, NEW err \in Status, err # "200", NEW act \in Action,
         NEW py \in BOOLEAN,
         \/ Unframed(k)
         \/ /\ k \in Conn /\ Proper(k)
            /\ act # "CA_OK" \/ (err = "none" /\ ~py)
  PROVE  Proper(ReadFin(k, err, act, py))
<1> DEFINE e == IF py /\ err = "none" THEN "stray500" ELSE err
<1>1. e \in Status /\ e # "200"
  BY DEF Status
<1>2. k \in Conn /\ Proper(k)
  BY UnframedProper DEF Unframed, Quiet
<1>3. CASE e = "none" \/ act # "CA_OK"
  BY <1>2, <1>3, TakeActionProper DEF ReadFin
<1>4. CASE ~(e = "none" \/ act # "CA_OK")
  <2>1. Unframed(k)
    BY <1>4
  <2> DEFINE a == IF Persistent(k) THEN "CA_OK" ELSE "CA_SHUTDOWN"
  <2>2. a \in Action
    BY DEF Action
  <2>3. Proper(SendStatus(k, e)) /\ SendStatus(k, e) \in Conn
    BY <1>1, <2>1, SendStatusProper
  <2>4. Proper(TakeAction(SendStatus(k, e), a))
    BY <2>2, <2>3, TakeActionProper
  <2> QED
    BY <1>4, <2>4 DEF ReadFin
<1> QED
  BY <1>3, <1>4

-----------------------------------------------------------------------------
(* Parsing: on_message_begin resets the body, the rest leaves it alone. *)

(* x_send_status leaves the body alone. *)
LEMMA StatusUnframed ==
  ASSUME NEW k, Unframed(k) PROVE Unframed(x_send_status(k))
<1> DEFINE q == x_send_status(k)
<1>1. k \in Conn /\ Quiet(q)
  BY StatusQuiet DEF Unframed, Quiet
<1>2. q.chunked = k.chunked /\ (Alive(q) => Alive(k))
  BY <1>1 DEF x_send_status, Alive, Conn
<1> QED
  BY <1>1, <1>2 DEF Unframed

(* The parser callbacks leave no chunked body. *)
LEMMA FeedUnframed ==
  ASSUME NEW k, NEW e, Unframed(k) PROVE Unframed(Feed(k, e))
<1> DEFINE p == [k EXCEPT !.state = "CS_REQ_PARSE"]
           z == reset_response_body(p)
           b == [z EXCEPT !.reqT = TRUE, !.lastT = FALSE, !.parser = "mid"]
           m == IF k.parser = "idle" THEN b ELSE p
<1>1. k \in Conn /\ Quiet(k)
  BY DEF Unframed, Quiet
<1>2. Follows(p, k) /\ SameBody(p, k) /\ p \in Conn
  BY <1>1 DEF Follows, SameBody, Conn, ClientState
<1>3. Unframed(p)
  BY <1>2, FollowsProper
<1>4. on_message_begin(p) = b
  BY DEF on_message_begin
<1> HIDE DEF p
<1>5. Quiet(z) /\ z \in Conn /\ z.chunked = 0
  BY <1>2, <1>3, ResetFollows, ResetBare, FollowsQuiet
     DEF Follows, Bare, Unframed
<1> HIDE DEF z
<1>6. Follows(b, z) /\ b.chunked = 0
  BY <1>5 DEF Follows, Conn
<1> HIDE DEF b
<1>7. Unframed(b)
  BY <1>5, <1>6, FollowsQuiet DEF Unframed
<1>8. Unframed(m) /\ Unframed(x_send_status(m))
  BY <1>3, <1>7, StatusUnframed
<1>9. Feed(k, e) = m \/ Feed(k, e) = x_send_status(m)
  BY <1>4 DEF Feed, p
<1> HIDE DEF m
<1> QED
  BY <1>8, <1>9

(* An incomplete message leaves the body alone ... *)
LEMMA IncompleteUnframed ==
  ASSUME NEW k, NEW e, Unframed(k), Within(k, e)
  PROVE  Unframed(Incomplete(k, e))
<1> DEFINE p == [k EXCEPT !.parsed = e, !.ppos = k.ppos + (e - k.parsed)]
           q == [p EXCEPT !.rx = "RXS_READING"]
<1>1. k \in Conn
  BY DEF Unframed, Quiet
<1>2. e \in Nat /\ k.ppos + (e - k.parsed) \in Nat
  BY <1>1, WithinNat
<1>3. p \in Conn
  BY <1>1, <1>2 DEF Conn
<1>4. Follows(p, k) /\ SameBody(p, k)
  BY <1>1, <1>3 DEF Follows, SameBody, Conn
<1>5. q \in Conn
  BY <1>3 DEF Conn, RxStatus
<1>6. Follows(q, p) /\ SameBody(q, p)
  BY <1>3, <1>5 DEF Follows, SameBody, Conn
<1>7. Incomplete(k, e) = p \/ Incomplete(k, e) = stream_read_start(q)
  BY DEF Incomplete
<1> HIDE DEF p, q
<1>8. Unframed(p) /\ Unframed(q) /\ Unframed(stream_read_start(q))
  BY <1>4, <1>5, <1>6, FollowsProper, StartUnframed
<1> QED
  BY <1>7, <1>8

(* ... and so does the end of a message, the buffer frozen or not. *)
LEMMA PausedUnframed ==
  ASSUME NEW k, NEW e, Unframed(k), Within(k, e)
  PROVE  Unframed(Paused(on_message_complete(k, e), e))
<1> DEFINE m == on_message_complete(k, e)
           p == [m EXCEPT !.parsed = e, !.ppos = m.ppos + (e - m.parsed)]
           r == [p EXCEPT !.rx = "RXS_READING"]
           f == [p EXCEPT !.rx = "RXS_FREEZED"]
<1>1. k \in Conn /\ Quiet(k)
  BY DEF Unframed, Quiet
<1>2. m \in Conn /\ Within(m, e)
  BY <1>1, CompleteQuiet DEF Quiet
<1>3. Follows(m, k) /\ SameBody(m, k)
  BY <1>1, <1>2 DEF on_message_complete, Follows, SameBody, Conn
<1>4. \/ Paused(m, e) = stream_read_start(r)
      \/ Paused(m, e) = stream_read_stop(f)
  BY DEF Paused
<1> HIDE DEF m
<1>5. e \in Nat /\ m.ppos + (e - m.parsed) \in Nat
  BY <1>2, WithinNat
<1>6. p \in Conn
  BY <1>2, <1>5 DEF Conn
<1>7. Follows(p, m) /\ SameBody(p, m)
  BY <1>2, <1>6 DEF Follows, SameBody, Conn
<1> HIDE DEF p
<1>8. r \in Conn /\ Follows(r, p) /\ SameBody(r, p)
  BY <1>6 DEF Follows, SameBody, Conn, RxStatus
<1>9. f \in Conn /\ Follows(f, p) /\ SameBody(f, p)
  BY <1>6 DEF Follows, SameBody, Conn, RxStatus
<1> HIDE DEF r, f
<1>10. Unframed(r) /\ Unframed(f)
  BY <1>3, <1>7, <1>8, <1>9, FollowsProper
<1>11. Unframed(stream_read_start(r)) /\ Unframed(stream_read_stop(f))
  BY <1>8, <1>9, <1>10, StartUnframed, StopFollows, BodyKept, FollowsProper
<1> QED
  BY <1>4, <1>11 DEF m

(* The application's response, or an error without a body. *)
LEMMA RunApplicationProper ==
  ASSUME NEW k, NEW r \in Reply, NEW py \in BOOLEAN, Unframed(k)
  PROVE  Proper(RunApplication(k, r, py))
<1> DEFINE a == [k EXCEPT !.state = "CS_RESP_BILD", !.calls = k.calls + 1]
           ch == IF r.kind = "chunked" THEN 1 ELSE 0
           b == [a EXCEPT !.pre = r.pre, !.total = r.total, !.chunked = ch,
                          !.iter = TRUE]
<1>1. k \in Conn /\ k.calls + 1 \in Nat /\ Quiet(k)
  BY DEF Unframed, Quiet, Conn
<1>2. a \in Conn /\ Follows(a, k) /\ SameBody(a, k)
  BY <1>1 DEF Follows, SameBody, Conn, ClientState
<1>3. a.state = "CS_RESP_BILD"
  BY <1>1 DEF Conn
<1>4. r.pre \in Nat /\ r.total \in Nat
  BY BoundsAssumption DEF Reply
<1>5. ch \in 0 .. 2
  OBVIOUS
<1>6. \/ /\ py \/ r.kind = "fail"
         /\ RunApplication(k, r, py)
              = ReadFin(a, IF r.kind = "fail" THEN "500" ELSE "stray500",
                        "CA_OK", py)
      \/ RunApplication(k, r, py)
           = ReadFin(WriteHead(b, "200"), "none",
                     IF Writable(b) THEN "CA_OK" ELSE "CA_SHUTDOWN", FALSE)
  BY DEF RunApplication
<1> HIDE DEF a, ch
<1>7. b \in Conn
  BY ZenonT(60), <1>2, <1>4, <1>5 DEF Conn
<1>8. Follows(b, a) /\ b.state = a.state
  BY <1>2, <1>7 DEF Follows, Conn
<1> HIDE DEF b
<1>9. Unframed(a) /\ Quiet(b) /\ b.state # "CS_RESP_SEND"
  BY <1>1, <1>2, <1>3, <1>8, FollowsProper, FollowsQuiet
<1>10. /\ Proper(ReadFin(a, "500", "CA_OK", py))
       /\ Proper(ReadFin(a, "stray500", "CA_OK", py))
  BY <1>9, ReadFinProper DEF Status, Action
<1>11. Proper(WriteHead(b, "200")) /\ WriteHead(b, "200") \in Conn
  BY <1>9, WriteHeadProper, WriteHeadGood DEF Status, Good
<1>12. /\ Proper(ReadFin(WriteHead(b, "200"), "none", "CA_OK", FALSE))
       /\ Proper(ReadFin(WriteHead(b, "200"), "none", "CA_SHUTDOWN", FALSE))
  BY <1>11, ReadFinProper DEF Status, Action
<1> QED
  BY <1>6, <1>10, <1>12

(* read_cb from `parsing:` on. *)
LEMMA ParseProper ==
  ASSUME NEW k, NEW e, NEW r \in Reply, NEW py \in BOOLEAN,
         Unframed(k), EndsAt(k, e)
  PROVE  Proper(Parse(k, e, r, py))
<1> DEFINE p == Feed(k, e)
           x == [p EXCEPT !.parser = "error"]
<1>1. /\ Unframed(p) /\ p.buf = k.buf /\ p.parsed = k.parsed /\ p \in Conn
      /\ k \in Conn
  BY FeedUnframed, FeedQuiet DEF Unframed, Quiet
<1>2. Within(p, e)
  BY <1>1 DEF EndsAt, Within, Unparsed
<1> HIDE DEF p
<1>3. Follows(x, p) /\ SameBody(x, p)
  BY <1>1 DEF Follows, SameBody, Conn
<1>4. Unframed(x)
  BY <1>1, <1>3, FollowsProper
<1> HIDE DEF x
<1>5. Proper(ReadFin(SendStatus(x, "400"), "none", "CA_SHUTDOWN", py))
  BY <1>4, SendStatusProper, ReadFinProper DEF Status, Action
<1>6. Proper(ReadFin(Incomplete(p, e), "none", "CA_OK", py))
  BY <1>1, <1>2, IncompleteUnframed, ReadFinProper DEF Status, Action
<1>7. Unframed(Paused(on_message_complete(p, e), e))
  BY <1>1, <1>2, PausedUnframed
<1>8. Proper(ReadFin(Paused(on_message_complete(p, e), e), "417", "CA_OK", py))
  BY <1>7, ReadFinProper DEF Status, Action
<1>9. Proper(RunApplication(Paused(on_message_complete(p, e), e), r, py))
  BY <1>7, RunApplicationProper
<1>10. k.parsed \in Nat /\ k.buf \in Seq(Token)
  BY <1>1 DEF Conn
<1>11. k.buf[e] \in Token
  BY <1>10 DEF EndsAt, Unparsed
<1>12. k.buf[e] = "bad" => ParseFails(k, e)
  BY DEF ParseFails
<1> QED
  BY <1>5, <1>6, <1>8, <1>9, <1>11, <1>12 DEF Parse, Stops, p, x

-----------------------------------------------------------------------------
(* Completion of a response write. *)

(* The end of a response closes, or resets the body first. *)
LEMMA FinishProper ==
  ASSUME NEW k, NEW e, NEW r \in Reply, NEW py \in BOOLEAN, Quiet(k),
         Resumes(k) => EndsAt(k, e)
  PROVE  Proper(FinishResponse(k, e, r, py))
<1> DEFINE d == [k EXCEPT !.done = k.done + 1]
           z == reset_response_body(d)
           q == [z EXCEPT !.state = "CS_RESP_END"]
<1>1. k \in Conn /\ k.done + 1 \in Nat
  BY DEF Quiet, Conn
<1>2. /\ d \in Conn /\ d.wq = k.wq /\ d.uv = k.uv /\ d.shut = k.shut
      /\ d.buf = k.buf /\ d.parsed = k.parsed
  BY <1>1 DEF Conn
<1>3. \/ FinishResponse(k, e, r, py) = close_connection(d)
      \/ Resumes(k) /\ FinishResponse(k, e, r, py) = Parse(q, e, r, py)
      \/ FinishResponse(k, e, r, py) = stream_read_start(q)
  BY DEF FinishResponse
<1>4. Quiet(d)
  BY <1>2, FollowsQuiet DEF Follows
<1> HIDE DEF d
<1>5. /\ Quiet(z) /\ z \in Conn /\ z.buf = k.buf /\ z.parsed = k.parsed
      /\ z.chunked = 0
  BY <1>2, <1>4, ResetFollows, ResetBare, FollowsQuiet DEF Follows, Bare
<1> HIDE DEF z
<1>6. /\ q \in Conn /\ Follows(q, z) /\ q.chunked = z.chunked
      /\ q.buf = z.buf /\ q.parsed = z.parsed
  BY <1>5 DEF Follows, Conn, ClientState
<1> HIDE DEF q
<1>7. Unframed(q)
  BY <1>5, <1>6, FollowsQuiet DEF Unframed
<1>8. Proper(close_connection(d)) /\ Proper(stream_read_start(q))
  BY <1>2, <1>6, <1>7, CloseFollows, DeadProper, StartUnframed, UnframedProper
<1>9. Resumes(k) => Proper(Parse(q, e, r, py))
  BY <1>5, <1>6, <1>7, EndsAtSame, ParseProper
<1> QED
  BY <1>3, <1>8, <1>9

(* Only the application's response is continued by write_cb. *)
LEMMA WriteMoreProper ==
  ASSUME NEW k, Quiet(k), Alive(k) => k.status = "200",
         k.state # "CS_RESP_SEND"
  PROVE  Proper(WriteMore(k))
<1> DEFINE w == stream_write(k)
<1>1. k \in Conn
  BY DEF Quiet
<1>2. CASE Writable(k)
  <2>1. w = [k EXCEPT !.state = "CS_RESP_SEND", !.reading = FALSE,
                      !.wq = Append(k.wq, "resp")]
    BY <1>2 DEF stream_write, Writable
  <2>2. /\ w.wq = Append(k.wq, "resp") /\ w.uv = k.uv /\ w.shut = k.shut
        /\ w.status = k.status
    BY <1>1, <2>1 DEF Conn
  <2> HIDE DEF w
  <2>3. ~NoResponse(w)
    <3>1. k.wq \in Seq({"status", "resp"})
      BY <1>1 DEF Conn
    <3>2. Len(k.wq) + 1 \in 1 .. Len(w.wq) /\ w.wq[Len(k.wq) + 1] = "resp"
      BY <2>2, <3>1
    <3> QED
      BY <3>2 DEF NoResponse
  <2>4. Proper(w)
    BY <2>2, <2>3 DEF Proper, Alive
  <2> QED
    BY <1>2, <2>4 DEF WriteMore, w
<1>3. CASE ~Writable(k)
  <2>1. w \in Conn
    BY WriteGood DEF Good
  <2> QED
    BY <1>3, <2>1, CloseFollows, DeadProper DEF WriteMore
<1> QED
  BY <1>2, <1>3

(* An error answer is over when libuv has written it: write_cb asks no     *)
(* iterator for more.                                                      *)
LEMMA WriteCbProper ==
  ASSUME NEW k, NEW n \in Pull, NEW e, NEW r \in Reply, NEW py \in BOOLEAN,
         Quiet(k), Resumes(k) /\ Exhausted(k, n) => EndsAt(k, e),
         Alive(k) /\ k.status # "200" => Bare(k)
  PROVE  Proper(write_cb(k, n, e, r, py))
<1> DEFINE s == Sent(k)
           b == [s EXCEPT !.state = "CS_RESP_BILD"]
           l == [s EXCEPT !.lastT = TRUE]
           m == [b EXCEPT !.pre = n.size]
           o == [b EXCEPT !.chunked = 2]
           w == write_cb(k, n, e, r, py)
<1>1. k \in Conn /\ k.written + k.pre \in Nat /\ 0 \in Nat
  BY DEF Quiet, Conn
<1>2. /\ s \in Conn /\ Follows(s, k)
      /\ s.buf = k.buf /\ s.parsed = k.parsed /\ s.chunked = k.chunked
      /\ s.keep = k.keep /\ s.rx = k.rx /\ s.status = k.status
      /\ s.total = k.total /\ s.written = k.written + k.pre
  BY <1>1 DEF Sent, Follows, Conn, ClientState
<1>3. Quiet(s)
  BY <1>2, FollowsQuiet
<1>4. n.size \in Nat
  BY BoundsAssumption DEF Pull
<1>5. \/ w = close_connection(s)
      \/ LastWritten(s) /\ w = FinishResponse(l, e, r, py)
      \/ w = close_connection(b)
      \/ Pulls(k) /\ w = WriteMore(m)
      \/ Pulls(k) /\ w = WriteMore(o)
      \/ /\ Pulls(k) /\ n.kind = "end" /\ k.chunked = 0
         /\ w = FinishResponse(b, e, r, py)
  <2>1. n.kind \in {"chunk", "end", "raise", "notBytes"}
    BY DEF Pull
  <2>2. k.chunked \in {0, 1, 2}
    BY <1>1 DEF Conn
  <2>3. k.chunked = 2 => LastWritten(s)
    BY <1>2 DEF LastWritten
  <2>4. ~OverLength(s) /\ ~LastWritten(s) <=> Pulls(k)
    BY DEF Pulls
  <2> HIDE DEF s, b, l, m, o
  <2>5. CASE Pulls(k)
    BY <2>1, <2>2, <2>3, <2>4, <2>5 DEF write_cb, s, b, l, m, o
  <2>6. CASE ~Pulls(k)
    BY <2>4, <2>6 DEF write_cb, s, b, l, m, o
  <2> QED
    BY <2>5, <2>6
<1>6. LastWritten(s) => Exhausted(k, n)
  BY DEF Exhausted
<1>7. Pulls(k) /\ n.kind = "end" /\ k.chunked = 0 => Exhausted(k, n)
  BY DEF Exhausted, Pulls
<1>8. Pulls(k) /\ Alive(k) => k.status = "200"
  <2>1. Bare(k) => LastWritten(s)
    BY <1>2 DEF Bare, LastWritten
  <2> QED
    BY <2>1 DEF Pulls
<1> HIDE DEF s
<1>9. /\ b \in Conn /\ Follows(b, s) /\ b.status = s.status
      /\ b.buf = s.buf /\ b.parsed = s.parsed /\ b.keep = s.keep
      /\ b.rx = s.rx /\ b.state = "CS_RESP_BILD"
  BY <1>2 DEF Follows, Conn, ClientState
<1>10. /\ l \in Conn /\ Follows(l, s)
       /\ l.buf = s.buf /\ l.parsed = s.parsed /\ l.keep = s.keep /\ l.rx = s.rx
  BY <1>2 DEF Follows, Conn
<1> HIDE DEF b, l
<1>11. Quiet(b) /\ Quiet(l)
  BY <1>3, <1>9, <1>10, FollowsQuiet
<1>12. m \in Conn /\ Follows(m, b) /\ m.status = b.status /\ m.state = b.state
  BY <1>4, <1>9 DEF Follows, Conn
<1>13. o \in Conn /\ Follows(o, b) /\ o.status = b.status /\ o.state = b.state
  <2>1. 2 \in 0 .. 2
    OBVIOUS
  <2> QED
    BY <1>9, <2>1 DEF Follows, Conn
<1> HIDE DEF m, o
<1>14. Quiet(m) /\ Quiet(o)
  BY <1>11, <1>12, <1>13, FollowsQuiet
<1>15. (Alive(m) => Alive(k)) /\ (Alive(o) => Alive(k))
  BY <1>2, <1>9, <1>12, <1>13 DEF Follows, Alive
<1>16. Pulls(k) => Proper(WriteMore(m)) /\ Proper(WriteMore(o))
  BY <1>2, <1>8, <1>9, <1>12, <1>13, <1>14, <1>15, WriteMoreProper
<1>17. Proper(close_connection(s)) /\ Proper(close_connection(b))
  BY <1>2, <1>9, CloseFollows, DeadProper
<1>18. LastWritten(s) => Proper(FinishResponse(l, e, r, py))
  <2>1. LastWritten(s) /\ Resumes(l) => EndsAt(l, e)
    BY <1>2, <1>6, <1>10, EndsAtSame DEF Resumes, Persistent
  <2> QED
    BY <1>11, <2>1, FinishProper
<1>19. Pulls(k) /\ n.kind = "end" /\ k.chunked = 0
         => Proper(FinishResponse(b, e, r, py))
  <2>1. Exhausted(k, n) /\ Resumes(b) => EndsAt(b, e)
    BY <1>2, <1>9, EndsAtSame DEF Resumes, Persistent
  <2> QED
    BY <1>7, <1>11, <2>1, FinishProper
<1> HIDE DEF w
<1>20. Proper(w)
  BY <1>5, <1>16, <1>17, <1>18, <1>19
<1> QED
  BY <1>20 DEF w

-----------------------------------------------------------------------------
(* The callbacks. *)

PInv == IInv /\ \A c \in Clients : Proper(conn[c])

(* One slot changes, the others stay. *)
LEMMA SetProper ==
  ASSUME PInv, NEW c \in Clients, NEW k, Proper(k), Set(c, k)
  PROVE  \A d \in Clients : Proper(conn'[d])
  BY DEF PInv, IInv, Set

(* alloc_cb on a connection that is read, which has no response queued. *)
LEMMA AllocUnframed ==
  ASSUME NEW k, NEW toks \in Seq(Token), Good(k), Proper(k), k.reading
  PROVE  Unframed(k) /\ Unframed(alloc_cb(k, toks))
<1>1. k \in Conn /\ Quiet(k) /\ Quiet(alloc_cb(k, toks))
  BY AllocQuiet DEF Good
<1>2. Unframed(k)
  BY <1>1 DEF Unframed, Proper, Quiet
<1>3. /\ Follows(alloc_cb(k, toks), k) /\ SameBody(alloc_cb(k, toks), k)
  BY <1>1 DEF Quiet, alloc_cb, Follows, SameBody, Conn
<1> QED
  BY <1>2, <1>3, FollowsProper

(* A status line that libuv reports leaves the response where it is. *)
LEMMA StatusReported ==
  ASSUME NEW k, Good(k), Proper(k), k.wq # <<>>, Head(k.wq) = "status"
  PROVE  Proper([k EXCEPT !.wq = Tail(k.wq)])
<1> DEFINE q == [k EXCEPT !.wq = Tail(k.wq)]
<1>1. k \in Conn /\ k.wq \in Seq({"status", "resp"})
  BY DEF Good, Conn
<1>2. /\ q.wq = Tail(k.wq) /\ q.uv = k.uv /\ q.shut = k.shut
      /\ SameBody(q, k)
  BY <1>1 DEF SameBody, Conn
<1> HIDE DEF q
<1>3. NoResponse(q) <=> NoResponse(k)
  <2>1. \A i \in 1 .. Len(k.wq) : k.wq[i] = "resp" =>
          i - 1 \in 1 .. Len(q.wq) /\ q.wq[i - 1] = k.wq[i]
    <3>1. k.wq[1] # "resp"
      BY <1>1
    <3> QED
      BY <1>1, <1>2, <3>1
  <2>2. \A i \in 1 .. Len(q.wq) :
          i + 1 \in 1 .. Len(k.wq) /\ q.wq[i] = k.wq[i + 1]
    BY <1>1, <1>2
  <2>3. NoResponse(q) => NoResponse(k)
    BY <2>1 DEF NoResponse
  <2>4. NoResponse(k) => NoResponse(q)
    BY <2>2 DEF NoResponse
  <2> QED
    BY <2>3, <2>4
<1>4. Proper(q)
  BY <1>2, <1>3 DEF Proper, SameBody, Bare, Alive
<1> QED
  BY <1>4 DEF q

(* Every callback keeps error answers apart from bodies. *)
LEMMA KeepsProper == PInv /\ [Next]_vars => PInv'
<1> SUFFICES ASSUME PInv, [Next]_vars PROVE \A d \in Clients : Proper(conn'[d])
  BY Inductive DEF PInv
<1>0. /\ conn \in [Clients -> Conn] /\ pyerr \in Clients \cup {NoClient}
      /\ \A c \in Clients : Good(conn[c]) /\ Proper(conn[c]) /\ conn[c] \in Conn
  BY DEF PInv, IInv
<1> DEFINE Done == \A d \in Clients : Proper(conn'[d])
<1>1. ASSUME NEW c \in Clients, NEW q, ~Alive(q), Set(c, q) PROVE Done
  BY <1>1, DeadProper, SetProper
<1>2. ASSUME NEW c \in Clients, connection_cb(c) PROVE Done
  <2> DEFINE a == [Fresh EXCEPT !.uv = "open", !.state = "CS_REQ_READ",
                                !.reading = TRUE, !.reqT = TRUE]
             b == [Fresh EXCEPT !.uv = "closing", !.state = "CS_DESTROY"]
  <2>1. Proper(a) /\ Proper(b)
    <3>1. /\ a.wq = <<>> /\ a.chunked = 0 /\ b.uv = "closing"
      BY DEF Fresh
    <3> QED
      BY <3>1 DEF Proper, NoResponse, Alive
  <2> QED
    BY <1>2, <2>1, SetProper DEF connection_cb
<1>3. ASSUME NEW c \in Clients, read_cb(c) PROVE Done
  <2> DEFINE py == pyerr # NoClient
             k(toks) == alloc_cb(conn[c], toks)
  <2>1. PICK toks \in PeerData(conn[c]) :
          IF conn[c].rx = "RXS_FREEZED"
          THEN Set(c, ReadFin(conn[c], "none", "CA_SHUTDOWN", py))
          ELSE \E e \in 1 .. Len(toks), r \in Reply :
                 /\ EndsAt(k(toks), e)
                 /\ Set(c, Parse(k(toks), e, r, py))
    BY <1>3 DEF read_cb
  <2>2. toks \in Seq(Token)
    BY PeersAssumption, BoundsAssumption DEF PeerData
  <2>3. Unframed(k(toks))
    BY <1>0, <1>3, <2>2, AllocUnframed DEF read_cb
  <2>4. Proper(ReadFin(conn[c], "none", "CA_SHUTDOWN", py))
    BY <1>0, ReadFinProper DEF Status, Action
  <2>5. \A e : \A r \in Reply :
          EndsAt(k(toks), e) => Proper(Parse(k(toks), e, r, py))
    BY <2>3, ParseProper
  <2> HIDE DEF py, k
  <2> QED
    BY <2>1, <2>4, <2>5, SetProper
<1>4. ASSUME NEW c \in Clients, EmptyRead(c) PROVE Done
  <2>1. <<>> \in Seq(Token)
    OBVIOUS
  <2>2. Proper(alloc_cb(conn[c], <<>>))
    BY <1>0, <1>4, <2>1, AllocUnframed, UnframedProper DEF EmptyRead
  <2> QED
    BY <1>4, <2>2, SetProper DEF EmptyRead
<1>5. ASSUME NEW c \in Clients, PeerCloses(c) PROVE Done
  <2>1. Proper(TakeAction(conn[c], "CA_CLOSE"))
    BY <1>0, TakeActionProper DEF Action
  <2> QED
    BY <1>5, <2>1, SetProper DEF PeerCloses
<1>6. ASSUME NEW c \in Clients, StatusWritten(c) PROVE Done
  <2> DEFINE k == [conn[c] EXCEPT !.wq = Tail(conn[c].wq)]
  <2>1. Set(c, Drain(stream_read_start(k))) \/ Set(c, close_connection(k))
    BY <1>6 DEF StatusWritten
  <2>2. Proper(k) /\ k \in Conn
    BY <1>0, <1>6, StatusReported, StatusGood DEF StatusWritten, Good
  <2> HIDE DEF k
  <2>3. Proper(stream_read_start(k)) /\ stream_read_start(k) \in Conn
    BY <2>2, StartUnframed, StartFollows DEF Follows
  <2>4. Proper(Drain(stream_read_start(k))) /\ Proper(close_connection(k))
    BY <2>2, <2>3, DrainProper, CloseFollows, DeadProper
  <2> QED
    BY <2>1, <2>4, SetProper
<1>7. ASSUME NEW c \in Clients, ResponseWritten(c) PROVE Done
  <2> DEFINE k == [conn[c] EXCEPT !.wq = Tail(conn[c].wq)]
  <2>1. conn[c].wq # <<>> /\ Head(conn[c].wq) = "resp"
    BY <1>7 DEF ResponseWritten
  <2>2. Quiet(k)
    BY <1>0, <2>1, ReportQuiet
  <2>3. Alive(k) /\ k.status # "200" => Bare(k)
    <3>1. ~NoResponse(conn[c])
      <4>1. conn[c].wq \in Seq({"status", "resp"})
        BY <1>0 DEF Conn
      <4> HIDE DEF k
      <4>2. 1 \in 1 .. Len(conn[c].wq) /\ conn[c].wq[1] = "resp"
        BY <2>1, <4>1
      <4> QED
        BY <4>2 DEF NoResponse
    <3>2. SameBody(k, conn[c]) /\ k.uv = conn[c].uv /\ k.shut = conn[c].shut
      BY <1>0 DEF SameBody, Conn
    <3>3. Proper(conn[c])
      BY <1>0
    <3> HIDE DEF k
    <3> QED
      BY <3>1, <3>2, <3>3 DEF Proper, SameBody, Bare, Alive
  <2>4. k.buf = conn[c].buf /\ k.parsed = conn[c].parsed
    BY <1>0 DEF Conn
  <2>5. PICK n \in NextPull(conn[c]), r \in Reply,
             e \in 0 .. Len(conn[c].buf), left \in BOOLEAN :
          /\ IF Resumes(k) /\ Exhausted(k, n) THEN EndsAt(k, e)
             ELSE e = 0 /\ r.kind = "fail"
          /\ Set(c, Drain(write_cb(k, n, e, r, pyerr # NoClient \/ left)))
    BY <1>7 DEF ResponseWritten
  <2> HIDE DEF k
  <2> DEFINE w == write_cb(k, n, e, r, pyerr # NoClient \/ left)
  <2>6. n \in Pull
    BY DEF NextPull
  <2>7. Proper(w) /\ w \in Conn
    BY <2>2, <2>3, <2>5, <2>6, WriteCbProper, WriteCbGood DEF Good
  <2> HIDE DEF w
  <2>8. Proper(Drain(w))
    BY <2>7, DrainProper
  <2> QED
    BY <2>5, <2>8, SetProper DEF w
<1>8. ASSUME NEW c \in Clients, WriteFailed(c) PROVE Done
  <2> DEFINE k == [conn[c] EXCEPT !.wq = Tail(conn[c].wq)]
             z == [k EXCEPT !.pre = 0]
  <2>1. k \in Conn
    BY <1>0, <1>8, ReportQuiet DEF WriteFailed, Quiet
  <2>2. Set(c, close_connection(z))
    BY <1>0, <1>8 DEF WriteFailed, Conn
  <2> HIDE DEF k
  <2>3. z \in Conn
    BY <2>1 DEF Conn
  <2> HIDE DEF z
  <2> QED
    BY <1>1, <2>2, <2>3, CloseFollows
<1>9. ASSUME NEW c \in Clients, shutdown_cb(c) PROVE Done
  BY <1>0, <1>1, <1>9, CloseFollows DEF shutdown_cb
<1>10. ASSUME NEW c \in Clients, close_cb(c) PROVE Done
  <2> DEFINE z == reset_response_body(conn[c])
             q == [z EXCEPT !.uv = "closed", !.rx = "RXS_RESTING",
                            !.reading = FALSE]
  <2>1. z \in Conn /\ Set(c, q)
    BY <1>0, <1>10, ResetFollows DEF Follows, close_cb
  <2> HIDE DEF z
  <2>2. q.uv = "closed"
    BY <2>1 DEF Conn
  <2> HIDE DEF q
  <2> QED
    BY <1>1, <2>1, <2>2 DEF Alive
<1>11. ASSUME NEW c \in Clients, client_aux_check(c) PROVE Done
  <2>1. stream_read_stop(conn[c]) \in Conn
    BY <1>0, StopFollows DEF Follows
  <2> QED
    BY <1>1, <1>11, <2>1, ShutdownFollows DEF client_aux_check
<1>12. CASE AllClosed \/ UNCHANGED vars
  BY <1>0, <1>12 DEF AllClosed, vars
<1> QED
  BY <1>2, <1>3, <1>4, <1>5, <1>6, <1>7, <1>8, <1>9, <1>10, <1>11, <1>12
     DEF Next

(* No error answer, a stray 500 included, has a body that write_cb would   *)
(* count, frame or continue, whichever connection's exception caused it    *)
(* (send_fatal, send_error, reset_response_body).                          *)
THEOREM ErrorsStandAlone == Spec => []ErrorAnswersStandAlone
<1>1. Init => PInv
  <2>1. Fresh.uv = "none"
    BY DEF Fresh
  <2>2. Proper(Fresh)
    BY <2>1 DEF Proper, Alive
  <2> QED
    BY <2>2, Initial DEF PInv, Init
<1>2. PInv => ErrorAnswersStandAlone
  <2> SUFFICES ASSUME PInv, NEW c \in Clients, Alive(conn[c]),
                      InFlight(conn[c]) # {}, conn[c].status # "200"
               PROVE  Bare(conn[c])
    BY DEF ErrorAnswersStandAlone, Bare
  <2>1. ~NoResponse(conn[c])
    BY DEF InFlight, NoResponse
  <2> QED
    BY <2>1 DEF PInv, Proper
<1> QED
  BY <1>1, <1>2, KeepsProper, PTL DEF Spec

-----------------------------------------------------------------------------
(***************************************************************************)
(* WsgiConnection implements HttpExchange, for any number of connections,  *)
(* of requests and of pieces of request data, as long as no peer asks for  *)
(* 100-continue and no body raises or lacks a close().  The assumptions    *)
(* are needed: a status line that libuv reports restarts reading behind a  *)
(* shutdown, and a stray 500 sets the time that lets the service timer     *)
(* shut a connection down while the next response is on its way, behind    *)
(* which write_cb still calls the application.                             *)
(***************************************************************************)

PlainPeers ==
  "expect" \notin PeerTokens /\ ~RaisingBodies /\ ~CloselessBodies

NoExpect(k) == \A i \in 1 .. Len(k.buf) : k.buf[i] # "expect"

(* Nothing is queued, and who reads lives. *)
Idle(k) == k.wq = <<>> /\ (k.reading => Alive(k))

(* One response is queued and no time of the service timer runs; what is   *)
(* frozen behind a response of a dying connection will not be parsed.      *)
Sending(k) ==
  /\ k.wq = <<"resp">> /\ ~k.reading
  /\ k.uv \in {"open", "closing"}
  /\ k.parser # "mid"
  /\ Alive(k) => ~k.reqT /\ ~k.lastT
  /\ ~Alive(k) => ~Persistent(k) \/ k.parser = "error" \/ k.rx # "RXS_FREEZED"

Plain(k) ==
  /\ NoExpect(k)
  /\ Idle(k) \/ Sending(k)
  /\ k.parser = "mid" => ~k.lastT

Unused(k) == k.uv = "none" => k.done = 0 /\ k.calls = 0

XInv ==
  /\ TInv
  /\ pyerr = NoClient
  /\ \A c \in Clients : Plain(conn[c]) /\ Unused(conn[c])

-----------------------------------------------------------------------------
(* Writing.                                                                *)

(* A live connection that sends nothing can be given a response. *)
LEMMA WriteAlive ==
  ASSUME NEW k \in Conn, Alive(k), k.wq = <<>>, k.state # "CS_RESP_SEND"
  PROVE  /\ Writable(k)
         /\ stream_write(k).wq = <<"resp">> /\ ~stream_write(k).reading
         /\ stream_write(k).uv = k.uv /\ stream_write(k).shut = k.shut
<1>1. Writable(k)
  BY DEF Writable, NotConn, Alive
<1>2. Append(k.wq, "resp") = <<"resp">>
  OBVIOUS
<1>3. stream_write(k) = [k EXCEPT !.state = "CS_RESP_SEND", !.reading = FALSE,
                                  !.wq = <<"resp">>]
  BY <1>1, <1>2 DEF stream_write
<1> QED
  BY <1>1, <1>3 DEF Conn

(* ... and one that is not live cannot. *)
LEMMA WriteDead ==
  ASSUME NEW k \in Conn, ~Alive(k)
  PROVE  ~Writable(k) /\ stream_write(k).wq = k.wq
<1>1. ~Writable(k)
  BY DEF Writable, NotConn, Alive
<1>2. \/ stream_write(k) = [k EXCEPT !.state = "CS_DESTROY"]
      \/ stream_write(k) = [k EXCEPT !.state = "CS_DESTROY", !.reading = FALSE]
  BY <1>1 DEF stream_write
<1> QED
  BY <1>1, <1>2 DEF Conn

(* The head of a response to a live connection is its only write. *)
LEMMA HeadAlive ==
  ASSUME NEW k, NEW status \in Status, Quiet(k), Alive(k), k.wq = <<>>,
         k.state # "CS_RESP_SEND"
  PROVE  LET q == WriteHead(k, status)
         IN /\ q.wq = <<"resp">> /\ ~q.reading
            /\ q.uv = k.uv /\ q.shut = k.shut
<1> DEFINE w == stream_write(k)
           n == IF status = "stray500" THEN w.begun ELSE w.begun + 1
           q == [w EXCEPT !.begun = n, !.status = status]
<1>1. k \in Conn
  BY DEF Quiet
<1>2. /\ Writable(k) /\ w.wq = <<"resp">> /\ ~w.reading
      /\ w.uv = k.uv /\ w.shut = k.shut
  BY <1>1, WriteAlive
<1>3. w \in Conn
  BY WriteGood DEF Good
<1>4. WriteHead(k, status) = q
  BY <1>2 DEF WriteHead
<1> HIDE DEF w, n
<1>5. q.wq = w.wq /\ q.reading = w.reading /\ q.uv = w.uv /\ q.shut = w.shut
  BY <1>3 DEF Conn
<1> QED
  BY <1>2, <1>4, <1>5

(* The same for send_error. *)
LEMMA StatusAlive ==
  ASSUME NEW k, NEW status \in Status, Quiet(k), Alive(k), k.wq = <<>>,
         k.state # "CS_RESP_SEND"
  PROVE  LET q == SendStatus(k, status)
         IN /\ q.wq = <<"resp">> /\ ~q.reading
            /\ q.uv = k.uv /\ q.shut = k.shut
<1> DEFINE b == BuildEmpty(k)
<1>1. k \in Conn
  BY DEF Quiet
<1>2. /\ Quiet(b) /\ b.state = k.state /\ b.wq = k.wq
      /\ b.uv = k.uv /\ b.shut = k.shut
  <2>1. CASE k.chunked # 0
    BY <2>1 DEF BuildEmpty
  <2>2. CASE k.chunked = 0
    <3>1. b = reset_response_body(k)
      BY <2>2 DEF BuildEmpty
    <3>2. b.uv = k.uv /\ b.shut = k.shut
      BY <1>1, <3>1 DEF reset_response_body, Conn
    <3> QED
      BY <1>1, <3>1, <3>2, ResetFollows, ResetSilent, FollowsQuiet DEF Follows
  <2> QED
    BY <2>1, <2>2
<1> HIDE DEF b
<1>3. Alive(b)
  BY <1>2 DEF Alive
<1> QED
  BY <1>2, <1>3, HeadAlive DEF SendStatus, b

(* ... and nothing is written to one that is not live. *)
LEMMA StatusDead ==
  ASSUME NEW k, NEW status \in Status, Quiet(k), ~Alive(k)
  PROVE  SendStatus(k, status).wq = k.wq
<1> DEFINE b == BuildEmpty(k)
<1>1. k \in Conn
  BY DEF Quiet
<1>2. b \in Conn /\ b.wq = k.wq /\ ~Alive(b)
  BY <1>1, ResetFollows, ResetSilent DEF BuildEmpty, Follows, Alive
<1> HIDE DEF b
<1> QED
  BY <1>2, WriteDead DEF SendStatus, WriteHead, b

(* What read_cb ends with: as it was, or ended. *)
LEMMA TakeActionEnds ==
  ASSUME NEW k \in Conn, NEW act \in Action
  PROVE  /\ act = "CA_OK" => TakeAction(k, act) = k
         /\ act # "CA_OK" => /\ TakeAction(k, act).wq = k.wq
                             /\ ~TakeAction(k, act).reading
                             /\ ~Alive(TakeAction(k, act))
<1> DEFINE s == stream_read_stop(k)
           c == close_connection(s)
           d == shutdown_connection(s)
<1>1. /\ s \in Conn /\ s.wq = k.wq /\ ~s.reading
      /\ ~Alive(c) /\ ~Alive(d) /\ c.wq = k.wq /\ d.wq = k.wq
  BY StopFollows, CloseFollows, ShutdownFollows DEF Follows
<1> HIDE DEF s
<1>2. ~c.reading
  BY <1>1 DEF close_connection, Conn
<1>3. ~d.reading
  BY <1>1, <1>2 DEF shutdown_connection, Conn
<1> QED
  BY <1>1, <1>2, <1>3 DEF TakeAction, Action, s

-----------------------------------------------------------------------------
(* Reading.                                                                *)

(* What an answer to a complete message leaves of a live connection. *)
Ready(k) ==
  /\ Quiet(k) /\ Alive(k) /\ k.wq = <<>>
  /\ k.parser = "idle" /\ ~k.reqT /\ ~k.lastT

(* An error answer leaves the connection sending. *)
LEMMA ErrorSends ==
  ASSUME NEW k, NEW err \in Status \ {"none"}, Ready(k),
         k.state # "CS_RESP_SEND"
  PROVE  Sending(ReadFin(k, err, "CA_OK", FALSE))
<1> DEFINE s == SendStatus(k, err)
           a == IF Persistent(k) THEN "CA_OK" ELSE "CA_SHUTDOWN"
           q == TakeAction(s, a)
<1>1. s.wq = <<"resp">> /\ ~s.reading /\ s.uv = k.uv /\ s.shut = k.shut
  BY StatusAlive DEF Ready
<1>2. Speaks(s, k) /\ s \in Conn
  BY SendStatusSpeaks DEF Ready, Speaks, Same
<1>3. ReadFin(k, err, "CA_OK", FALSE) = q
  BY DEF ReadFin
<1>4. a \in Action
  BY DEF Action
<1> HIDE DEF s
<1>5. Persistent(k) => q = s
  BY <1>2, TakeActionEnds DEF Action
<1>6. ~Persistent(k) => q.wq = s.wq /\ ~q.reading /\ ~Alive(q)
  BY <1>2, TakeActionEnds DEF Action
<1>7. Silent(q, s)
  BY <1>2, <1>4, TakeActionSilent
<1> HIDE DEF q, a
<1>8. Sending(q)
  <2>1. /\ q.parser = k.parser /\ q.keep = k.keep
        /\ q.reqT = k.reqT /\ q.lastT = k.lastT
        /\ q.uv \in {"open", "closing"}
    BY <1>1, <1>2, <1>7 DEF Silent, Speaks, Same, Ready, Alive
  <2>2. CASE Persistent(k)
    BY <1>1, <1>5, <2>1, <2>2 DEF Sending, Ready, Alive
  <2>3. CASE ~Persistent(k)
    BY <1>1, <1>6, <2>1, <2>3 DEF Sending, Ready, Persistent
  <2> QED
    BY <2>2, <2>3
<1> QED
  BY <1>3, <1>8

(* A call of the application leaves the connection sending, whatever it    *)
(* replies.                                                                *)
LEMMA ApplicationSends ==
  ASSUME NEW k, NEW r \in Reply, Ready(k)
  PROVE  Sending(RunApplication(k, r, FALSE))
<1> DEFINE a == [k EXCEPT !.state = "CS_RESP_BILD", !.calls = k.calls + 1]
           ch == IF r.kind = "chunked" THEN 1 ELSE 0
           b == [a EXCEPT !.pre = r.pre, !.total = r.total, !.chunked = ch,
                          !.iter = TRUE]
           h == WriteHead(b, "200")
           act == IF Writable(b) THEN "CA_OK" ELSE "CA_SHUTDOWN"
<1>1. k \in Conn /\ k.calls + 1 \in Nat
  BY DEF Ready, Quiet, Conn
<1>2. /\ a \in Conn /\ a.wq = k.wq /\ a.uv = k.uv /\ a.shut = k.shut
      /\ a.parser = k.parser /\ a.reqT = k.reqT /\ a.lastT = k.lastT
      /\ a.state = "CS_RESP_BILD"
  BY <1>1 DEF Conn, ClientState
<1>3. r.pre \in Nat /\ r.total \in Nat
  BY BoundsAssumption DEF Reply
<1>4. ch \in 0 .. 2
  OBVIOUS
<1>5. RunApplication(k, r, FALSE)
        = IF r.kind = "fail" THEN ReadFin(a, "500", "CA_OK", FALSE)
          ELSE ReadFin(h, "none", act, FALSE)
  BY DEF RunApplication
<1> HIDE DEF a, ch
<1>6. b \in Conn
  BY <1>2, <1>3, <1>4 DEF Conn
<1>7. /\ b.wq = a.wq /\ b.uv = a.uv /\ b.shut = a.shut /\ b.state = a.state
      /\ b.parser = a.parser /\ b.reqT = a.reqT /\ b.lastT = a.lastT
  BY <1>2 DEF Conn
<1> HIDE DEF b
<1>8. Ready(a) /\ Ready(b)
  BY <1>2, <1>6, <1>7, FollowsQuiet DEF Ready, Follows, Alive
<1>9. Sending(ReadFin(a, "500", "CA_OK", FALSE))
  BY <1>2, <1>8, ErrorSends DEF Status
<1>10. h.wq = <<"resp">> /\ ~h.reading /\ h.uv = b.uv /\ h.shut = b.shut
  BY <1>2, <1>7, <1>8, HeadAlive DEF Ready, Status
<1>13. Speaks(h, b)
  BY <1>8, WriteHeadSpeaks DEF Ready, Status
<1>14. act = "CA_OK"
  <2>1. Alive(b) /\ b.wq = <<>> /\ b.state # "CS_RESP_SEND"
    BY <1>2, <1>7, <1>8 DEF Ready
  <2> QED
    BY <1>6, <2>1, WriteAlive
<1> HIDE DEF h, act
<1>11. ReadFin(h, "none", act, FALSE) = h
  BY <1>14 DEF ReadFin, TakeAction
<1>12. Sending(h)
  BY <1>8, <1>10, <1>13 DEF Sending, Ready, Speaks, Same, Alive
<1> QED
  BY <1>5, <1>9, <1>11, <1>12

-----------------------------------------------------------------------------
(* Parsing when no peer asks for 100-continue. *)

(* llhttp_execute writes nothing when no 100-continue is asked for. *)
LEMMA FeedKeeps ==
  ASSUME NEW k, NEW e, Quiet(k), NoExpect(k), EndsAt(k, e)
  PROVE  Feed(k, e).wq = k.wq
<1> DEFINE p == [k EXCEPT !.state = "CS_REQ_PARSE"]
           z == reset_response_body(p)
           b == [z EXCEPT !.reqT = TRUE, !.lastT = FALSE, !.parser = "mid"]
<1>1. k \in Conn
  BY DEF Quiet
<1>2. p \in Conn /\ p.wq = k.wq
  BY <1>1 DEF Conn, ClientState
<1> HIDE DEF p
<1>3. z \in Conn /\ z.wq = p.wq
  BY <1>2, ResetFollows DEF Follows
<1> HIDE DEF z
<1>4. b.wq = z.wq
  BY <1>3 DEF Conn
<1>5. ~ExpectsContinue(k, e)
  <2>1. k.parsed \in Nat /\ Len(k.buf) \in Nat /\ e \in k.parsed + 1 .. Len(k.buf)
    BY <1>1 DEF Conn, EndsAt, Unparsed
  <2>2. \A i \in k.parsed + 1 .. e : i \in 1 .. Len(k.buf)
    BY <2>1
  <2> QED
    BY <2>2 DEF ExpectsContinue, Unparsed, NoExpect
<1>6. Feed(k, e) = IF k.parser = "idle" THEN b ELSE p
  BY <1>5 DEF Feed, on_message_begin, p, z
<1> QED
  BY <1>2, <1>3, <1>4, <1>6

(* What parsing leaves of a live connection: it waits for more, or it      *)
(* sends the one answer.                                                   *)
Answering(q, k) ==
  /\ Plain(q) /\ q.done = k.done
  /\ \/ Idle(q) /\ Alive(q) /\ q.calls = k.calls
     \/ Sending(q) /\ (q.calls = k.calls \/ q.calls = k.calls + 1)

(* parse_data on a live connection ends in exactly one of these. *)
LEMMA ParseAlive ==
  ASSUME NEW k, NEW e, NEW r \in Reply, Parsable(k), EndsAt(k, e),
         NoExpect(k), Alive(k), k.wq = <<>>, k.parser = "mid" => ~k.lastT
  PROVE  Answering(Parse(k, e, r, FALSE), k)
<1> DEFINE p == Feed(k, e)
           x == [p EXCEPT !.parser = "error"]
           i == Incomplete(p, e)
           m == on_message_complete(p, e)
           z == Paused(m, e)
<1>1. k \in Conn /\ Quiet(k) /\ k.parser # "error"
  BY DEF Parsable, Quiet, Answered
<1>2. k.buf[e] \in Token
  BY <1>1 DEF Conn, EndsAt, Unparsed
<1>3. Quiet(p) /\ Within(p, e) /\ p.wq = <<>>
  BY <1>1, FeedQuiet, FeedKeeps DEF EndsAt, Within, Unparsed
<1>4. /\ p \in Conn /\ p.buf = k.buf
      /\ p.calls = k.calls /\ p.done = k.done
      /\ p.uv = k.uv /\ p.shut = k.shut
      /\ p.rx = k.rx /\ p.reading = k.reading
      /\ p.state # "CS_RESP_SEND"
      /\ p.parser = "mid" /\ p.lastT = FALSE
  <2>1. k.lastT \in BOOLEAN /\ k.parser \in {"idle", "mid"}
    BY <1>1 DEF Conn
  <2> QED
    BY ZenonT(60), <1>1, <2>1, FeedMoves
<1>5. Alive(p) /\ p.uv = "open"
  BY <1>4 DEF Alive
<1> HIDE DEF p
<1>6. CASE ParseFails(k, e)
  <2> DEFINE s == SendStatus(x, "400")
             f == TakeAction(s, "CA_SHUTDOWN")
  <2>1. /\ x \in Conn /\ x.wq = p.wq /\ x.uv = p.uv /\ x.shut = p.shut
        /\ x.parser = "error" /\ x.state = p.state /\ x.buf = p.buf
        /\ x.calls = p.calls /\ x.done = p.done
    BY <1>4 DEF Conn
  <2>2. Parse(k, e, r, FALSE) = f
    BY <1>6 DEF Parse, ReadFin, p
  <2> HIDE DEF x
  <2>3. Quiet(x) /\ Alive(x)
    BY <1>3, <1>5, <2>1, FollowsQuiet DEF Follows, Alive
  <2>4. Speaks(s, x) /\ s \in Conn
    BY <2>3, SendStatusSpeaks DEF Status, Speaks, Same
  <2>5. s.wq = <<"resp">>
    BY <1>3, <1>4, <2>1, <2>3, StatusAlive DEF Status
  <2> HIDE DEF s
  <2>6. Silent(f, s)
    BY <2>4, TakeActionSilent DEF Action
  <2>7. f.wq = s.wq /\ ~f.reading /\ ~Alive(f)
    BY <2>4, TakeActionEnds DEF Action
  <2> HIDE DEF f
  <2>8. /\ f.parser = "error" /\ f.uv \in {"open", "closing"}
        /\ f.buf = k.buf /\ f.calls = k.calls /\ f.done = k.done
    BY <1>4, <1>5, <2>1, <2>4, <2>6 DEF Speaks, Silent, Same
  <2>9. Sending(f) /\ NoExpect(f)
    BY <2>5, <2>7, <2>8 DEF Sending, NoExpect
  <2> QED
    BY <2>2, <2>8, <2>9 DEF Answering, Plain, Sending
<1>7. CASE ~ParseFails(k, e) /\ k.buf[e] \notin Stops
  <2>1. Parse(k, e, r, FALSE) = i
    BY <1>7 DEF Parse, Stops, ReadFin, TakeAction, p
  <2>2. p.reading \/ p.rx = "RXS_FREEZED" \/ ~Alive(p)
    BY <1>4, <1>5 DEF Parsable
  <2>3. Consumed(i, p, e) /\ i.wq = <<>> /\ i.uv = "open" /\ i.shut = p.shut
    BY <1>3, <1>4, <1>5, <2>2, IncompleteMoves
  <2> HIDE DEF i
  <2>4. Alive(i) /\ i.buf = k.buf /\ i.calls = k.calls /\ i.done = k.done
        /\ ~i.lastT
    BY <1>4, <1>5, <2>3 DEF Consumed, Alive
  <2> QED
    BY <2>1, <2>3, <2>4 DEF Answering, Plain, Idle, NoExpect
<1>8. CASE ~ParseFails(k, e) /\ k.buf[e] \in Stops \ {"bad"}
  <2> DEFINE g == ReadFin(z, "417", "CA_OK", FALSE)
             h == RunApplication(z, r, FALSE)
             f == Parse(k, e, r, FALSE)
  <2>1. Quiet(m) /\ Within(m, e) /\ m.state # "CS_RESP_SEND"
    BY <1>3, <1>4, CompleteQuiet, CompleteMoves
  <2>2. /\ m \in Conn /\ m.buf = k.buf /\ m.calls = k.calls
        /\ m.done = k.done /\ m.uv = p.uv /\ m.shut = p.shut
        /\ m.parser = "idle" /\ ~m.reqT /\ ~m.lastT
    BY <1>4, CompleteMoves
  <2>3. m.wq = <<>>
    BY <1>3, <1>4 DEF on_message_complete, Conn
  <2> HIDE DEF m
  <2>4. /\ Consumed(z, m, e) /\ z.state # "CS_RESP_SEND" /\ z.wq = m.wq
        /\ z.uv = "open" /\ z.shut = m.shut
    BY <1>5, <2>1, <2>2, PausedMoves DEF Quiet
  <2>5. Quiet(z) /\ z \in Conn
    BY <2>1, PausedQuiet DEF Quiet
  <2> HIDE DEF z
  <2>6. Ready(z)
    BY <1>5, <2>2, <2>3, <2>4, <2>5 DEF Ready, Consumed, Alive
  <2>7. Sending(g) /\ Speaks(g, z)
    BY <2>4, <2>5, <2>6, ErrorSends, ReadFinSpeaks DEF Status, Action
  <2>8. Sending(h) /\ Called(h, z)
    BY <2>5, <2>6, ApplicationSends, RunApplicationSpeaks
  <2>9. f = g \/ f = h
    BY <1>2, <1>8 DEF Parse, Stops, z, m, p
  <2> HIDE DEF f, g, h
  <2>10. /\ Sending(f) /\ f.buf = k.buf /\ f.done = k.done
         /\ f.calls = k.calls \/ f.calls = k.calls + 1
    <3>1. CASE f = g
      BY <2>2, <2>4, <2>7, <3>1 DEF Consumed, Speaks, Same
    <3>2. CASE f = h
      BY <2>2, <2>4, <2>8, <3>2 DEF Consumed, Called
    <3> QED
      BY <2>9, <3>1, <3>2
  <2>11. Plain(f)
    BY <2>10 DEF Plain, NoExpect, Sending
  <2> QED
    BY <2>10, <2>11 DEF Answering, f
<1> QED
  BY <1>2, <1>6, <1>7, <1>8 DEF ParseFails

(* Behind a parse error nothing is parsed and nothing can be sent. *)
LEMMA ParseDead ==
  ASSUME NEW k, NEW e, NEW r, Quiet(k), EndsAt(k, e), NoExpect(k),
         ~Alive(k), k.parser = "error", k.wq = <<>>
  PROVE  LET q == Parse(k, e, r, FALSE)
         IN /\ Same(q, k) /\ q.wq = <<>> /\ ~q.reading /\ ~Alive(q)
<1> DEFINE p == Feed(k, e)
           x == [p EXCEPT !.parser = "error"]
           s == SendStatus(x, "400")
           f == TakeAction(s, "CA_SHUTDOWN")
<1>1. k \in Conn
  BY DEF Quiet
<1>2. Quiet(p) /\ p \in Conn /\ p.wq = <<>>
  BY FeedQuiet, FeedKeeps DEF Quiet
<1>3. Feed(k, e) = [k EXCEPT !.state = "CS_REQ_PARSE"]
  BY DEF Feed
<1>4. Same(p, k) /\ ~Alive(p)
  BY <1>1, <1>2, <1>3 DEF Same, Conn, Alive
<1> HIDE DEF p
<1>5. x = p
  BY <1>2, <1>4 DEF Conn, Same
<1> HIDE DEF x
<1>6. Speaks(s, p) /\ s.wq = <<>> /\ s \in Conn
  BY ZenonT(60), <1>2, <1>4, <1>5, SendStatusSpeaks, StatusDead DEF Status, Speaks, Same
<1>7. Parse(k, e, r, FALSE) = f
  BY DEF Parse, ParseFails, ReadFin, p, x
<1> HIDE DEF s
<1>8. Silent(f, s) /\ f.wq = s.wq /\ ~f.reading /\ ~Alive(f)
  BY <1>6, TakeActionSilent, TakeActionEnds DEF Action
<1> HIDE DEF f
<1> QED
  BY ZenonT(60), <1>4, <1>6, <1>7, <1>8 DEF Speaks, Silent, Same

-----------------------------------------------------------------------------
(* Completion of a response write: write_cb finds nothing queued.          *)
Back(k) ==
  /\ Quiet(k) /\ Books(k) /\ NoExpect(k)
  /\ k.wq = <<>> /\ ~k.reading
  /\ k.uv \in {"open", "closing"}
  /\ k.parser # "mid" /\ k.state # "CS_RESP_SEND"
  /\ ~Alive(k) => ~Persistent(k) \/ k.parser = "error" \/ k.rx # "RXS_FREEZED"

(* The connection ends. *)
Ended(q, k) ==
  /\ NoExpect(q)
  /\ q.wq = <<>> /\ ~q.reading /\ ~Alive(q)
  /\ q.uv \in {"open", "closing"} /\ q.parser # "mid"
  /\ q.calls = k.calls

(* The response goes on. *)
Carried(q, k) ==
  /\ NoExpect(q) /\ Sending(q)
  /\ q.calls = k.calls /\ q.done = k.done

(* The response is out: the connection waits for the next request, is shut *)
(* down, or has begun to answer the request behind it.                     *)
Over(q, k) ==
  /\ NoExpect(q) /\ q.done = k.done + 1
  /\ q.parser = "mid" => ~q.lastT
  /\ \/ /\ q.wq = <<>> /\ q.calls = k.calls
        /\ q.uv \in {"open", "closing"} /\ (q.reading => q.uv = "open")
        /\ Alive(q) => Alive(k)
     \/ /\ Alive(k) /\ Sending(q)
        /\ q.calls = k.calls \/ q.calls = k.calls + 1

(* close_connection ends the exchange without serving it. *)
LEMMA CloseEnds ==
  ASSUME NEW k, Back(k)
  PROVE  /\ Ended(close_connection(k), k)
         /\ close_connection(k).done = k.done
<1> DEFINE q == close_connection(k)
<1>1. k \in Conn
  BY DEF Back, Quiet
<1>2. Silent(q, k) /\ q.wq = k.wq /\ ~Alive(q)
  BY <1>1, CloseSilent, CloseFollows DEF Follows
<1>3. ~q.reading
  BY <1>1 DEF close_connection, Conn, Back
<1> HIDE DEF q
<1>4. Ended(q, k) /\ q.done = k.done
  BY <1>2, <1>3 DEF Ended, Back, Silent, Same, NoExpect
<1> QED
  BY <1>4 DEF q

(* One more chunk carries the exchange on, or ends it with the             *)
(* connection.                                                             *)
LEMMA WriteMoreCarries ==
  ASSUME NEW k, Back(k), Alive(k) => ~k.reqT /\ ~k.lastT
  PROVE  LET q == WriteMore(k)
         IN /\ Alive(k) => Carried(q, k)
            /\ ~Alive(k) => Ended(q, k) /\ q.done = k.done
<1> DEFINE w == stream_write(k)
<1>1. k \in Conn /\ Quiet(k)
  BY DEF Back, Quiet
<1>2. Silent(w, k) /\ w \in Conn
  BY <1>1, WriteSilent DEF Silent, Same
<1>3. CASE Alive(k)
  <2>1. /\ Writable(k) /\ w.wq = <<"resp">> /\ ~w.reading
        /\ w.uv = k.uv /\ w.shut = k.shut
    BY <1>1, <1>3, WriteAlive DEF Back
  <2>2. WriteMore(k) = w
    BY <2>1 DEF WriteMore
  <2> HIDE DEF w
  <2>3. Carried(w, k)
    BY <1>2, <1>3, <2>1
    DEF Carried, Sending, Silent, Same, Back, NoExpect, Alive
  <2> QED
    BY <1>3, <2>2, <2>3
<1>4. CASE ~Alive(k)
  <2>1. ~Writable(k) /\ w.wq = k.wq
    BY <1>1, <1>4, WriteDead
  <2>2. ~w.reading
    BY <1>1, <2>1 DEF stream_write, Conn, Back
  <2>3. WriteMore(k) = close_connection(w)
    BY <2>1 DEF WriteMore
  <2>4. w.state = "CS_DESTROY"
    BY <1>1, <2>1 DEF stream_write, Conn
  <2> HIDE DEF w
  <2> DEFINE q == close_connection(w)
  <2>5. Silent(q, w) /\ q.wq = w.wq /\ ~Alive(q)
    BY <1>2, CloseSilent, CloseFollows DEF Follows
  <2>6. ~q.reading
    BY <1>2, <2>2 DEF close_connection, Conn
  <2> HIDE DEF q
  <2>7. Ended(q, k) /\ q.done = k.done
    BY <1>2, <2>1, <2>5, <2>6 DEF Ended, Back, Silent, Same, NoExpect
  <2> QED
    BY <1>4, <2>3, <2>7 DEF q
<1> QED
  BY <1>3, <1>4

(* The end of a response is the end of its exchange; a pipelined request   *)
(* may open the next one in the same callback.                             *)
LEMMA FinishOver ==
  ASSUME NEW k, NEW e, NEW r \in Reply, Back(k), Resumes(k) => EndsAt(k, e)
  PROVE  Over(FinishResponse(k, e, r, FALSE), k)
<1> DEFINE d == [k EXCEPT !.done = k.done + 1]
           z == reset_response_body(d)
           q == [z EXCEPT !.state = "CS_RESP_END"]
           f == FinishResponse(k, e, r, FALSE)
<1> SUFFICES Over(f, k)
  OBVIOUS
<1>1. k \in Conn /\ k.done + 1 \in Nat
  BY DEF Back, Quiet, Conn
<1>2. /\ d \in Conn /\ d.wq = k.wq /\ d.uv = k.uv /\ d.shut = k.shut
      /\ d.buf = k.buf /\ d.parsed = k.parsed /\ d.rx = k.rx
      /\ d.parser = k.parser /\ d.recvd = k.recvd /\ d.ppos = k.ppos
      /\ d.asked = k.asked /\ d.begun = k.begun /\ d.keep = k.keep
      /\ d.calls = k.calls /\ d.done = k.done + 1 /\ d.reading = k.reading
      /\ d.state = k.state
  BY <1>1 DEF Conn
<1>3. f = CASE ~Persistent(k) -> close_connection(d)
            [] Resumes(k)     -> Parse(q, e, r, FALSE)
            [] OTHER          -> stream_read_start(q)
  BY DEF FinishResponse
<1> HIDE DEF d
<1>4. Back(d)
  <2>1. Quiet(d)
    BY <1>2, FollowsQuiet DEF Back, Follows
  <2>2. Books(d)
    BY <1>2 DEF Back, Books, Counted, Drained, Answered, Alive
  <2> QED
    BY <1>2, <2>1, <2>2 DEF Back, NoExpect, Alive, Persistent
<1>5. /\ Silent(z, d) /\ z \in Conn /\ z.uv = d.uv /\ z.shut = d.shut
      /\ z.wq = d.wq /\ z.reading = d.reading
  <2>1. z.uv = d.uv /\ z.shut = d.shut
    BY <1>2 DEF reset_response_body, Conn
  <2> QED
    BY <1>2, <2>1, ResetSilent, ResetFollows DEF Follows
<1> HIDE DEF z
<1>6. /\ q \in Conn /\ q.wq = z.wq /\ q.uv = z.uv /\ q.shut = z.shut
      /\ q.state = "CS_RESP_END" /\ Silent(q, z) /\ q.reading = z.reading
  BY <1>5 DEF Conn, ClientState, Silent, Same
<1> HIDE DEF q
<1>7. Silent(q, d)
  BY <1>5, <1>6, SilentTrans
<1>8. Quiet(q) /\ Books(q)
  BY <1>4, <1>5, <1>6, <1>7, SilentBooks, FollowsQuiet DEF Back, Follows
<1>9. /\ q.wq = <<>> /\ ~q.reading /\ q.uv = k.uv /\ q.shut = k.shut
      /\ q.buf = k.buf /\ q.parsed = k.parsed /\ q.rx = k.rx
      /\ q.parser = k.parser /\ q.keep = k.keep
      /\ q.calls = k.calls /\ q.done = k.done + 1
  BY <1>2, <1>5, <1>6, <1>7 DEF Back, Silent, Same
<1>10. NoExpect(q)
  BY <1>9 DEF NoExpect, Back
<1> HIDE DEF f
<1>11. CASE ~Persistent(k)
  <2>1. Ended(close_connection(d), d) /\ close_connection(d).done = d.done
    BY <1>4, CloseEnds
  <2>2. f = close_connection(d)
    BY <1>3, <1>11 DEF Resumes
  <2> QED
    BY <1>2, <2>1, <2>2 DEF Over, Ended
<1>12. CASE Persistent(k) /\ Resumes(k)
  <2>1. EndsAt(q, e) /\ q.rx = "RXS_FREEZED"
    BY <1>9, <1>12, EndsAtSame DEF Resumes
  <2>2. f = Parse(q, e, r, FALSE)
    BY <1>3, <1>12
  <2>3. CASE Alive(k)
    <3>1. Parsable(q) /\ Alive(q)
      BY <1>8, <1>9, <2>1, <2>3 DEF Parsable, Books, Alive
    <3>2. q.parser # "mid"
      BY <1>9 DEF Back
    <3>3. Answering(f, q)
      BY <1>9, <1>10, <2>1, <2>2, <3>1, <3>2, ParseAlive
    <3> QED
      BY <1>9, <2>3, <3>3 DEF Answering, Over, Plain, Idle, Alive
  <2>4. CASE ~Alive(k)
    <3>1. ~Alive(q) /\ q.parser = "error"
      BY <1>9, <1>12, <2>4 DEF Back, Alive, Resumes
    <3>2. Same(f, q) /\ f.wq = <<>> /\ ~f.reading /\ ~Alive(f)
      BY <1>8, <1>9, <1>10, <2>1, <2>2, <3>1, ParseDead
    <3> QED
      BY <1>9, <1>10, <3>1, <3>2 DEF Over, Same, Back, NoExpect
  <2> QED
    BY <2>3, <2>4
<1>13. CASE Persistent(k) /\ ~Resumes(k)
  <2> DEFINE s == stream_read_start(q)
  <2>1. f = s
    BY <1>3, <1>13
  <2>2. Silent(s, q) /\ s.wq = q.wq
    BY <1>6, StartSilent, StartFollows DEF Follows
  <2>3. s.reading => s.uv = "open"
    BY <1>6, <1>9 DEF stream_read_start, close_connection, Conn
  <2> HIDE DEF s
  <2> QED
    BY <1>9, <1>10, <2>1, <2>2, <2>3
    DEF Over, Silent, Same, Back, NoExpect, Alive
<1> QED
  BY <1>11, <1>12, <1>13

(* What write_cb ends with. *)
WriteCbEnds(w, k, n, e, r, py) ==
  LET s == Sent(k)
      b == [s EXCEPT !.state = "CS_RESP_BILD"]
      l == [s EXCEPT !.lastT = TRUE]
      m == [b EXCEPT !.pre = n.size]
      o == [b EXCEPT !.chunked = 2]
  IN \/ w = close_connection(s)
     \/ LastWritten(s) /\ w = FinishResponse(l, e, r, py)
     \/ w = close_connection(b)
     \/ w = WriteMore(m)
     \/ w = WriteMore(o)
     \/ /\ Pulls(k) /\ n.kind = "end" /\ k.chunked = 0
        /\ w = FinishResponse(b, e, r, py)

(* The branches of write_cb, in the order of the code. *)
LEMMA WriteCbCases ==
  ASSUME NEW k \in Conn, NEW n \in Pull, NEW e, NEW r, NEW py
  PROVE  WriteCbEnds(write_cb(k, n, e, r, py), k, n, e, r, py)
<1> DEFINE s == Sent(k)
           b == [s EXCEPT !.state = "CS_RESP_BILD"]
           l == [s EXCEPT !.lastT = TRUE]
           m == [b EXCEPT !.pre = n.size]
           o == [b EXCEPT !.chunked = 2]
<1>1. n.kind \in {"chunk", "end", "raise", "notBytes"}
  BY DEF Pull
<1>2. k.chunked \in {0, 1, 2}
  BY DEF Conn
<1>3. k.chunked = 2 => LastWritten(s)
  BY DEF LastWritten, Sent, Conn
<1>4. ~OverLength(s) /\ ~LastWritten(s) <=> Pulls(k)
  BY DEF Pulls
<1> HIDE DEF s, b, l, m, o
<1>5. CASE Pulls(k)
  BY <1>1, <1>2, <1>3, <1>4, <1>5 DEF WriteCbEnds, write_cb, s, b, l, m, o
<1>6. CASE ~Pulls(k)
  BY <1>4, <1>6 DEF WriteCbEnds, write_cb, s, b, l, m, o
<1> QED
  BY <1>5, <1>6

(* Each of them ends, carries on or finishes the exchange. *)
LEMMA WriteCbOutcome ==
  ASSUME NEW k, NEW n \in Pull, NEW e, NEW r \in Reply,
         Back([k EXCEPT !.state = "CS_RESP_SENDED"]), k \in Conn,
         Alive(k) => ~k.reqT /\ ~k.lastT,
         Resumes(k) /\ Exhausted(k, n) => EndsAt(k, e)
  PROVE  LET q == write_cb(k, n, e, r, FALSE)
         IN \/ Ended(q, k) /\ q.done = k.done
            \/ Alive(k) /\ Carried(q, k)
            \/ Over(q, k)
<1> DEFINE s == Sent(k)
           b == [s EXCEPT !.state = "CS_RESP_BILD"]
           l == [s EXCEPT !.lastT = TRUE]
           m == [b EXCEPT !.pre = n.size]
           o == [b EXCEPT !.chunked = 2]
           w == write_cb(k, n, e, r, FALSE)
           v == [k EXCEPT !.state = "CS_RESP_SENDED"]
           Kept(q) == /\ q \in Conn /\ q.wq = v.wq /\ q.uv = v.uv
                      /\ q.shut = v.shut /\ q.buf = v.buf
                      /\ q.parsed = v.parsed /\ q.rx = v.rx
                      /\ q.parser = v.parser /\ q.recvd = v.recvd
                      /\ q.ppos = v.ppos /\ q.asked = v.asked
                      /\ q.begun = v.begun /\ q.keep = v.keep
                      /\ q.calls = v.calls /\ q.done = v.done
                      /\ q.reading = v.reading
                      /\ q.state # "CS_RESP_SEND"
<1>1. k \in Conn /\ k.written + k.pre \in Nat /\ 0 \in Nat
  BY DEF Conn
<1>0. /\ v \in Conn /\ v.wq = k.wq /\ v.uv = k.uv /\ v.shut = k.shut
      /\ v.buf = k.buf /\ v.parsed = k.parsed /\ v.rx = k.rx
      /\ v.keep = k.keep /\ v.calls = k.calls /\ v.done = k.done
      /\ v.written = k.written /\ v.pre = k.pre /\ v.chunked = k.chunked
      /\ v.reqT = k.reqT /\ v.lastT = k.lastT /\ v.state = "CS_RESP_SENDED"
  BY <1>1 DEF Conn, ClientState
<1>2. Kept(s) /\ s.chunked = k.chunked /\ s.reqT = k.reqT /\ s.lastT = k.lastT
  <2>1. s = [v EXCEPT !.written = v.written + v.pre, !.pre = 0]
    BY <1>0, <1>1 DEF Sent, Conn
  <2>2. v.written + v.pre \in Nat
    BY <1>0, <1>1
  <2> HIDE DEF v, s
  <2> QED
    BY <1>0, <1>1, <2>1, <2>2 DEF Conn
<1>3. n.size \in Nat
  BY BoundsAssumption DEF Pull
<1>4. \/ w = close_connection(s)
      \/ LastWritten(s) /\ w = FinishResponse(l, e, r, FALSE)
      \/ w = close_connection(b)
      \/ w = WriteMore(m)
      \/ w = WriteMore(o)
      \/ /\ Pulls(k) /\ n.kind = "end" /\ k.chunked = 0
         /\ w = FinishResponse(b, e, r, FALSE)
  <2>1. WriteCbEnds(w, k, n, e, r, FALSE)
    BY <1>1, WriteCbCases
  <2> QED
    BY <2>1 DEF WriteCbEnds
<1>5. LastWritten(s) => Exhausted(k, n)
  BY DEF Exhausted
<1>6. Pulls(k) /\ n.kind = "end" /\ k.chunked = 0 => Exhausted(k, n)
  BY DEF Exhausted, Pulls
<1> HIDE DEF s, v
<1>7. Kept(b) /\ Kept(l) /\ b.reqT = k.reqT /\ b.lastT = k.lastT
  BY ZenonT(60), <1>2 DEF Conn, ClientState
<1> HIDE DEF b, l
<1>8. Kept(m) /\ m.reqT = k.reqT /\ m.lastT = k.lastT
  BY <1>3, <1>7 DEF Conn
<1>9. Kept(o) /\ o.reqT = k.reqT /\ o.lastT = k.lastT
  <2>1. 2 \in 0 .. 2
    OBVIOUS
  <2> QED
    BY <1>7, <2>1 DEF Conn
<1> HIDE DEF m, o
<1>10. ASSUME NEW q, Kept(q)
       PROVE  /\ Back(q) /\ q.calls = k.calls /\ q.done = k.done
              /\ q.uv = k.uv /\ q.shut = k.shut
              /\ q.buf = k.buf /\ q.parsed = k.parsed
              /\ q.rx = k.rx /\ q.keep = k.keep
  <2>0. Back(v)
    BY DEF v
  <2>1. Quiet(q)
    BY <1>10, <2>0, FollowsQuiet DEF Follows, Back
  <2>2. Books(q)
    BY <1>10, <2>0 DEF Back, Books, Counted, Drained, Answered, Alive
  <2>3. NoExpect(q)
    BY <1>10, <2>0 DEF Back, NoExpect
  <2> QED
    BY <1>0, <1>10, <2>0, <2>1, <2>2, <2>3 DEF Back, Alive, Persistent
<1> HIDE DEF Kept
<1>11. ASSUME NEW q, Kept(q), Exhausted(k, n)
       PROVE  Over(FinishResponse(q, e, r, FALSE), k)
  <2>1. /\ Back(q) /\ q.calls = k.calls /\ q.done = k.done
        /\ q.uv = k.uv /\ q.shut = k.shut
        /\ q.buf = k.buf /\ q.parsed = k.parsed /\ q.rx = k.rx /\ q.keep = k.keep
    BY <1>10, <1>11
  <2>2. Resumes(q) => EndsAt(q, e)
    BY <1>11, <2>1, EndsAtSame DEF Resumes, Persistent
  <2>3. Over(FinishResponse(q, e, r, FALSE), q)
    BY <2>1, <2>2, FinishOver
  <2> QED
    BY <2>1, <2>3 DEF Over, Alive
<1>12. ASSUME NEW q, Kept(q)
       PROVE  /\ Ended(close_connection(q), k)
              /\ close_connection(q).done = k.done
  BY <1>10, <1>12, CloseEnds DEF Ended
<1>13. ASSUME NEW q, Kept(q), q.reqT = k.reqT, q.lastT = k.lastT
       PROVE  \/ Ended(WriteMore(q), k) /\ WriteMore(q).done = k.done
              \/ Alive(k) /\ Carried(WriteMore(q), k)
  <2>1. /\ Back(q) /\ q.calls = k.calls /\ q.done = k.done
        /\ q.uv = k.uv /\ q.shut = k.shut
    BY <1>10, <1>13
  <2>2. Alive(q) <=> Alive(k)
    BY <2>1 DEF Alive
  <2>3. /\ Alive(q) => Carried(WriteMore(q), q)
        /\ ~Alive(q) => Ended(WriteMore(q), q) /\ WriteMore(q).done = q.done
    BY <1>13, <2>1, <2>2, WriteMoreCarries
  <2> QED
    BY <2>1, <2>2, <2>3 DEF Ended, Carried
<1> HIDE DEF w
<1>14. \/ Ended(w, k) /\ w.done = k.done
       \/ Alive(k) /\ Carried(w, k)
       \/ Over(w, k)
  <2>1. CASE w = close_connection(s) \/ w = close_connection(b)
    BY <1>2, <1>7, <1>12, <2>1
  <2>2. CASE LastWritten(s) /\ w = FinishResponse(l, e, r, FALSE)
    BY <1>5, <1>7, <1>11, <2>2
  <2>3. CASE w = WriteMore(m)
    BY <1>8, <1>13, <2>3
  <2>4. CASE w = WriteMore(o)
    BY <1>9, <1>13, <2>4
  <2>5. CASE /\ Pulls(k) /\ n.kind = "end" /\ k.chunked = 0
             /\ w = FinishResponse(b, e, r, FALSE)
    BY <1>6, <1>7, <1>11, <2>5
  <2> QED
    BY <1>4, <2>1, <2>2, <2>3, <2>4, <2>5
<1> QED
  BY <1>14 DEF w

-----------------------------------------------------------------------------
(* A connection as HttpExchange sees it.                                   *)
Busy(k) == InFlight(k) # {}

(* No queued write, no exchange. *)
LEMMA IdleNotBusy == ASSUME NEW k, k.wq = <<>> PROVE ~Busy(k)
  BY DEF Busy, InFlight

(* A queued response is an exchange. *)
LEMMA SendingBusy == ASSUME NEW k, Sending(k) PROVE Busy(k)
<1>1. k.wq = <<"resp">> /\ 1 \in 1 .. Len(k.wq) /\ k.wq[1] = "resp"
  BY DEF Sending
<1> QED
  BY <1>1 DEF Busy, InFlight

(* Phase in terms of the connection's life. *)
LEMMA PhaseOf ==
  ASSUME NEW k
  PROVE  /\ Alive(k) => Phase(k) = "live"
         /\ ~Alive(k) /\ k.uv \in {"open", "closing"} => Phase(k) = "dying"
         /\ k.uv = "none" => Phase(k) = "free"
         /\ k.uv = "closed" => Phase(k) = "closed"
  BY DEF Phase, Alive

(* The steps HttpExchange allows a connection, from k to q. *)
Stays(q, k) ==
  /\ Phase(q) = Phase(k)
  /\ (Busy(q) /\ Busy(k)) \/ (~Busy(q) /\ ~Busy(k))
  /\ q.done = k.done /\ q.calls = k.calls

Opens(q, k) ==
  /\ Phase(k) = "free" /\ Phase(q) \in {"live", "dying"}
  /\ ~Busy(q) /\ ~Busy(k)
  /\ q.done = k.done /\ q.calls = k.calls

Begins(q, k) ==
  /\ Phase(k) = "live" /\ Phase(q) \in {"live", "dying"} /\ Busy(q)
  /\ q.calls = k.calls \/ q.calls = k.calls + 1

Serves(q, k) == Begins(q, k) /\ ~Busy(k) /\ q.done = k.done

Finishes(q, k) ==
  /\ Busy(k) /\ ~Busy(q) /\ Phase(q) \in {Phase(k), "dying"}
  /\ q.done = k.done + 1 /\ q.calls = k.calls

FinishesAndServes(q, k) == Begins(q, k) /\ Busy(k) /\ q.done = k.done + 1

Fails(q, k) ==
  /\ Busy(k) /\ ~Busy(q) /\ Phase(q) = "dying"
  /\ q.done = k.done /\ q.calls = k.calls

Dies(q, k) ==
  /\ Phase(k) = "live" /\ Phase(q) = "dying"
  /\ (Busy(q) /\ Busy(k)) \/ (~Busy(q) /\ ~Busy(k))
  /\ q.done = k.done /\ q.calls = k.calls

Closes(q, k) ==
  /\ Phase(k) = "dying" /\ Phase(q) = "closed" /\ ~Busy(q) /\ ~Busy(k)
  /\ q.done = k.done /\ q.calls = k.calls

Exchanges(q, k) ==
  \/ Stays(q, k) \/ Opens(q, k) \/ Serves(q, k) \/ Finishes(q, k)
  \/ FinishesAndServes(q, k) \/ Fails(q, k) \/ Dies(q, k) \/ Closes(q, k)

(* They are steps of HttpExchange. *)
LEMMA ExchangeStep ==
  ASSUME conn \in [Clients -> Conn], NEW c \in Clients, NEW q, Set(c, q),
         Exchanges(q, conn[c])
  PROVE  [Exchange!Next]_Exchange!vars
<1> DEFINE k  == conn[c]
           ph == [d \in Clients |-> Phase(conn[d])]
           bs == [d \in Clients |-> InFlight(conn[d]) # {}]
           sv == [d \in Clients |-> conn[d].done]
           cl == [d \in Clients |-> conn[d].calls]
<1>1. conn' = [conn EXCEPT ![c] = q]
  BY DEF Set
<1>2. ph' = [ph EXCEPT ![c] = Phase(q)] /\ ph[c] = Phase(k)
  BY <1>1
<1>3. bs' = [bs EXCEPT ![c] = Busy(q)] /\ bs[c] = Busy(k)
  BY <1>1 DEF Busy
<1>4. sv' = [sv EXCEPT ![c] = q.done] /\ sv[c] = k.done
  BY <1>1
<1>5. cl' = [cl EXCEPT ![c] = q.calls] /\ cl[c] = k.calls
  BY <1>1
<1>6. /\ ph = [d \in Clients |-> ph[d]] /\ bs = [d \in Clients |-> bs[d]]
      /\ sv = [d \in Clients |-> sv[d]] /\ cl = [d \in Clients |-> cl[d]]
  OBVIOUS
<1> HIDE DEF ph, bs, sv, cl
<1>7. /\ Busy(q) /\ ~Busy(k) => bs' = [bs EXCEPT ![c] = TRUE] /\ ~bs[c]
      /\ Busy(q) /\ Busy(k) => /\ bs' = [bs EXCEPT ![c] = TRUE] /\ bs[c]
                               /\ bs' = bs
      /\ ~Busy(q) /\ ~Busy(k) => bs' = bs /\ ~bs[c]
      /\ ~Busy(q) /\ Busy(k) => bs' = [bs EXCEPT ![c] = FALSE] /\ bs[c]
  <2>1. Busy(q) \in BOOLEAN /\ Busy(k) \in BOOLEAN
    BY DEF Busy
  <2> QED
    BY <1>3, <1>6, <2>1
<1>8. /\ q.done = k.done => sv' = sv
      /\ q.done = k.done + 1 => sv' = [sv EXCEPT ![c] = sv[c] + 1]
      /\ q.calls = k.calls => cl' = cl
      /\ cl' = [cl EXCEPT ![c] = q.calls] /\ cl[c] = k.calls
      /\ ph' = [ph EXCEPT ![c] = Phase(q)] /\ ph[c] = Phase(k)
      /\ Phase(q) = Phase(k) => ph' = ph
  BY <1>2, <1>4, <1>5, <1>6
<1>18. Exchanges(q, k)
  OBVIOUS
<1> DEFINE EN == Exchange!Next \/ UNCHANGED Exchange!vars
<1> SUFFICES EN
  OBVIOUS
<1> HIDE DEF k
<1>9. CASE Stays(q, k)
  <2>1. ph' = ph /\ bs' = bs /\ sv' = sv /\ cl' = cl
    BY <1>7, <1>8, <1>9 DEF Stays
  <2> QED
    BY <2>1 DEF Exchange!vars, ph, bs, sv, cl
<1>10. CASE Opens(q, k)
  <2>1. /\ ph[c] = "free"
        /\ \E p \in {"live", "dying"} : ph' = [ph EXCEPT ![c] = p]
        /\ bs' = bs /\ sv' = sv /\ cl' = cl
    BY <1>7, <1>8, <1>10 DEF Opens
  <2> QED
    BY <2>1 DEF Exchange!Next, Exchange!Open, ph, bs, sv, cl
<1>11. ASSUME Begins(q, k)
       PROVE  /\ ph[c] = "live"
              /\ \E p \in {"live", "dying"} : ph' = [ph EXCEPT ![c] = p]
              /\ bs' = [bs EXCEPT ![c] = TRUE]
              /\ \E n \in {cl[c], cl[c] + 1} : cl' = [cl EXCEPT ![c] = n]
  <2>1. bs' = [bs EXCEPT ![c] = TRUE]
    BY <1>7, <1>11 DEF Begins
  <2>2. q.calls \in {cl[c], cl[c] + 1}
    BY <1>8, <1>11 DEF Begins
  <2> QED
    BY <1>8, <1>11, <2>1, <2>2 DEF Begins
<1>12. CASE Serves(q, k)
  <2>1. ~bs[c] /\ sv' = sv
    BY <1>7, <1>8, <1>12 DEF Serves, Begins
  <2> QED
    BY <1>11, <1>12, <2>1
    DEF Serves, Exchange!Next, Exchange!Serve, Exchange!Begin, ph, bs, sv, cl
<1>13. CASE FinishesAndServes(q, k)
  <2>1. bs[c] /\ sv' = [sv EXCEPT ![c] = sv[c] + 1]
    BY <1>7, <1>8, <1>13 DEF FinishesAndServes, Begins
  <2> QED
    BY <1>11, <1>13, <2>1
    DEF FinishesAndServes, Exchange!Next, Exchange!FinishAndServe,
        Exchange!Begin, ph, bs, sv, cl
<1>14. CASE Finishes(q, k)
  <2>1. /\ bs[c] /\ bs' = [bs EXCEPT ![c] = FALSE]
        /\ sv' = [sv EXCEPT ![c] = sv[c] + 1] /\ cl' = cl
        /\ \E p \in {ph[c], "dying"} : ph' = [ph EXCEPT ![c] = p]
    BY <1>7, <1>8, <1>14 DEF Finishes
  <2> QED
    BY <2>1 DEF Exchange!Next, Exchange!Finish, ph, bs, sv, cl
<1>15. CASE Fails(q, k)
  <2>1. /\ bs[c] /\ bs' = [bs EXCEPT ![c] = FALSE]
        /\ sv' = sv /\ cl' = cl /\ ph' = [ph EXCEPT ![c] = "dying"]
    BY <1>7, <1>8, <1>15 DEF Fails
  <2> QED
    BY <2>1 DEF Exchange!Next, Exchange!Fail, ph, bs, sv, cl
<1>16. CASE Dies(q, k)
  <2>1. /\ ph[c] = "live" /\ ph' = [ph EXCEPT ![c] = "dying"]
        /\ bs' = bs /\ sv' = sv /\ cl' = cl
    BY <1>7, <1>8, <1>16 DEF Dies
  <2> QED
    BY <2>1 DEF Exchange!Next, Exchange!End, ph, bs, sv, cl
<1>17. CASE Closes(q, k)
  <2>1. /\ ph[c] = "dying" /\ ph' = [ph EXCEPT ![c] = "closed"] /\ ~bs[c]
        /\ bs' = bs /\ sv' = sv /\ cl' = cl
    BY <1>7, <1>8, <1>17 DEF Closes
  <2> QED
    BY <2>1 DEF Exchange!Next, Exchange!Close, ph, bs, sv, cl
<1> QED
  BY <1>9, <1>10, <1>12, <1>13, <1>14, <1>15, <1>16, <1>17, <1>18 DEF Exchanges

(* What every callback has to show of the slot it changes. *)
Faithful(q, k) == Plain(q) /\ Unused(q) /\ Exchanges(q, k)

(* A connection that starts to end does what HttpExchange allows. *)
LEMMA DyingFaithful ==
  ASSUME NEW k, NEW q, Plain(k), Silent(q, k), q.wq = k.wq, ~q.reading,
         ~Alive(q), k.uv \in {"open", "closing"}, Alive(k) => k.wq = <<>>
  PROVE  Faithful(q, k)
<1>1. /\ q.uv \in {"open", "closing"} /\ q.done = k.done /\ q.calls = k.calls
      /\ q.parser = k.parser /\ q.lastT = k.lastT /\ NoExpect(q)
      /\ q.keep = k.keep /\ q.rx = k.rx
  BY DEF Silent, Same, Plain, NoExpect
<1>2. Phase(q) = "dying" /\ (Phase(k) = "live" \/ Phase(k) = "dying")
  BY <1>1, PhaseOf
<1>3. CASE k.wq = <<>>
  <2>1. ~Busy(q) /\ ~Busy(k) /\ Plain(q)
    BY <1>1, <1>3, IdleNotBusy DEF Plain, Idle
  <2> QED
    BY <1>1, <1>2, <2>1 DEF Faithful, Unused, Exchanges, Stays, Dies
<1>4. CASE k.wq # <<>>
  <2>1. Sending(k) /\ ~Alive(k)
    BY <1>4 DEF Plain, Idle
  <2>2. Sending(q)
    BY <1>1, <2>1 DEF Sending, Persistent
  <2>3. Busy(q) /\ Busy(k) /\ Plain(q)
    BY <1>1, <2>1, <2>2, SendingBusy DEF Plain
  <2> QED
    BY <1>1, <1>2, <2>3 DEF Faithful, Unused, Exchanges, Stays, Dies
<1> QED
  BY <1>3, <1>4

(* So does one that has parsed what it read. *)
LEMMA ParsedFaithful ==
  ASSUME NEW k, NEW q, Alive(k), k.wq = <<>>, Answering(q, k)
  PROVE  Faithful(q, k)
<1>1. ~Busy(k) /\ Phase(k) = "live"
  BY IdleNotBusy, PhaseOf
<1>2. CASE Idle(q) /\ Alive(q) /\ q.calls = k.calls
  <2>1. ~Busy(q) /\ Phase(q) = "live"
    BY <1>2, IdleNotBusy, PhaseOf DEF Idle
  <2> QED
    BY <1>1, <1>2, <2>1
    DEF Faithful, Answering, Unused, Alive, Exchanges, Stays
<1>3. CASE Sending(q) /\ (q.calls = k.calls \/ q.calls = k.calls + 1)
  <2>1. q.uv \in {"open", "closing"}
    BY <1>3 DEF Sending
  <2>2. Busy(q) /\ Phase(q) \in {"live", "dying"}
    BY <1>3, <2>1, SendingBusy, PhaseOf
  <2>3. Serves(q, k)
    BY <1>1, <1>3, <2>2 DEF Answering, Serves, Begins
  <2> QED
    BY <2>1, <2>3 DEF Faithful, Answering, Unused, Exchanges
<1> QED
  BY <1>2, <1>3 DEF Answering

(* A connection that libuv drains was being shut down. *)
LEMMA DrainDies ==
  ASSUME NEW k \in Conn
  PROVE  /\ Silent(Drain(k), k) /\ Drain(k).wq = k.wq
         /\ Alive(k) => Drain(k) = k
         /\ Drain(k).reading => k.reading
         /\ ~(k.shut /\ k.wq = <<>>) => Drain(k) = k
         /\ k.shut /\ k.wq = <<>> /\ k.uv = "open" => ~Drain(k).reading
<1>1. Silent(k, k)
  BY DEF Silent, Same
<1>2. Silent(close_connection(k), k) /\ close_connection(k).wq = k.wq
  BY CloseSilent, CloseFollows DEF Follows
<1>3. CASE k.shut /\ k.wq = <<>>
  <2>1. Drain(k) = close_connection(k) /\ ~Alive(k)
    BY <1>3 DEF Drain, Alive
  <2>2. /\ k.uv = "open" => /\ close_connection(k).uv = "closing"
                            /\ ~close_connection(k).reading
        /\ k.uv # "open" => close_connection(k).reading = k.reading
    BY DEF close_connection, Conn
  <2> QED
    BY <1>2, <1>3, <2>1, <2>2
<1>4. CASE ~(k.shut /\ k.wq = <<>>)
  BY <1>1, <1>4 DEF Drain
<1> QED
  BY <1>3, <1>4

(* So does one whose write was reported. *)
LEMMA WrittenFaithful ==
  ASSUME NEW k, NEW j, NEW w \in Conn, Sending(k),
         j.uv = k.uv, j.shut = k.shut, j.calls = k.calls, j.done = k.done,
         \/ Ended(w, j) /\ w.done = j.done
         \/ Alive(j) /\ Carried(w, j)
         \/ Over(w, j)
  PROVE  Faithful(Drain(w), k)
<1> DEFINE q == Drain(w)
<1>1. Busy(k) /\ (Phase(k) = "live" \/ Phase(k) = "dying")
      /\ (Alive(k) => Phase(k) = "live") /\ (~Alive(k) => Phase(k) = "dying")
  BY SendingBusy, PhaseOf DEF Sending
<1>2. /\ Silent(q, w) /\ q.wq = w.wq
      /\ Alive(w) => q = w
      /\ q.reading => w.reading
      /\ ~(w.shut /\ w.wq = <<>>) => q = w
      /\ w.shut /\ w.wq = <<>> /\ w.uv = "open" => ~q.reading
  BY DrainDies
<1>3. Alive(j) <=> Alive(k)
  BY DEF Alive
<1> HIDE DEF q
<1>4. CASE Ended(w, j) /\ w.done = j.done
  <2>1. /\ NoExpect(q) /\ q.wq = <<>> /\ ~q.reading /\ ~Alive(q)
        /\ q.uv \in {"open", "closing"} /\ q.parser # "mid"
        /\ q.calls = k.calls /\ q.done = k.done
    BY <1>2, <1>4 DEF Ended, Silent, Same, NoExpect, Alive
  <2>2. Plain(q) /\ ~Busy(q) /\ Phase(q) = "dying"
    BY <2>1, IdleNotBusy, PhaseOf DEF Plain, Idle
  <2>3. Fails(q, k)
    BY <1>1, <2>1, <2>2 DEF Fails
  <2> QED
    BY <2>1, <2>2, <2>3 DEF Faithful, Unused, Exchanges, q
<1>5. CASE Sending(w) /\ NoExpect(w) /\ Alive(j)
  <2>1. q = w
    BY <1>2, <1>5 DEF Sending
  <2>2. Busy(w) /\ w.uv \in {"open", "closing"}
    BY <1>5, SendingBusy DEF Sending
  <2>3. Plain(w) /\ Unused(w)
    BY <1>5, <2>2 DEF Plain, Sending, Unused
  <2>4. Phase(w) \in {"live", "dying"} /\ Phase(k) = "live"
    BY <1>1, <1>3, <1>5, <2>2, PhaseOf
  <2>5. CASE Carried(w, j)
    <3>1. (Alive(w) => Phase(w) = "live") /\ (~Alive(w) => Phase(w) = "dying")
      BY <2>2, PhaseOf
    <3>2. Stays(w, k) \/ Dies(w, k)
      BY <1>1, <2>2, <2>4, <2>5, <3>1 DEF Stays, Dies, Carried
    <3> QED
      BY <2>1, <2>3, <3>2 DEF Faithful, Exchanges, q
  <2>6. CASE w.done = j.done + 1 /\ (w.calls = j.calls \/ w.calls = j.calls + 1)
    <3>1. FinishesAndServes(w, k)
      BY <1>1, <2>2, <2>4, <2>6 DEF FinishesAndServes, Begins
    <3> QED
      BY <2>1, <2>3, <3>1 DEF Faithful, Exchanges, q
  <2>7. w.wq # <<>>
    <3>1. <<"resp">> # <<>>
      OBVIOUS
    <3> QED
      BY <1>5, <3>1 DEF Sending
  <2> QED
    BY <2>5, <2>6, <2>7 DEF Over, Ended
<1>6. CASE /\ Over(w, j) /\ w.wq = <<>> /\ w.calls = j.calls
           /\ w.uv \in {"open", "closing"} /\ (w.reading => w.uv = "open")
           /\ Alive(w) => Alive(j)
  <2>1. /\ NoExpect(q) /\ q.wq = <<>> /\ q.calls = k.calls /\ q.done = k.done + 1
        /\ q.uv \in {"open", "closing"} /\ (q.parser = "mid" => ~q.lastT)
    BY <1>2, <1>6 DEF Over, Silent, Same, NoExpect
  <2>2. q.reading => Alive(q)
    BY <1>2, <1>6 DEF Alive
  <2>3. Alive(q) => Alive(k)
    BY <1>2, <1>3, <1>6 DEF Silent, Same, Alive
  <2>4. Plain(q) /\ ~Busy(q)
    BY <2>1, <2>2, IdleNotBusy DEF Plain, Idle
  <2>5. (Alive(q) => Phase(q) = "live") /\ (~Alive(q) => Phase(q) = "dying")
    BY <2>1, PhaseOf
  <2>6. Finishes(q, k)
    BY <1>1, <2>1, <2>3, <2>4, <2>5 DEF Finishes
  <2> QED
    BY <2>1, <2>4, <2>6 DEF Faithful, Unused, Exchanges, q
<1> QED
  BY <1>4, <1>5, <1>6 DEF Carried, Over

-----------------------------------------------------------------------------
(* The callbacks. *)

(* One slot changes as HttpExchange allows, the others stay. *)
Kept == XInv' /\ [Exchange!Next]_Exchange!vars

(* A step of one slot is a step of HttpExchange when that slot is          *)
(* faithful.                                                               *)
LEMMA SetFaithful ==
  ASSUME XInv, TInv', pyerr' = NoClient, NEW c \in Clients, NEW q,
         Set(c, q), Faithful(q, conn[c])
  PROVE  Kept
<1>1. conn \in [Clients -> Conn]
  BY DEF XInv, TInv, IInv
<1>2. [Exchange!Next]_Exchange!vars
  BY <1>1, ExchangeStep DEF Faithful
<1>3. \A d \in Clients : Plain(conn[d]) /\ Unused(conn[d])
  BY DEF XInv
<1>4. \A d \in Clients : Plain(conn'[d]) /\ Unused(conn'[d])
  BY <1>1, <1>3 DEF Set, Faithful
<1> QED
  BY <1>2, <1>4 DEF XInv, Kept

(* A slot before and after connection_cb. *)
LEMMA FreshPlain ==
  /\ Plain(Fresh) /\ Unused(Fresh) /\ Phase(Fresh) = "free" /\ ~Busy(Fresh)
  /\ \A q \in {[Fresh EXCEPT !.uv = "open", !.state = "CS_REQ_READ",
                             !.reading = TRUE, !.reqT = TRUE],
               [Fresh EXCEPT !.uv = "closing", !.state = "CS_DESTROY"]} :
       /\ Plain(q) /\ q.uv \in {"open", "closing"}
       /\ q.wq = <<>> /\ q.done = 0 /\ q.calls = 0
<1>1. Len(<<>>) = 0 /\ 1 .. 0 = {}
  OBVIOUS
<1> QED
  BY <1>1 DEF Fresh, Plain, NoExpect, Idle, Alive, Unused, Phase, Busy, InFlight

(* What write_cb finds: the only write is reported, so nothing is queued. *)
LEMMA BackAgain ==
  ASSUME NEW k, Good(k), Settled(k), Plain(k), Sending(k)
  PROVE  LET q == [k EXCEPT !.wq = Tail(k.wq)]
             v == [q EXCEPT !.state = "CS_RESP_SENDED"]
         IN /\ Back(v) /\ q \in Conn
            /\ q.uv = k.uv /\ q.shut = k.shut /\ q.reqT = k.reqT
            /\ q.lastT = k.lastT /\ q.calls = k.calls /\ q.done = k.done
            /\ q.buf = k.buf /\ q.parsed = k.parsed
<1> DEFINE q == [k EXCEPT !.wq = Tail(k.wq)]
           v == [q EXCEPT !.state = "CS_RESP_SENDED"]
<1>1. k \in Conn /\ k.wq # <<>> /\ Head(k.wq) = "resp" /\ k.uv # "closed"
  <2>1. <<"resp">> # <<>> /\ Head(<<"resp">>) = "resp"
    OBVIOUS
  <2> QED
    BY <2>1 DEF Good, Sending
<1>2. Tail(k.wq) = <<>> /\ <<>> \in Seq({"status", "resp"})
  BY DEF Sending
<1>3. Books(q)
  BY <1>1, SettledTracked, PopBooks
<1>4. Quiet(q)
  BY <1>1, ReportQuiet
<1>5. /\ q \in Conn /\ q.wq = <<>> /\ q.uv = k.uv /\ q.shut = k.shut
      /\ q.reading = k.reading /\ q.buf = k.buf /\ q.parsed = k.parsed
      /\ q.rx = k.rx /\ q.parser = k.parser /\ q.keep = k.keep
      /\ q.reqT = k.reqT /\ q.lastT = k.lastT
      /\ q.calls = k.calls /\ q.done = k.done
  BY <1>1, <1>2 DEF Conn
<1> HIDE DEF q
<1>6. /\ Silent(v, q) /\ Follows(v, q) /\ v.state = "CS_RESP_SENDED"
      /\ v.reading = q.reading /\ v.uv = q.uv /\ v.shut = q.shut
  BY <1>5 DEF Conn, ClientState, Silent, Same, Follows
<1> HIDE DEF v
<1>7. Quiet(v) /\ Books(v)
  BY <1>3, <1>4, <1>6, FollowsQuiet, SilentBooks
<1>8. v.wq = <<>> /\ v.buf = k.buf /\ v.parser = k.parser /\ v.rx = k.rx
      /\ v.keep = k.keep
  BY <1>5, <1>6 DEF Silent, Same, Follows
<1>9. Back(v)
  BY <1>5, <1>6, <1>7, <1>8
  DEF Back, Sending, Plain, NoExpect, Alive, Persistent
<1> QED
  BY <1>5, <1>9 DEF q, v

(* Every callback keeps the invariant and is a step of HttpExchange, or    *)
(* none.                                                                   *)
THEOREM Exchanging ==
  ASSUME PlainPeers
  PROVE  XInv /\ [Next]_vars => XInv' /\ [Exchange!Next]_Exchange!vars
<1> SUFFICES ASSUME XInv, [Next]_vars PROVE Kept
  BY DEF Kept
<1>0. /\ TInv' /\ IInv /\ conn \in [Clients -> Conn] /\ pyerr = NoClient
      /\ \A c \in Clients : /\ Good(conn[c]) /\ Settled(conn[c])
                            /\ Plain(conn[c]) /\ Unused(conn[c])
      /\ (pyerr # NoClient) = FALSE
  BY Settles DEF XInv, TInv, IInv
<1>1. ASSUME NEW c \in Clients, connection_cb(c) PROVE Kept
  <2> DEFINE o == [Fresh EXCEPT !.uv = "open", !.state = "CS_REQ_READ",
                                !.reading = TRUE, !.reqT = TRUE]
             r == [Fresh EXCEPT !.uv = "closing", !.state = "CS_DESTROY"]
  <2>1. PICK q \in {o, r} : Set(c, q)
    BY <1>1 DEF connection_cb
  <2>2. /\ Plain(q) /\ q.uv \in {"open", "closing"}
        /\ q.wq = <<>> /\ q.done = 0 /\ q.calls = 0
    BY FreshPlain
  <2> HIDE DEF o, r
  <2>3. /\ conn[c].uv = "none" /\ conn[c].done = 0 /\ conn[c].calls = 0
        /\ conn[c].wq = <<>> /\ pyerr' = NoClient
    BY <1>0, <1>1 DEF connection_cb, Unused, Plain, Idle, Sending
  <2>4. /\ Phase(q) \in {"live", "dying"} /\ Phase(conn[c]) = "free"
        /\ ~Busy(q) /\ ~Busy(conn[c])
    BY <2>2, <2>3, PhaseOf, IdleNotBusy
  <2>5. Faithful(q, conn[c])
    BY <2>2, <2>3, <2>4 DEF Faithful, Unused, Exchanges, Opens
  <2> QED
    BY <1>0, <2>1, <2>3, <2>5, SetFaithful
<1>2. ASSUME NEW c \in Clients, NEW q, Set(c, q), pyerr' = NoClient,
             Silent(q, conn[c]), q.wq = conn[c].wq, ~q.reading, ~Alive(q),
             conn[c].uv = "open", Alive(conn[c]) => conn[c].wq = <<>>
      PROVE  Kept
  <2>1. Faithful(q, conn[c])
    BY <1>0, <1>2, DyingFaithful
  <2> QED
    BY <1>0, <1>2, <2>1, SetFaithful
<1>3. ASSUME NEW c \in Clients, conn[c].reading
      PROVE  Alive(conn[c]) /\ conn[c].wq = <<>>
  BY <1>0, <1>3 DEF Plain, Idle, Sending
<1>4. ASSUME NEW c \in Clients, read_cb(c) PROVE Kept
  <2>1. PICK toks \in PeerData(conn[c]) :
          LET k == alloc_cb(conn[c], toks)
          IN IF conn[c].rx = "RXS_FREEZED"
             THEN Set(c, ReadFin(conn[c], "none", "CA_SHUTDOWN", FALSE))
             ELSE \E e \in 1 .. Len(toks), r \in Reply :
                    /\ EndsAt(k, e)
                    /\ Set(c, Parse(k, e, r, FALSE))
    BY <1>0, <1>4 DEF read_cb
  <2>2. toks \in Seq(Token) /\ \A i \in 1 .. Len(toks) : toks[i] # "expect"
    BY PeersAssumption, BoundsAssumption DEF PeerData, PlainPeers
  <2>3. /\ conn[c].uv = "open" /\ conn[c].reading /\ conn[c] \in Conn
        /\ pyerr' = NoClient
    BY <1>0, <1>4 DEF read_cb
  <2>4. Alive(conn[c]) /\ conn[c].wq = <<>>
    BY <1>3, <2>3
  <2>5. CASE conn[c].rx = "RXS_FREEZED"
    <3> DEFINE f == TakeAction(conn[c], "CA_SHUTDOWN")
    <3>1. Set(c, f)
      BY <2>1, <2>5 DEF ReadFin
    <3>2. /\ Silent(f, conn[c]) /\ f.wq = conn[c].wq
          /\ ~f.reading /\ ~Alive(f)
      BY <2>3, TakeActionSilent, TakeActionEnds DEF Action
    <3> HIDE DEF f
    <3> QED
      BY <1>2, <2>3, <2>4, <3>1, <3>2
  <2>6. CASE conn[c].rx # "RXS_FREEZED"
    <3> DEFINE k == alloc_cb(conn[c], toks)
    <3>1. PICK e \in 1 .. Len(toks), r \in Reply :
            EndsAt(k, e) /\ Set(c, Parse(k, e, r, FALSE))
      BY <2>1, <2>6
    <3>2. Parsable(k)
      BY <1>0, <2>2, <2>3, <2>6, AllocParsable
    <3>3. /\ k.buf = toks /\ k.wq = conn[c].wq /\ k.parser = conn[c].parser
          /\ k.lastT = conn[c].lastT /\ k.uv = conn[c].uv
          /\ k.shut = conn[c].shut /\ k.done = conn[c].done
          /\ k.calls = conn[c].calls
      BY <2>3 DEF alloc_cb, Conn
    <3> HIDE DEF k
    <3> DEFINE f == Parse(k, e, r, FALSE)
    <3>4. Answering(f, k)
      <4>1. NoExpect(k) /\ Alive(k) /\ k.wq = <<>>
        BY <2>2, <2>4, <3>3 DEF NoExpect, Alive
      <4>2. k.parser = "mid" => ~k.lastT
        BY <1>0, <3>3 DEF Plain
      <4> QED
        BY <3>1, <3>2, <4>1, <4>2, ParseAlive
    <3> HIDE DEF f
    <3>5. Answering(f, conn[c])
      BY <3>3, <3>4 DEF Answering
    <3>6. Faithful(f, conn[c])
      BY <2>4, <3>5, ParsedFaithful
    <3> QED
      BY <1>0, <2>3, <3>1, <3>6, SetFaithful DEF f
  <2> QED
    BY <2>5, <2>6
<1>5. ASSUME NEW c \in Clients, EmptyRead(c) PROVE Kept
  <2> DEFINE q == alloc_cb(conn[c], <<>>)
  <2>1. /\ conn[c].uv = "open" /\ conn[c].reading /\ Set(c, q)
        /\ pyerr' = NoClient /\ conn[c] \in Conn
    BY <1>0, <1>5 DEF EmptyRead
  <2>2. Alive(conn[c]) /\ conn[c].wq = <<>>
    BY <1>3, <2>1
  <2>3. /\ q.buf = <<>> /\ q.wq = conn[c].wq /\ q.parser = conn[c].parser
        /\ q.lastT = conn[c].lastT /\ q.uv = conn[c].uv
        /\ q.shut = conn[c].shut /\ q.done = conn[c].done
        /\ q.calls = conn[c].calls
    BY <2>1 DEF alloc_cb, Conn
  <2> HIDE DEF q
  <2>4. Alive(q) /\ q.wq = <<>> /\ NoExpect(q)
    BY <2>2, <2>3 DEF Alive, NoExpect
  <2>5. Answering(q, conn[c])
    BY <1>0, <2>3, <2>4 DEF Answering, Plain, Idle
  <2> QED
    BY <1>0, <2>1, <2>2, <2>5, ParsedFaithful, SetFaithful
<1>6. ASSUME NEW c \in Clients, PeerCloses(c) PROVE Kept
  <2> DEFINE q == TakeAction(conn[c], "CA_CLOSE")
  <2>1. /\ Silent(q, conn[c]) /\ q.wq = conn[c].wq
        /\ ~q.reading /\ ~Alive(q)
    BY <1>0, TakeActionSilent, TakeActionEnds DEF Action
  <2>2. Set(c, q) /\ conn[c].uv = "open" /\ conn[c].reading /\ pyerr' = NoClient
    BY <1>6 DEF PeerCloses
  <2> HIDE DEF q
  <2> QED
    BY <1>2, <1>3, <2>1, <2>2
<1>7. ASSUME NEW c \in Clients, StatusWritten(c) PROVE FALSE
  <2>1. Head(<<"resp">>) = "resp" /\ "resp" # "status"
    OBVIOUS
  <2>2. conn[c].wq = <<>> \/ conn[c].wq = <<"resp">>
    BY <1>0 DEF Plain, Idle, Sending
  <2> QED
    BY <1>7, <2>1, <2>2 DEF StatusWritten
<1>8. ASSUME NEW c \in Clients, conn[c].wq # <<>> PROVE Sending(conn[c])
  BY <1>0, <1>8 DEF Plain, Idle
<1>9. ASSUME NEW c \in Clients, ResponseWritten(c) PROVE Kept
  <2> DEFINE j == [conn[c] EXCEPT !.wq = Tail(conn[c].wq)]
  <2>1. Sending(conn[c])
    BY <1>8, <1>9 DEF ResponseWritten
  <2>2. PICK n \in NextPull(conn[c]), r \in Reply,
             e \in 0 .. Len(conn[c].buf) :
          /\ IF Resumes(j) /\ Exhausted(j, n) THEN EndsAt(j, e)
             ELSE e = 0 /\ r.kind = "fail"
          /\ Set(c, Drain(write_cb(j, n, e, r, FALSE)))
          /\ pyerr' = IF Resumes(j) /\ Exhausted(j, n) THEN NoClient
                      ELSE IF Pulls(j) /\ n.kind = "raise" THEN c ELSE pyerr
    <3>1. \A m : ~MayLeaveError(m)
      BY DEF MayLeaveError, PlainPeers
    <3> QED
      BY <1>0, <1>9, <3>1 DEF ResponseWritten
  <2>3. n \in Pull /\ n.kind # "raise"
    BY DEF NextPull, PlainPeers
  <2>4. pyerr' = NoClient
    BY <1>0, <2>2, <2>3
  <2>5. /\ Back([j EXCEPT !.state = "CS_RESP_SENDED"]) /\ j \in Conn
        /\ j.uv = conn[c].uv /\ j.shut = conn[c].shut
        /\ j.reqT = conn[c].reqT /\ j.lastT = conn[c].lastT
        /\ j.calls = conn[c].calls /\ j.done = conn[c].done
    BY <1>0, <2>1, BackAgain
  <2> HIDE DEF j
  <2> DEFINE w == write_cb(j, n, e, r, FALSE)
  <2>6. \/ Ended(w, j) /\ w.done = j.done
        \/ Alive(j) /\ Carried(w, j)
        \/ Over(w, j)
    <3>1. Alive(j) => ~j.reqT /\ ~j.lastT
      BY <2>1, <2>5 DEF Sending, Alive
    <3> QED
      BY <2>2, <2>3, <2>5, <3>1, WriteCbOutcome
  <2>7. w \in Conn
    <3>1. Quiet(j)
      BY <1>0, <1>9, ReportQuiet DEF ResponseWritten, j
    <3> QED
      BY <2>2, <2>3, <3>1, WriteCbGood DEF Good
  <2> HIDE DEF w
  <2>8. Faithful(Drain(w), conn[c])
    BY <2>1, <2>5, <2>6, <2>7, WrittenFaithful
  <2> QED
    BY <1>0, <2>2, <2>4, <2>8, SetFaithful DEF w
<1>10. ASSUME NEW c \in Clients, WriteFailed(c) PROVE Kept
  <2> DEFINE j == [conn[c] EXCEPT !.wq = Tail(conn[c].wq)]
             z == [j EXCEPT !.pre = 0]
             v == [j EXCEPT !.state = "CS_RESP_SENDED"]
             w == close_connection(z)
  <2>1. Sending(conn[c])
    BY <1>8, <1>10 DEF WriteFailed
  <2>2. Set(c, w) /\ pyerr' = NoClient
    <3>1. [conn[c] EXCEPT !.wq = Tail(conn[c].wq), !.pre = 0] = z
      BY <1>0 DEF Conn
    <3> QED
      BY <1>0, <1>10, <3>1 DEF WriteFailed
  <2>3. /\ Back(v) /\ j \in Conn
        /\ j.uv = conn[c].uv /\ j.shut = conn[c].shut
        /\ j.calls = conn[c].calls /\ j.done = conn[c].done
    BY <1>0, <2>1, BackAgain
  <2> HIDE DEF j
  <2>4. z = [z EXCEPT !.pre = 0] /\ z \in Conn
    BY <2>3 DEF Conn
  <2>5. /\ z.wq = v.wq /\ z.uv = v.uv /\ z.shut = v.shut /\ z.buf = v.buf
        /\ z.reading = v.reading /\ z.parser = v.parser
        /\ z.calls = v.calls /\ z.done = v.done
        /\ v.calls = j.calls /\ v.done = j.done
    BY <2>3 DEF Conn
  <2> HIDE DEF z, v
  <2>6. Silent(w, z) /\ w.wq = z.wq /\ ~Alive(w) /\ w \in Conn
    BY <2>4, CloseSilent, CloseFollows DEF Follows
  <2>7. ~w.reading
    BY <2>3, <2>4, <2>5 DEF close_connection, Conn, Back
  <2> HIDE DEF w
  <2>8. Ended(w, j) /\ w.done = j.done
    BY <2>3, <2>5, <2>6, <2>7 DEF Ended, Back, Silent, Same, NoExpect
  <2>9. Faithful(w, conn[c])
    <3>1. /\ NoExpect(w) /\ w.wq = <<>> /\ w.uv \in {"open", "closing"}
          /\ w.parser # "mid" /\ w.calls = conn[c].calls
          /\ w.done = conn[c].done /\ ~w.reading /\ ~Alive(w)
      BY <2>3, <2>8 DEF Ended
    <3>2. /\ ~Busy(w) /\ Phase(w) = "dying" /\ Busy(conn[c])
      BY <2>1, <3>1, IdleNotBusy, SendingBusy, PhaseOf
    <3> QED
      BY <3>1, <3>2 DEF Faithful, Plain, Idle, Unused, Exchanges, Fails
  <2> QED
    BY <1>0, <2>2, <2>9, SetFaithful
<1>11. ASSUME NEW c \in Clients, shutdown_cb(c) PROVE Kept
  <2> DEFINE q == close_connection(conn[c])
  <2>1. Silent(q, conn[c]) /\ q.wq = conn[c].wq /\ ~Alive(q)
    BY <1>0, CloseSilent, CloseFollows DEF Follows
  <2>2. /\ Set(c, q) /\ conn[c].uv = "open" /\ conn[c].wq = <<>>
        /\ pyerr' = NoClient
    BY <1>0, <1>11 DEF shutdown_cb
  <2>3. ~q.reading
    BY <1>0, <2>2 DEF close_connection, Conn
  <2> HIDE DEF q
  <2> QED
    BY <1>2, <2>1, <2>2, <2>3
<1>12. ASSUME NEW c \in Clients, close_cb(c) PROVE Kept
  <2> DEFINE z == reset_response_body(conn[c])
             q == [z EXCEPT !.uv = "closed", !.rx = "RXS_RESTING",
                            !.reading = FALSE]
  <2>1. /\ z \in Conn /\ z.wq = <<>> /\ Silent(z, conn[c])
        /\ conn[c].uv = "closing" /\ conn[c].wq = <<>> /\ Set(c, q)
        /\ pyerr' = NoClient
    BY <1>0, <1>12, ResetFollows, ResetSilent
       DEF Follows, close_cb, MayLeaveError, PlainPeers
  <2> HIDE DEF z
  <2>2. /\ q.uv = "closed" /\ q.wq = <<>> /\ q.parser = z.parser
        /\ q.lastT = z.lastT /\ q.buf = z.buf /\ ~q.reading
        /\ q.calls = z.calls /\ q.done = z.done
    BY <2>1 DEF Conn
  <2> HIDE DEF q
  <2>3. Plain(q) /\ q.calls = conn[c].calls /\ q.done = conn[c].done
    BY <1>0, <2>1, <2>2 DEF Plain, NoExpect, Idle, Silent, Same
  <2>4. /\ Phase(q) = "closed" /\ Phase(conn[c]) = "dying"
        /\ ~Busy(q) /\ ~Busy(conn[c])
    BY <2>1, <2>2, IdleNotBusy DEF Phase, Alive
  <2>5. Faithful(q, conn[c])
    BY <2>2, <2>3, <2>4 DEF Faithful, Unused, Exchanges, Closes
  <2> QED
    BY <1>0, <2>1, <2>5, SetFaithful
<1>13. ASSUME NEW c \in Clients, client_aux_check(c) PROVE Kept
  <2> DEFINE q == TakeAction(conn[c], "CA_SHUTDOWN")
  <2>1. /\ Silent(q, conn[c]) /\ q.wq = conn[c].wq
        /\ ~q.reading /\ ~Alive(q)
    BY <1>0, TakeActionSilent, TakeActionEnds DEF Action
  <2>2. /\ Set(c, q) /\ conn[c].uv = "open" /\ pyerr' = NoClient
        /\ conn[c].reqT \/ conn[c].lastT
    BY <1>0, <1>13 DEF client_aux_check, TakeAction, Overdue
  <2>3. Alive(conn[c]) => conn[c].wq = <<>>
    BY <1>8, <2>2 DEF Sending
  <2> HIDE DEF q
  <2> QED
    BY <1>2, <2>1, <2>2, <2>3
<1>14. CASE UNCHANGED vars
  <2>1. conn' = conn /\ pyerr' = pyerr
    BY <1>14 DEF vars
  <2>2. UNCHANGED Exchange!vars
    BY <2>1 DEF Exchange!vars
  <2>3. XInv'
    BY <1>0, <2>1 DEF XInv
  <2> QED
    BY <2>2, <2>3 DEF Kept
<1>15. CASE AllClosed
  BY <1>14, <1>15 DEF AllClosed
<1> QED
  BY <1>1, <1>4, <1>5, <1>6, <1>7, <1>9, <1>10, <1>11, <1>12, <1>13, <1>14, <1>15
  DEF Next

(* When no peer asks for 100-continue and no body raises, the connections  *)
(* keep the promise of HttpExchange: one exchange at a time, the           *)
(* application called by live connections only, and each exchange ended by *)
(* a response written out or by the end of the connection (read_cb,        *)
(* write_cb, shutdown_connection, close_cb).                               *)
THEOREM PlainPeersAreServed == ASSUME PlainPeers PROVE Spec => KeepsExchanges
<1>1. Init => XInv /\ Exchange!Init
  <2> SUFFICES ASSUME Init PROVE XInv /\ Exchange!Init
    OBVIOUS
  <2>1. conn = [c \in Clients |-> Fresh] /\ pyerr = NoClient
    BY DEF Init
  <2>2. TInv
    BY Initial, FreshSettled, <2>1 DEF TInv
  <2>3. XInv
    BY <2>1, <2>2, FreshPlain DEF XInv
  <2>4. /\ Phase(Fresh) = "free" /\ InFlight(Fresh) = {}
        /\ Fresh.done = 0 /\ Fresh.calls = 0
    BY FreshPlain DEF Busy, Fresh
  <2>5. Exchange!Init
    BY <2>1, <2>4 DEF Exchange!Init
  <2> QED
    BY <2>3, <2>5
<1>2. XInv /\ [Next]_vars => XInv' /\ [Exchange!Next]_Exchange!vars
  BY Exchanging
<1> QED
  BY <1>1, <1>2, PTL DEF Spec, KeepsExchanges, Exchange!Spec

=============================================================================
