------------------------ MODULE AsgiConnectionProofs ------------------------
(***************************************************************************)
(* TLAPS proofs about AsgiConnection, for any amount of request data, any  *)
(* number of sends and any habits.                                         *)
(*                                                                         *)
(* The inductive invariant has three layers.  TInv holds always: the types *)
(* and the count of request data, by which every message has an object.    *)
(* QInv holds when no peer asks for 100-continue: whatever writes, waits   *)
(* or runs belongs to the object of the connection, and nothing parses     *)
(* under it.  SInv holds when bodies are not empty either: a coroutine     *)
(* that owes a part of its response has a live and untimed connection.     *)
(***************************************************************************)
EXTENDS AsgiConnection, TLAPS

(* The request data is accounted for, so that every message has an object. *)
Counts(k) ==
  /\ k.parsed <= Len(k.buf) /\ k.asked <= k.ppos
  /\ k.ppos + Len(k.buf) - k.parsed <= k.recvd /\ k.recvd <= MaxTokens

TInv == TypeOK /\ Counts(conn)

-----------------------------------------------------------------------------
(* Without 100-continue.                                                   *)

NoExpect(k) == \A i \in 1 .. Len(k.buf) : k.buf[i] # "expect"

(* No coroutine and no write stands behind a client_t that parses: the     *)
(* object of the connection, if it has one, has not been called.           *)
Uncalled == asgi # 0 => obj[asgi].task = "none"

(* The client_t and its object.  Only the response is ever queued, and for *)
(* a coroutine that awaits it, or for nobody (an error answer).            *)
Writes ==
  /\ conn.wq \in {<<>>, <<"resp">>}
  /\ conn.wq # <<>> =>
       /\ asgi # 0 /\ obj[asgi].task \in {"none", "sending"}
       /\ conn.uv = "open" \/ conn.shut

Reads ==
  /\ NoExpect(conn)
  /\ conn.reading => conn.wq = <<>> /\ Uncalled
  /\ conn.parser = "mid" /\ conn.uv # "closed" =>
       asgi = conn.asked + 1 /\ Uncalled /\ conn.wq = <<>>
  /\ conn.parser = "error" => ~Alive

(* The read timer runs for a coroutine that was told, or for nobody.       *)
Timed ==
  timer =>
    /\ ~conn.reading /\ conn.uv # "none"
    /\ asgi # 0 => obj[asgi].told /\ conn.state = "CS_DESTROY"

(* All that the invariant reads of an object. *)
Like(o, p) ==
  /\ o.task = p.task /\ o.future = p.future /\ o.status = p.status
  /\ o.start = p.start /\ o.bodies = p.bodies /\ o.latest = p.latest
  /\ o.told = p.told /\ o.raised = p.raised

(* A coroutine awaits a write of its connection; an object that was not    *)
(* called is as it was created.                                            *)
Awaits ==
  \A n \in Messages :
    /\ obj[n].task = "sending" => asgi = n /\ conn.wq # <<>>
    /\ obj[n].task = "sending" <=> obj[n].future = "pending"
    /\ obj[n].told => obj[n].task \in {"ready", "ended"}
    /\ obj[n].task = "none" => Like(obj[n], create_asgi)

Begin == conn.uv = "none" => conn = W!Fresh /\ asgi = 0

QInv == TInv /\ Writes /\ Reads /\ Timed /\ Awaits /\ Begin

-----------------------------------------------------------------------------
(* And without empty bodies.                                               *)

(* A coroutine that owes a part of its response.                           *)
Owes(n) == Running(n) /\ ~obj[n].told /\ ~obj[n].latest

(* Whoever has lost its socket is in CS_DESTROY and listens to nobody.     *)
Dying ==
  ~Alive => ~conn.reading /\ (conn.uv # "none" => conn.state = "CS_DESTROY")

Untimed ==
  /\ conn.parser = "mid" /\ conn.uv # "closed" =>
       ~conn.lastT /\ conn.chunked = 0
  /\ \A n \in Messages : Owes(n) =>
       asgi = n /\ Alive /\ ~conn.reqT /\ ~conn.lastT

(* Where the response of the connection's object is.                       *)
Streaming ==
  \A n \in Messages :
    asgi = n /\ obj[n].task # "none" /\ ~obj[n].told =>
      /\ ~obj[n].bodies => ~obj[n].latest /\ (Running(n) => conn.chunked = 0)
      /\ obj[n].bodies => obj[n].status = "set"
      /\ Owes(n) /\ obj[n].bodies => conn.chunked = 1 /\ obj[n].start # "nobody"
      /\ obj[n].status = "set" /\ obj[n].start = "none" => obj[n].bodies
      /\ obj[n].status # "set" => obj[n].start = "none"
      /\ obj[n].status # "bad"
      /\ obj[n].task = "sending" => obj[n].bodies
      /\ obj[n].task = "sending" /\ obj[n].latest => frame = "over"

SInv == QInv /\ Dying /\ Untimed /\ Streaming

IInv ==
  /\ TInv
  /\ "expect" \notin habits => QInv
  /\ habits \subseteq {"stops"} => SInv

-----------------------------------------------------------------------------
(* The functions of WsgiConnection that end, stop or restart reading.      *)

(* What they leave alone. *)
Data(q, k) ==
  /\ q \in W!Conn
  /\ q.rx = k.rx /\ q.buf = k.buf /\ q.parsed = k.parsed
  /\ q.parser = k.parser /\ q.reqT = k.reqT /\ q.lastT = k.lastT
  /\ q.chunked = k.chunked /\ q.wq = k.wq
  /\ q.recvd = k.recvd /\ q.ppos = k.ppos
  /\ q.asked = k.asked /\ q.done = k.done /\ q.calls = k.calls

Ends(q, k) ==
  /\ Data(q, k) /\ ~W!Alive(q) /\ q.state = "CS_DESTROY"
  /\ q.uv = k.uv \/ (k.uv = "open" /\ q.uv = "closing")
  /\ ~k.reading => ~q.reading

(* close_connection. *)
LEMMA CloseEnds ==
  ASSUME NEW k \in W!Conn
  PROVE  /\ Ends(W!close_connection(k), k)
         /\ W!close_connection(k).shut = k.shut
         /\ k.uv = "open" => ~W!close_connection(k).reading
  BY ZenonT(60) DEF W!close_connection, W!Conn, W!ClientState, Ends, Data, W!Alive

(* stream_read_stop. *)
LEMMA StopReads ==
  ASSUME NEW k \in W!Conn
  PROVE  LET q == W!stream_read_stop(k)
         IN /\ Data(q, k) /\ ~q.reading
            /\ q.uv = k.uv /\ q.shut = k.shut /\ q.state = k.state
  BY DEF W!stream_read_stop, W!Conn, Data

(* shutdown_connection: behind queued writes, uv_shutdown is accepted.     *)
LEMMA ShutdownEnds ==
  ASSUME NEW k \in W!Conn
  PROVE  LET q == W!shutdown_connection(k)
         IN Ends(q, k) /\ (k.uv = "open" => q.shut) /\ (k.shut => q.shut)
<1>1. CASE W!NotConn(k)
  BY <1>1, CloseEnds DEF W!shutdown_connection, W!NotConn
<1>2. CASE ~W!NotConn(k)
  BY <1>2 DEF W!shutdown_connection, W!NotConn, W!Conn, W!ClientState, Ends,
     Data, W!Alive
<1> QED
  BY <1>1, <1>2

(* Both, as read_cb, the service timer and the read timer call them.       *)
LEMMA StopEnds ==
  ASSUME NEW k \in W!Conn
  PROVE  LET q == W!shutdown_connection(W!stream_read_stop(k))
             c == W!close_connection(W!stream_read_stop(k))
         IN /\ Ends(q, k) /\ ~q.reading
            /\ (k.uv = "open" => q.shut) /\ (k.shut => q.shut)
            /\ Ends(c, k) /\ ~c.reading /\ c.shut = k.shut
<1> DEFINE s == W!stream_read_stop(k)
<1>1. /\ Data(s, k) /\ ~s.reading /\ s \in W!Conn
      /\ s.uv = k.uv /\ s.shut = k.shut
  BY StopReads DEF Data
<1> HIDE DEF s
<1>2. /\ Ends(W!shutdown_connection(s), s) /\ Ends(W!close_connection(s), s)
      /\ (s.uv = "open" => W!shutdown_connection(s).shut)
      /\ (s.shut => W!shutdown_connection(s).shut)
      /\ W!close_connection(s).shut = s.shut
  BY <1>1, ShutdownEnds, CloseEnds
<1>3. /\ Ends(W!shutdown_connection(s), k) /\ ~W!shutdown_connection(s).reading
      /\ Ends(W!close_connection(s), k) /\ ~W!close_connection(s).reading
  BY <1>1, <1>2 DEF Ends, Data
<1> QED
  BY <1>1, <1>2, <1>3 DEF s

(* stream_read_start leaves a frozen buffer and a response alone, reads on *)
(* while the handle is open, and ends otherwise.                           *)
LEMMA StartReads ==
  ASSUME NEW k \in W!Conn
  PROVE  LET q == W!stream_read_start(k)
         IN /\ Data(q, k) /\ q.shut = k.shut
            /\ q.uv = k.uv \/ (k.uv = "open" /\ q.uv = "closing")
            /\ W!Alive(k) => W!Alive(q)
            /\ k.state = "CS_RESP_SEND" \/ k.rx = "RXS_FREEZED" => q = k
            /\ /\ k.state # "CS_RESP_SEND" /\ k.rx # "RXS_FREEZED"
               /\ k.uv = "open"
               => q.reading /\ q.state = "CS_REQ_READ"
            /\ q.state = "CS_RESP_SEND" => k.state = "CS_RESP_SEND"
<1>1. CASE k.rx = "RXS_FREEZED" \/ k.state = "CS_RESP_SEND"
  BY <1>1 DEF W!stream_read_start, Data
<1>2. CASE /\ ~(k.rx = "RXS_FREEZED" \/ k.state = "CS_RESP_SEND")
           /\ k.uv = "open"
  BY <1>2 DEF W!stream_read_start, W!Conn, W!ClientState, Data, W!Alive
<1>3. CASE /\ ~(k.rx = "RXS_FREEZED" \/ k.state = "CS_RESP_SEND")
           /\ k.uv # "open"
  <2>1. W!stream_read_start(k) = W!close_connection(k)
    BY <1>3 DEF W!stream_read_start
  <2> QED
    BY <1>3, <2>1, CloseEnds DEF Ends, W!Alive
<1> QED
  BY <1>1, <1>2, <1>3

(* reset_response_body forgets the response, and the chunks of it. *)
LEMMA ResetBody ==
  ASSUME NEW k \in W!Conn
  PROVE  LET q == W!reset_response_body(k)
         IN /\ Data(q, [k EXCEPT !.chunked = 0]) /\ q.pre = 0
            /\ q.state = k.state /\ q.uv = k.uv /\ q.shut = k.shut
            /\ q.reading = k.reading
<1> DEFINE q == W!reset_response_body(k)
           z == [k EXCEPT !.chunked = 0]
<1>0. 0 \in Nat /\ 0 \in 0 .. 2 /\ FALSE \in BOOLEAN
  OBVIOUS
<1>1. z \in W!Conn
  BY <1>0 DEF W!Conn
<1>2. q \in W!Conn
  <2>1. [k EXCEPT !.pre = 0, !.total = 0, !.written = 0] \in W!Conn
    BY <1>0 DEF W!Conn
  <2> QED
    BY <1>0, <2>1 DEF W!Conn, W!reset_response_body
<1>3. /\ q.rx = k.rx /\ q.buf = k.buf /\ q.parsed = k.parsed
      /\ q.parser = k.parser /\ q.reqT = k.reqT /\ q.lastT = k.lastT
      /\ q.chunked = 0 /\ q.wq = k.wq /\ q.recvd = k.recvd
      /\ q.ppos = k.ppos /\ q.asked = k.asked /\ q.done = k.done
      /\ q.state = k.state /\ q.uv = k.uv /\ q.shut = k.shut
      /\ q.reading = k.reading /\ q.pre = 0 /\ q.calls = k.calls
  BY DEF W!reset_response_body, W!Conn
<1>4. /\ z.rx = k.rx /\ z.buf = k.buf /\ z.parsed = k.parsed
      /\ z.parser = k.parser /\ z.reqT = k.reqT /\ z.lastT = k.lastT
      /\ z.chunked = 0 /\ z.wq = k.wq /\ z.recvd = k.recvd
      /\ z.ppos = k.ppos /\ z.asked = k.asked /\ z.done = k.done
      /\ z.calls = k.calls
  BY DEF W!Conn
<1> QED
  BY <1>2, <1>3, <1>4 DEF Data

-----------------------------------------------------------------------------
(* Writing.                                                                *)

(* What a write, or its refusal, leaves alone. *)
Aside(q, k) ==
  /\ q \in W!Conn
  /\ q.rx = k.rx /\ q.buf = k.buf /\ q.parsed = k.parsed
  /\ q.parser = k.parser /\ q.reqT = k.reqT /\ q.lastT = k.lastT
  /\ q.recvd = k.recvd /\ q.ppos = k.ppos
  /\ q.asked = k.asked /\ q.done = k.done /\ q.calls = k.calls

Wrote(q, k) ==
  /\ Aside(q, k) /\ q.uv = k.uv /\ q.shut = k.shut
  /\ W!Writable(k) => /\ q.wq = Append(k.wq, "resp")
                      /\ q.state = "CS_RESP_SEND" /\ ~q.reading
  /\ ~W!Writable(k) => q.wq = k.wq /\ q.state = "CS_DESTROY"
  /\ k.state # "CS_RESP_SEND" => ~q.reading

(* stream_write. *)
LEMMA Writing ==
  ASSUME NEW k \in W!Conn
  PROVE  Wrote(W!stream_write(k), k) /\ W!stream_write(k).chunked = k.chunked
<1> DEFINE q == W!stream_write(k)
<1>1. CASE W!Writable(k)
  <2>1. Append(k.wq, "resp") \in Seq({"status", "resp"})
    BY DEF W!Conn
  <2>2. q = [k EXCEPT !.state = "CS_RESP_SEND", !.reading = FALSE,
                      !.wq = Append(k.wq, "resp")]
    BY <1>1 DEF W!stream_write, W!Writable
  <2> QED
    BY ZenonT(60), <1>1, <2>1, <2>2 DEF W!Conn, W!ClientState, Wrote, Aside
<1>2. CASE ~W!Writable(k)
  <2>1. CASE k.state = "CS_RESP_SEND"
    <3>1. q = [k EXCEPT !.state = "CS_DESTROY"]
      BY <1>2, <2>1 DEF W!stream_write
    <3> QED
      BY ZenonT(60), <1>2, <2>1, <3>1 DEF W!Conn, W!ClientState, Wrote, Aside
  <2>2. CASE k.state # "CS_RESP_SEND"
    <3>1. q = [k EXCEPT !.state = "CS_DESTROY", !.reading = FALSE]
      BY <1>2, <2>2 DEF W!stream_write
    <3> QED
      BY ZenonT(60), <1>2, <2>2, <3>1 DEF W!Conn, W!ClientState, Wrote, Aside
  <2> QED
    BY <2>1, <2>2
<1> QED
  BY <1>1, <1>2

(* The head of a response. *)
LEMMA WritingHead ==
  ASSUME NEW k \in W!Conn, NEW status \in {"200", "400", "417"}
  PROVE  LET q == W!WriteHead(k, status)
         IN Wrote(q, k) /\ q.chunked = k.chunked
<1> DEFINE w == W!stream_write(k)
           q == [w EXCEPT !.begun = w.begun + 1, !.status = status]
<1>1. Wrote(w, k) /\ w.chunked = k.chunked /\ w \in W!Conn
  BY Writing DEF Wrote, Aside
<1>2. W!WriteHead(k, status) = IF W!Writable(k) THEN q ELSE w
  BY DEF W!WriteHead
<1> HIDE DEF w
<1>3. w.begun + 1 \in Nat /\ status \in W!Status
  <2>1. w.begun \in Nat
    BY <1>1 DEF W!Conn
  <2>2. status \in W!Status
    BY DEF W!Status
  <2> QED
    BY <2>1, <2>2
<1>4. q \in W!Conn
  BY <1>1, <1>3 DEF W!Conn
<1>5. Wrote(q, k) /\ q.chunked = w.chunked
  BY <1>1, <1>4 DEF W!Conn, Wrote, Aside
<1> QED
  BY <1>1, <1>2, <1>5

(* An error answer by send_error: the write of an empty response. *)
LEMMA WritingStatus ==
  ASSUME NEW k \in W!Conn, NEW status \in {"400", "417"},
         k.state # "CS_RESP_SEND"
  PROVE  LET q == W!SendStatus(k, status)
         IN /\ Aside(q, k) /\ q.uv = k.uv /\ q.shut = k.shut /\ ~q.reading
            /\ W!Alive(k) =>
                 q.wq = Append(k.wq, "resp") /\ q.state = "CS_RESP_SEND"
            /\ ~W!Alive(k) => q.wq = k.wq /\ q.state = "CS_DESTROY"
<1> DEFINE b == W!BuildEmpty(k)
<1>1. /\ Aside(b, k) /\ b.uv = k.uv /\ b.shut = k.shut
      /\ b.wq = k.wq /\ b.state = k.state /\ b \in W!Conn
  <2>1. CASE k.chunked = 0
    <3>1. b = W!reset_response_body(k)
      BY <2>1 DEF W!BuildEmpty
    <3>2. [k EXCEPT !.chunked = 0] = k
      BY <2>1 DEF W!Conn
    <3> QED
      BY <3>1, <3>2, ResetBody DEF Data, Aside
  <2>2. CASE k.chunked # 0
    BY <2>2 DEF W!BuildEmpty, Aside
  <2> QED
    BY <2>1, <2>2
<1>2. W!SendStatus(k, status) = W!WriteHead(b, status)
  BY DEF W!SendStatus
<1> HIDE DEF b
<1>3. Wrote(W!WriteHead(b, status), b)
  BY <1>1, WritingHead
<1>4. W!Writable(b) <=> W!Alive(k)
  BY <1>1 DEF W!Writable, W!NotConn, W!Alive
<1> QED
  BY <1>1, <1>2, <1>3, <1>4 DEF Wrote, Aside

(* What an answer, and the action that follows it, leave of a client_t.    *)
AnsweredWith(q, k) ==
  /\ Aside(q, k) /\ ~q.reading
  /\ q.uv = k.uv \/ (k.uv = "open" /\ q.uv = "closing")
  /\ W!Alive(k) => /\ q.wq = Append(k.wq, "resp")
                   /\ q.uv = "open" \/ q.shut
  /\ ~W!Alive(k) => q.wq = k.wq
  /\ ~W!Alive(q) => q.state = "CS_DESTROY"
  /\ W!Alive(q) => W!Alive(k) /\ q.state = "CS_RESP_SEND"

(* An error answer keeps the connection if the request allows it. *)
LEMMA Answering ==
  ASSUME NEW k \in W!Conn, NEW status \in {"400", "417"},
         k.state # "CS_RESP_SEND"
  PROVE  AnsweredWith(W!ReadFin(k, status, "CA_OK", FALSE), k)
<1> DEFINE s == W!SendStatus(k, status)
           d == W!shutdown_connection(W!stream_read_stop(s))
           q == W!ReadFin(k, status, "CA_OK", FALSE)
<1>1. /\ Aside(s, k) /\ s.uv = k.uv /\ s.shut = k.shut /\ ~s.reading
      /\ W!Alive(k) =>
           s.wq = Append(k.wq, "resp") /\ s.state = "CS_RESP_SEND"
      /\ ~W!Alive(k) => s.wq = k.wq /\ s.state = "CS_DESTROY"
  BY WritingStatus
<1>2. q = s \/ q = d
  BY DEF W!ReadFin, W!TakeAction
<1> HIDE DEF s
<1>3. s \in W!Conn
  BY <1>1 DEF Aside
<1>4. /\ Ends(d, s) /\ ~d.reading /\ (s.uv = "open" => d.shut)
      /\ (s.shut => d.shut)
  BY <1>3, StopEnds
<1> HIDE DEF d, q
<1>5. AnsweredWith(s, k)
  BY <1>1 DEF AnsweredWith, W!Alive
<1>6. AnsweredWith(d, k)
  BY <1>1, <1>4 DEF AnsweredWith, W!Alive, Ends, Data, Aside
<1> QED
  BY <1>2, <1>5, <1>6 DEF q

(* A request that cannot be parsed is answered and the connection ends. *)
LEMMA Rejecting ==
  ASSUME NEW k \in W!Conn, k.state # "CS_RESP_SEND"
  PROVE  LET q == W!ReadFin(W!SendStatus(k, "400"), "none", "CA_SHUTDOWN", FALSE)
         IN AnsweredWith(q, k) /\ ~W!Alive(q)
<1> DEFINE s == W!SendStatus(k, "400")
           d == W!shutdown_connection(W!stream_read_stop(s))
<1>1. /\ Aside(s, k) /\ s.uv = k.uv /\ s.shut = k.shut /\ ~s.reading
      /\ W!Alive(k) => s.wq = Append(k.wq, "resp")
      /\ ~W!Alive(k) => s.wq = k.wq
  BY WritingStatus
<1>2. W!ReadFin(s, "none", "CA_SHUTDOWN", FALSE) = d
  BY DEF W!ReadFin, W!TakeAction
<1> HIDE DEF s
<1>3. s \in W!Conn
  BY <1>1 DEF Aside
<1>4. /\ Ends(d, s) /\ ~d.reading /\ (s.uv = "open" => d.shut)
      /\ (s.shut => d.shut)
  BY <1>3, StopEnds
<1> HIDE DEF d
<1>5. AnsweredWith(d, k) /\ ~W!Alive(d)
  BY <1>1, <1>4 DEF AnsweredWith, W!Alive, Ends, Data, Aside
<1> QED
  BY <1>2, <1>5 DEF s

-----------------------------------------------------------------------------
(* Parsing.                                                                *)

Within(k, e) == e \in k.parsed + 1 .. Len(k.buf)

(* The handle may be closed, and what lives stays alive. *)
Stays(q, k) ==
  /\ q.shut = k.shut
  /\ q.uv = k.uv \/ (k.uv = "open" /\ q.uv = "closing")
  /\ W!Alive(k) => W!Alive(q)
  /\ q.state = "CS_RESP_SEND" => k.state = "CS_RESP_SEND"

(* A message that begins resets the times and the response. *)
Marks(q, k) ==
  IF k.parser = "idle" THEN ~q.lastT /\ q.chunked = 0
                       ELSE q.lastT = k.lastT /\ q.chunked = k.chunked

(* llhttp_execute up to its last callback: a message has begun, and        *)
(* nothing is written unless 100-continue is asked for.                    *)
Fed(q, k) ==
  /\ q \in W!Conn
  /\ q.rx = k.rx /\ q.buf = k.buf /\ q.parsed = k.parsed
  /\ q.recvd = k.recvd /\ q.ppos = k.ppos
  /\ q.asked = k.asked /\ q.done = k.done /\ q.calls = k.calls
  /\ q.reading = k.reading /\ q.uv = k.uv /\ q.shut = k.shut
  /\ q.parser = IF k.parser = "idle" THEN "mid" ELSE k.parser
  /\ Marks(q, k) /\ q.state # "CS_RESP_SEND"
  /\ k.parser = "idle" \/ k.reqT => q.reqT
  /\ NoExpect(k) => q.wq = k.wq /\ q.state = "CS_REQ_PARSE"

(* The callbacks that run during a parse. *)
LEMMA Feeding ==
  ASSUME NEW k \in W!Conn, NEW e, Within(k, e)
  PROVE  Fed(W!Feed(k, e), k)
<1> DEFINE p == [k EXCEPT !.state = "CS_REQ_PARSE"]
           r == W!reset_response_body(p)
           b == [r EXCEPT !.reqT = TRUE, !.lastT = FALSE, !.parser = "mid"]
           m == IF k.parser = "idle" THEN b ELSE p
           x == W!x_send_status(m)
<1>1. /\ p \in W!Conn /\ p.state = "CS_REQ_PARSE" /\ p.uv = k.uv
      /\ p.shut = k.shut /\ p.reading = k.reading
      /\ Data(p, k)
  BY DEF W!Conn, W!ClientState, Data
<1>2. Fed(p, k) \/ k.parser = "idle"
  BY <1>1 DEF Fed, Data, Marks
<1> HIDE DEF p
<1>3. /\ Data(r, [p EXCEPT !.chunked = 0]) /\ r.state = p.state
      /\ r.uv = p.uv /\ r.shut = p.shut /\ r.reading = p.reading
  BY <1>1, ResetBody
<1> HIDE DEF r
<1>4. /\ r \in W!Conn /\ r.chunked = 0 /\ r.wq = p.wq /\ r.rx = p.rx
      /\ r.buf = p.buf /\ r.parsed = p.parsed /\ r.recvd = p.recvd
      /\ r.ppos = p.ppos /\ r.asked = p.asked /\ r.done = p.done
      /\ r.calls = p.calls
  BY <1>1, <1>3 DEF Data, W!Conn
<1>5. /\ b \in W!Conn /\ b.chunked = 0 /\ b.wq = r.wq /\ b.rx = r.rx
      /\ b.buf = r.buf /\ b.parsed = r.parsed /\ b.recvd = r.recvd
      /\ b.ppos = r.ppos /\ b.asked = r.asked /\ b.done = r.done
      /\ b.state = r.state /\ b.uv = r.uv /\ b.shut = r.shut
      /\ b.reading = r.reading /\ ~b.lastT /\ b.parser = "mid"
      /\ b.reqT /\ b.calls = r.calls
  BY ZenonT(60), <1>4 DEF W!Conn
<1> HIDE DEF b
<1>6. Fed(m, k) /\ m.wq = k.wq
  BY <1>1, <1>2, <1>3, <1>4, <1>5 DEF Fed, Data, Marks
<1> HIDE DEF m
<1>7. ASSUME ~NoExpect(k) PROVE Fed(x, k)
  <2>0. m \in W!Conn
    BY <1>6 DEF Fed
  <2>1. CASE W!NotConn(m)
    <3>1. x = [m EXCEPT !.state = "CS_DESTROY"]
      BY <2>1 DEF W!x_send_status
    <3>2. Data(x, m) /\ x.state = "CS_DESTROY" /\ x.reading = m.reading
          /\ x.uv = m.uv /\ x.shut = m.shut
      BY ZenonT(60), <2>0, <3>1 DEF W!Conn, W!ClientState, Data
    <3> QED
      BY <1>6, <1>7, <3>2 DEF Fed, Data, Marks
  <2>2. CASE ~W!NotConn(m)
    <3>1. Append(m.wq, "status") \in Seq({"status", "resp"})
      BY <2>0 DEF W!Conn
    <3>2. x = [m EXCEPT !.wq = Append(m.wq, "status")]
      BY <2>2 DEF W!x_send_status
    <3>3. Aside(x, m) /\ x.state = m.state /\ x.reading = m.reading
          /\ x.uv = m.uv /\ x.shut = m.shut /\ x.chunked = m.chunked
      BY ZenonT(60), <2>0, <3>1, <3>2 DEF W!Conn, Aside
    <3> QED
      BY <1>6, <1>7, <3>3 DEF Fed, Aside, Marks
  <2> QED
    BY <2>1, <2>2
<1>8. ASSUME NoExpect(k) PROVE ~W!ExpectsContinue(k, e)
  <2>1. k.parsed \in Nat /\ Len(k.buf) \in Nat
    BY DEF W!Conn
  <2>2. \A i \in k.parsed + 1 .. e : i \in 1 .. Len(k.buf)
    BY <2>1 DEF Within
  <2> QED
    BY <1>8, <2>2 DEF W!ExpectsContinue, W!Unparsed, NoExpect
<1>9. W!Feed(k, e) = IF k.parser = "error" \/ ~W!ExpectsContinue(k, e)
                     THEN m ELSE x
  BY DEF W!Feed, W!on_message_begin, p, r, b, m
<1> QED
  BY <1>6, <1>7, <1>8, <1>9

(* The buffer is used up to e. *)
Consumed(q, k, e) ==
  /\ q \in W!Conn
  /\ q.buf = k.buf /\ q.parsed = e /\ q.ppos = k.ppos + (e - k.parsed)
  /\ q.parser = k.parser /\ q.reqT = k.reqT /\ q.lastT = k.lastT
  /\ q.chunked = k.chunked /\ q.wq = k.wq /\ q.recvd = k.recvd
  /\ q.asked = k.asked /\ q.done = k.done /\ q.calls = k.calls
  /\ Stays(q, k)

(* The parser moves on in the buffer, and the buffer changes its status. *)
LEMMA Advancing ==
  ASSUME NEW k \in W!Conn, NEW e, Within(k, e), NEW rx \in W!RxStatus
  PROVE  LET p == [k EXCEPT !.parsed = e, !.ppos = k.ppos + (e - k.parsed)]
             q == [p EXCEPT !.rx = rx]
         IN /\ Consumed(p, k, e) /\ p.rx = k.rx
            /\ Consumed(q, k, e) /\ q.rx = rx
<1>1. k.parsed \in Nat /\ k.ppos \in Nat /\ Len(k.buf) \in Nat
  BY DEF W!Conn
<1>2. e \in Nat /\ k.ppos + (e - k.parsed) \in Nat
  BY <1>1 DEF Within
<1> DEFINE n == k.ppos + (e - k.parsed)
<1> HIDE DEF n
<1>3. n \in Nat
  BY <1>2 DEF n
<1>4. LET p == [k EXCEPT !.parsed = e, !.ppos = n]
          q == [p EXCEPT !.rx = rx]
      IN /\ p \in W!Conn /\ p.rx = k.rx /\ p.ppos = n /\ p.parsed = e
         /\ q \in W!Conn /\ q.rx = rx /\ q.ppos = n /\ q.parsed = e
         /\ \A z \in {p, q} :
              /\ z.buf = k.buf /\ z.parser = k.parser /\ z.reqT = k.reqT
              /\ z.lastT = k.lastT /\ z.chunked = k.chunked /\ z.wq = k.wq
              /\ z.recvd = k.recvd /\ z.asked = k.asked /\ z.done = k.done
              /\ z.shut = k.shut /\ z.uv = k.uv /\ z.state = k.state
  BY ZenonT(60), <1>2, <1>3 DEF W!Conn
<1> QED
  BY <1>4 DEF Consumed, Stays, W!Alive, n

(* A client_t that consumes, and then reads on, or stops reading. *)
LEMMA ConsumedOn ==
  ASSUME NEW k, NEW p, NEW e, Consumed(p, k, e)
  PROVE  Consumed(W!stream_read_start(p), k, e)
<1>1. p \in W!Conn
  BY DEF Consumed
<1> DEFINE q == W!stream_read_start(p)
<1>2. /\ Data(q, p) /\ q.shut = p.shut
      /\ q.uv = p.uv \/ (p.uv = "open" /\ q.uv = "closing")
      /\ W!Alive(p) => W!Alive(q)
      /\ q.state = "CS_RESP_SEND" => p.state = "CS_RESP_SEND"
  BY <1>1, StartReads
<1> HIDE DEF q
<1>3. Consumed(q, k, e)
  BY <1>2 DEF Consumed, Stays, Data
<1> QED
  BY <1>3 DEF q

(* An incomplete message. *)
LEMMA Incompleting ==
  ASSUME NEW k \in W!Conn, NEW e, Within(k, e)
  PROVE  LET q == W!Incomplete(k, e)
         IN /\ Consumed(q, k, e)
            /\ /\ k.state \notin {"CS_RESP_SEND", "CS_DESTROY"} /\ W!Alive(q)
               => q.state # "CS_DESTROY"
            /\ /\ k.state # "CS_RESP_SEND" /\ k.uv = "open"
               /\ k.reading \/ k.rx = "RXS_FREEZED"
               => q.reading
<1> DEFINE p == [k EXCEPT !.parsed = e, !.ppos = k.ppos + (e - k.parsed)]
           q == [p EXCEPT !.rx = "RXS_READING"]
<1>1. "RXS_READING" \in W!RxStatus
  BY DEF W!RxStatus
<1>2. Consumed(p, k, e) /\ Consumed(q, k, e)
  BY <1>1, Advancing
<1>3. W!Incomplete(k, e) = IF p.rx = "RXS_FREEZED" THEN W!stream_read_start(q)
                                                   ELSE p
  BY DEF W!Incomplete
<1>4. /\ p.rx = k.rx /\ p.state = k.state /\ p.uv = k.uv
      /\ p.reading = k.reading
      /\ q.rx = "RXS_READING" /\ q.state = k.state /\ q.uv = k.uv
  BY DEF W!Conn
<1> HIDE DEF p, q
<1>5. q \in W!Conn
  BY <1>2 DEF Consumed
<1> DEFINE s == W!stream_read_start(q)
<1>6. /\ s.uv = q.uv \/ (q.uv = "open" /\ s.uv = "closing")
      /\ q.state # "CS_RESP_SEND" /\ q.rx # "RXS_FREEZED" /\ q.uv = "open"
           => s.reading /\ s.state = "CS_REQ_READ"
  BY <1>5, StartReads
<1>7. Consumed(s, k, e)
  BY <1>2, ConsumedOn
<1> HIDE DEF s
<1>8. W!Alive(s) => q.uv = "open"
  BY <1>6 DEF W!Alive
<1>9. CASE k.rx = "RXS_FREEZED"
  BY <1>3, <1>4, <1>6, <1>7, <1>8, <1>9 DEF s
<1>10. CASE k.rx # "RXS_FREEZED"
  BY <1>2, <1>3, <1>4, <1>10
<1> QED
  BY <1>9, <1>10

(* A complete message pauses the parser. *)
LEMMA Pausing ==
  ASSUME NEW k \in W!Conn, NEW e, Within(k, e)
  PROVE  Consumed(W!Paused(k, e), k, e)
<1> DEFINE p == [k EXCEPT !.parsed = e, !.ppos = k.ppos + (e - k.parsed)]
           q == [p EXCEPT !.rx = "RXS_READING"]
           f == [p EXCEPT !.rx = "RXS_FREEZED"]
<1>1. "RXS_READING" \in W!RxStatus /\ "RXS_FREEZED" \in W!RxStatus
  BY DEF W!RxStatus
<1>2. Consumed(q, k, e) /\ Consumed(f, k, e)
  BY <1>1, Advancing
<1>3. W!Paused(k, e) = IF e = Len(k.buf) THEN W!stream_read_start(q)
                                         ELSE W!stream_read_stop(f)
  BY DEF W!Paused
<1> HIDE DEF q, f
<1>4. f \in W!Conn
  BY <1>2 DEF Consumed
<1>5. /\ Data(W!stream_read_stop(f), f)
      /\ W!stream_read_stop(f).uv = f.uv /\ W!stream_read_stop(f).shut = f.shut
      /\ W!stream_read_stop(f).state = f.state
  BY <1>4, StopReads
<1>6. Consumed(W!stream_read_stop(f), k, e)
  BY <1>2, <1>5 DEF Consumed, Stays, Data, W!Alive
<1> QED
  BY <1>2, <1>3, <1>6, ConsumedOn

(* A message is complete: what on_message_complete and the pause leave.    *)
Completed(q, k, e) ==
  /\ q \in W!Conn
  /\ q.buf = k.buf /\ q.parsed = e /\ q.ppos = k.ppos + (e - k.parsed)
  /\ q.recvd = k.recvd /\ q.done = k.done /\ q.asked = k.asked + 1
  /\ q.parser = "idle" /\ ~q.reqT /\ Marks(q, k)
  /\ q.shut = k.shut
  /\ q.uv = k.uv \/ (k.uv = "open" /\ q.uv = "closing")
  /\ W!Alive(k) => W!Alive(q)
  /\ q.state # "CS_RESP_SEND"
  /\ NoExpect(k) => q.wq = k.wq

(* on_message_complete, and the pause after it. *)
LEMMA Completing ==
  ASSUME NEW k \in W!Conn, NEW e, Within(k, e)
  PROVE  LET q == W!Paused(W!on_message_complete(W!Feed(k, e), e), e)
         IN Completed(q, k, e) /\ q.calls = k.calls
<1> DEFINE f == W!Feed(k, e)
           m == W!on_message_complete(f, e)
           q == W!Paused(m, e)
<1>1. Fed(f, k)
  BY Feeding
<1> HIDE DEF f
<1>2. /\ f.asked + 1 \in Nat /\ (f.buf[e] # "endClose") \in BOOLEAN
      /\ f \in W!Conn
  BY SMTT(30), <1>1 DEF Fed, W!Conn
<1>3. /\ m \in W!Conn /\ m.parser = "idle" /\ ~m.reqT /\ m.asked = f.asked + 1
      /\ m.rx = f.rx /\ m.buf = f.buf /\ m.parsed = f.parsed
      /\ m.recvd = f.recvd /\ m.ppos = f.ppos /\ m.done = f.done
      /\ m.uv = f.uv /\ m.shut = f.shut /\ m.state = f.state /\ m.wq = f.wq
      /\ m.lastT = f.lastT /\ m.chunked = f.chunked /\ m.calls = f.calls
  BY ZenonT(60), <1>2 DEF W!on_message_complete, W!Conn
<1> HIDE DEF m
<1>4. Within(m, e)
  BY <1>1, <1>3 DEF Within, Fed
<1>5. Consumed(q, m, e)
  BY <1>3, <1>4, Pausing
<1> HIDE DEF q
<1>6. Completed(q, k, e) /\ q.calls = k.calls
  BY <1>1, <1>3, <1>5 DEF Completed, Consumed, Fed, Stays, Marks, W!Alive
<1> QED
  BY <1>6 DEF q, m, f

(* The count of request data after a parse. *)
LEMMA CountsKept ==
  ASSUME NEW k \in W!Conn, NEW q \in W!Conn, NEW e, Within(k, e), Counts(k),
         q.buf = k.buf, q.recvd = k.recvd, q.parsed = e,
         q.ppos = k.ppos + (e - k.parsed), q.asked \in {k.asked, k.asked + 1}
  PROVE  Counts(q)
<1> DEFINE l == Len(k.buf)
           p == k.parsed
           o == k.ppos
           a == k.asked
           r == k.recvd
<1>1. l \in Nat /\ p \in Nat /\ o \in Nat /\ a \in Nat /\ r \in Nat
  BY DEF W!Conn
<1>2. e \in p + 1 .. l /\ p <= l /\ a <= o /\ o + l - p <= r /\ r <= MaxTokens
  BY DEF Within, Counts
<1>3. q.asked = a \/ q.asked = a + 1
  OBVIOUS
<1>4. /\ Len(q.buf) = l /\ q.parsed = e /\ q.recvd = r
      /\ q.ppos = o + (e - p)
  OBVIOUS
<1> HIDE DEF l, p, o, a, r
<1>5. MaxTokens \in Nat
  BY BoundsAssumption
<1>6. e <= l /\ o + (e - p) + l - e <= r /\ a + 1 <= o + (e - p)
  BY <1>1, <1>2, <1>5
<1> QED
  BY <1>1, <1>2, <1>3, <1>4, <1>6 DEF Counts

(* A call of the application is counted, and nothing else changes.         *)
CountsCall(q, k) ==
  /\ q \in W!Conn /\ q.calls = k.calls + 1
  /\ q.rx = k.rx /\ q.buf = k.buf /\ q.parsed = k.parsed
  /\ q.parser = k.parser /\ q.reqT = k.reqT /\ q.lastT = k.lastT
  /\ q.chunked = k.chunked /\ q.wq = k.wq
  /\ q.recvd = k.recvd /\ q.ppos = k.ppos
  /\ q.asked = k.asked /\ q.done = k.done
  /\ q.uv = k.uv /\ q.shut = k.shut

(* asgi_call_app counts and may change the state. *)
LEMMA Calling ==
  ASSUME NEW c \in W!Conn
  PROVE  LET a == [c EXCEPT !.calls = c.calls + 1]
             b == [c EXCEPT !.state = "CS_RESP_BILD", !.calls = c.calls + 1]
         IN /\ CountsCall(a, c) /\ a.state = c.state
            /\ CountsCall(b, c) /\ b.state = "CS_RESP_BILD"
<1> DEFINE n == c.calls + 1
<1>1. n \in Nat
  <2>1. c.calls \in Nat
    BY DEF W!Conn
  <2> QED
    BY <2>1
<1> HIDE DEF n
<1>2. LET a == [c EXCEPT !.calls = n]
          b == [c EXCEPT !.state = "CS_RESP_BILD", !.calls = n]
      IN /\ CountsCall(a, c) /\ a.state = c.state
         /\ CountsCall(b, c) /\ b.state = "CS_RESP_BILD"
  <2>1. LET a == [c EXCEPT !.calls = n] IN CountsCall(a, c) /\ a.state = c.state
    BY <1>1 DEF W!Conn, W!ClientState, CountsCall, n
  <2>2. LET b == [c EXCEPT !.state = "CS_RESP_BILD", !.calls = n]
        IN CountsCall(b, c) /\ b.state = "CS_RESP_BILD"
    BY ZenonT(60), <1>1 DEF W!Conn, W!ClientState, CountsCall, n
  <2> QED
    BY <2>1, <2>2
<1> QED
  BY <1>2 DEF n

(* A request that is run: the client_t of a message whose coroutine starts.*)
LEMMA RunsIt ==
  ASSUME NEW k \in W!Conn, NEW e, Within(k, e), Completes(k, e)
  PROVE  LET q == Parsed(k, e, TRUE)
         IN /\ Completed(q, k, e) /\ ~q.reading
            /\ q.state = "CS_RESP_BILD" /\ q.calls = k.calls + 1
<1> DEFINE c == W!Paused(W!on_message_complete(W!Feed(k, e), e), e)
           a == [c EXCEPT !.state = "CS_RESP_BILD", !.calls = c.calls + 1]
           q == W!stream_read_stop(a)
<1>1. Completed(c, k, e) /\ c.calls = k.calls
  BY Completing
<1>2. Parsed(k, e, TRUE) = q
  BY DEF Parsed, asgi_call_app
<1> HIDE DEF c
<1>3. c \in W!Conn
  BY <1>1 DEF Completed
<1>4. /\ Completed(a, k, e) /\ a.state = "CS_RESP_BILD"
      /\ a.calls = k.calls + 1
  <2>1. a.state = "CS_RESP_BILD" /\ CountsCall(a, c)
    BY <1>3, Calling
  <2> QED
    BY <1>1, <2>1 DEF Completed, CountsCall, Marks, W!Alive
<1>5. a \in W!Conn
  BY <1>4 DEF Completed
<1> HIDE DEF a
<1>6. /\ Data(q, a) /\ ~q.reading /\ q.uv = a.uv /\ q.shut = a.shut
      /\ q.state = a.state
  BY <1>5, StopReads
<1> HIDE DEF q
<1>7. Completed(q, k, e) /\ q.state = a.state /\ q.calls = a.calls
  BY <1>4, <1>6 DEF Completed, Data, Marks, W!Alive
<1> QED
  BY <1>2, <1>4, <1>6, <1>7

(* What every parse leaves. *)
Leaves(q, k, e) ==
  /\ q \in W!Conn /\ q.buf = k.buf /\ q.recvd = k.recvd /\ q.done = k.done
  /\ q.uv = k.uv \/ (k.uv = "open" /\ q.uv = "closing")
  /\ q.calls \in {k.calls, k.calls + 1}
  /\ Counts(k) => Counts(q)

(* A message that is complete and answered with an error. *)
Refused(q, k, e) ==
  /\ Leaves(q, k, e)
  /\ q.parser = "idle" /\ ~q.reading
  /\ NoExpect(k) => /\ W!Alive(k) => /\ q.wq = Append(k.wq, "resp")
                                     /\ q.uv = "open" \/ q.shut
                    /\ ~W!Alive(k) => q.wq = k.wq
  /\ W!Alive(k) /\ ~W!Alive(q) => q.state = "CS_DESTROY"
  /\ W!Alive(q) => W!Alive(k) /\ q.state = "CS_RESP_SEND"

(* An error answer to a message that is complete. *)
LEMMA RefusedBy ==
  ASSUME NEW k \in W!Conn, NEW e, Within(k, e), NEW c, Completed(c, k, e),
         c.calls \in {k.calls, k.calls + 1}, NEW q, AnsweredWith(q, c)
  PROVE  Refused(q, k, e)
<1>1. c \in W!Conn /\ q \in W!Conn
  BY DEF Completed, AnsweredWith, Aside
<1>2. /\ q.buf = k.buf /\ q.recvd = k.recvd /\ q.parsed = e
      /\ q.ppos = k.ppos + (e - k.parsed) /\ q.asked = k.asked + 1
      /\ q.done = k.done /\ q.parser = "idle" /\ ~q.reading
      /\ q.calls \in {k.calls, k.calls + 1}
  BY DEF Completed, AnsweredWith, Aside
<1>3. Counts(k) => Counts(q)
  BY <1>1, <1>2, CountsKept
<1>4. W!Alive(k) <=> W!Alive(c)
  BY DEF Completed, W!Alive
<1>5. Leaves(q, k, e)
  BY <1>1, <1>2, <1>3 DEF Completed, AnsweredWith, Leaves
<1> QED
  BY <1>2, <1>4, <1>5 DEF Completed, AnsweredWith, Refused

(* 417 for a body that is too large, 400 for a call that failed. *)
LEMMA RefusesIt ==
  ASSUME NEW k \in W!Conn, NEW e, Within(k, e), NEW ok \in BOOLEAN,
         \/ Completes(k, e) /\ ~ok
         \/ ~W!ParseFails(k, e) /\ k.buf[e] = "oversize"
  PROVE  Refused(Parsed(k, e, ok), k, e)
<1> DEFINE c == W!Paused(W!on_message_complete(W!Feed(k, e), e), e)
           a == [c EXCEPT !.calls = c.calls + 1]
<1>1. /\ Completed(c, k, e) /\ c.state # "CS_RESP_SEND"
      /\ c.calls = k.calls
  BY Completing DEF Completed
<1>2. CASE Completes(k, e) /\ ~ok
  <2>1. Parsed(k, e, ok) = W!ReadFin(a, "400", "CA_OK", FALSE)
    BY <1>2 DEF Parsed, asgi_call_app
  <2> HIDE DEF c
  <2>2. c \in W!Conn
    BY <1>1 DEF Completed
  <2>3. /\ a \in W!Conn /\ Completed(a, k, e) /\ a.state # "CS_RESP_SEND"
        /\ a.calls = k.calls + 1
    <3>1. a.state = c.state /\ CountsCall(a, c)
      BY <2>2, Calling
    <3> QED
      BY <1>1, <3>1 DEF Completed, CountsCall, Marks, W!Alive
  <2> HIDE DEF a
  <2>4. AnsweredWith(W!ReadFin(a, "400", "CA_OK", FALSE), a)
    BY <2>3, Answering
  <2> QED
    BY <2>1, <2>3, <2>4, RefusedBy
<1>3. CASE ~W!ParseFails(k, e) /\ k.buf[e] = "oversize"
  <2>1. Parsed(k, e, ok) = W!ReadFin(c, "417", "CA_OK", FALSE)
    BY <1>3 DEF Parsed, Completes, W!Parse, W!Stops
  <2> HIDE DEF c
  <2>2. AnsweredWith(W!ReadFin(c, "417", "CA_OK", FALSE), c)
    BY <1>1, Answering DEF Completed
  <2> QED
    BY <1>1, <2>1, <2>2, RefusedBy
<1> QED
  BY <1>2, <1>3

(* A request that cannot be parsed. *)
Failed(q, k, e) ==
  /\ Leaves(q, k, e)
  /\ q.parser = "error" /\ ~q.reading /\ ~W!Alive(q) /\ q.state = "CS_DESTROY"
  /\ NoExpect(k) => /\ W!Alive(k) => /\ q.wq = Append(k.wq, "resp")
                                     /\ q.uv = "open" \/ q.shut
                    /\ ~W!Alive(k) => q.wq = k.wq

(* 400, and the connection is shut down. *)
LEMMA FailsIt ==
  ASSUME NEW k \in W!Conn, NEW e, Within(k, e), NEW ok, W!ParseFails(k, e)
  PROVE  Failed(Parsed(k, e, ok), k, e)
<1> DEFINE f == W!Feed(k, e)
           p == [f EXCEPT !.parser = "error"]
           q == W!ReadFin(W!SendStatus(p, "400"), "none", "CA_SHUTDOWN", FALSE)
<1>1. Fed(f, k)
  BY Feeding
<1>2. Parsed(k, e, ok) = q
  BY DEF Parsed, Completes, W!Parse
<1> HIDE DEF f
<1>3. /\ p \in W!Conn /\ p.parser = "error" /\ p.buf = k.buf
      /\ p.parsed = k.parsed /\ p.recvd = k.recvd /\ p.ppos = k.ppos
      /\ p.asked = k.asked /\ p.done = k.done /\ p.uv = k.uv
      /\ p.calls = k.calls
      /\ p.shut = k.shut /\ p.state # "CS_RESP_SEND"
      /\ NoExpect(k) => p.wq = k.wq
  BY <1>1 DEF Fed, W!Conn
<1> HIDE DEF p
<1>4. AnsweredWith(q, p) /\ ~W!Alive(q)
  BY <1>3, Rejecting
<1> HIDE DEF q
<1>5. /\ q \in W!Conn /\ q.buf = k.buf /\ q.parsed = k.parsed
      /\ q.recvd = k.recvd /\ q.ppos = k.ppos /\ q.asked = k.asked
      /\ q.done = k.done /\ q.parser = "error" /\ q.calls = k.calls
  BY <1>3, <1>4 DEF AnsweredWith, Aside
<1>6. Leaves(q, k, e)
  BY <1>3, <1>4, <1>5 DEF AnsweredWith, Leaves, Counts
<1>7. W!Alive(p) <=> W!Alive(k)
  BY <1>3 DEF W!Alive
<1>8. Failed(q, k, e)
  BY <1>3, <1>4, <1>5, <1>6, <1>7 DEF AnsweredWith, Failed
<1> QED
  BY <1>2, <1>8

(* A message that is left incomplete. *)
Held(q, k, e) ==
  /\ Leaves(q, k, e)
  /\ q.parser = "mid" /\ Marks(q, k) /\ q.asked = k.asked
  /\ q.calls = k.calls
  /\ W!Alive(k) => W!Alive(q)
  /\ k.parser = "idle" \/ k.reqT => q.reqT
  /\ k.uv = "open" /\ (k.reading \/ k.rx = "RXS_FREEZED") => q.reading
  /\ NoExpect(k) => /\ q.wq = k.wq
                    /\ W!Alive(q) => q.state # "CS_DESTROY"

(* HPE_OK: the rest of the message is still to come. *)
LEMMA HoldsIt ==
  ASSUME NEW k \in W!Conn, NEW e, Within(k, e), NEW ok,
         ~W!ParseFails(k, e), k.buf[e] \notin W!Stops
  PROVE  Held(Parsed(k, e, ok), k, e)
<1> DEFINE f == W!Feed(k, e)
           q == W!Incomplete(f, e)
<1>1. Fed(f, k)
  BY Feeding
<1>2. Parsed(k, e, ok) = q
  <2>1. W!Parse(k, e, NoReply, FALSE) = W!ReadFin(q, "none", "CA_OK", FALSE)
    BY DEF W!Parse, W!Stops
  <2> QED
    BY <2>1 DEF Parsed, Completes, W!Stops, W!ReadFin, W!TakeAction
<1> HIDE DEF f
<1>3. f \in W!Conn /\ Within(f, e)
  BY <1>1 DEF Fed, Within
<1>4. /\ Consumed(q, f, e)
      /\ f.state \notin {"CS_RESP_SEND", "CS_DESTROY"} /\ W!Alive(q)
           => q.state # "CS_DESTROY"
      /\ /\ f.state # "CS_RESP_SEND" /\ f.uv = "open"
         /\ f.reading \/ f.rx = "RXS_FREEZED"
         => q.reading
  BY <1>3, Incompleting
<1> HIDE DEF q
<1>5. /\ q \in W!Conn /\ q.buf = k.buf /\ q.recvd = k.recvd /\ q.parsed = e
      /\ q.ppos = k.ppos + (e - k.parsed) /\ q.asked = k.asked
      /\ q.done = k.done /\ q.calls = k.calls
  BY <1>1, <1>4 DEF Fed, Consumed
<1>6. Counts(k) => Counts(q)
  BY <1>5, CountsKept
<1>7. k.parser # "error" /\ k.parser \in {"idle", "mid", "error"}
  BY DEF W!ParseFails, W!Conn
<1>8. Leaves(q, k, e)
  BY <1>1, <1>4, <1>5, <1>6 DEF Fed, Consumed, Stays, Leaves
<1>9. Held(q, k, e)
  BY <1>1, <1>4, <1>5, <1>7, <1>8 DEF Fed, Consumed, Stays, Marks, Held, W!Alive
<1> QED
  BY <1>2, <1>9

(* Whatever the parse, one of the four. *)
LEMMA Outcomes ==
  ASSUME NEW k \in W!Conn, NEW e, Within(k, e), NEW ok \in BOOLEAN
  PROVE  \/ W!ParseFails(k, e)
         \/ ~W!ParseFails(k, e) /\ k.buf[e] \notin W!Stops
         \/ ~W!ParseFails(k, e) /\ k.buf[e] = "oversize"
         \/ Completes(k, e)
<1>1. k.buf[e] = "bad" => W!ParseFails(k, e)
  BY DEF W!ParseFails
<1> QED
  BY <1>1 DEF W!Stops, Completes

-----------------------------------------------------------------------------
(* What the callbacks do to a client_t before and after.                   *)

(* Its request data stays as it is. *)
Keeps(q, k) ==
  /\ q \in W!Conn /\ q.buf = k.buf /\ q.parsed = k.parsed
  /\ q.recvd = k.recvd /\ q.ppos = k.ppos /\ q.asked = k.asked
  /\ q.calls = k.calls

(* A step that leaves the request data alone keeps its count. *)
LEMMA KeptCounts ==
  ASSUME NEW k, NEW q, Keeps(q, k) PROVE Counts(k) => Counts(q)
  BY DEF Keeps, Counts

(* libuv closes a connection whose last write has been reported.           *)
LEMMA Draining ==
  ASSUME NEW k \in W!Conn
  PROVE  LET q == W!Drain(k)
         IN /\ Data(q, k) /\ q.shut = k.shut /\ (~k.reading => ~q.reading)
            /\ q.uv = k.uv \/ (k.uv = "open" /\ q.uv = "closing")
            /\ W!Alive(k) => q = k
            /\ ~W!Alive(k) => ~W!Alive(q)
            /\ k.shut /\ k.wq = <<>> =>
                 q.uv # "open" /\ q.state = "CS_DESTROY"
            /\ q.state \in {k.state, "CS_DESTROY"}
<1>1. CASE k.shut /\ k.wq = <<>>
  <2>1. W!Drain(k) = W!close_connection(k)
    BY <1>1 DEF W!Drain
  <2>2. W!close_connection(k).uv # "open"
    BY DEF W!close_connection, W!Conn
  <2> QED
    BY <1>1, <2>1, <2>2, CloseEnds DEF Ends, W!Alive
<1>2. CASE ~(k.shut /\ k.wq = <<>>)
  BY <1>2 DEF W!Drain, Data
<1> QED
  BY <1>1, <1>2

(* One write is reported. *)
LEMMA Reporting ==
  ASSUME NEW k \in W!Conn, k.wq # <<>>
  PROVE  LET q == [k EXCEPT !.wq = Tail(k.wq)]
         IN /\ Aside(q, k) /\ q.wq = Tail(k.wq) /\ q.chunked = k.chunked
            /\ q.uv = k.uv /\ q.shut = k.shut /\ q.state = k.state
            /\ q.reading = k.reading /\ q.keep = k.keep
<1>1. Tail(k.wq) \in Seq({"status", "resp"})
  BY DEF W!Conn
<1> QED
  BY <1>1 DEF W!Conn, Aside

(* What was sent is added up. *)
LEMMA Adding ==
  ASSUME NEW k \in W!Conn
  PROVE  LET q == W!Sent(k)
         IN /\ Aside(q, k) /\ q.wq = k.wq /\ q.chunked = k.chunked
            /\ q.uv = k.uv /\ q.shut = k.shut
            /\ q.reading = k.reading /\ q.keep = k.keep
<1> DEFINE n == k.written + k.pre
<1>1. n \in Nat
  <2>1. k.written \in Nat /\ k.pre \in Nat
    BY DEF W!Conn
  <2> QED
    BY <2>1
<1>2. W!Sent(k) = [k EXCEPT !.state = "CS_RESP_SENDED", !.written = n, !.pre = 0]
  BY DEF W!Sent
<1> HIDE DEF n
<1>3. [k EXCEPT !.state = "CS_RESP_SENDED", !.written = n] \in W!Conn
  BY <1>1 DEF W!Conn, W!ClientState
<1>4. 0 \in Nat
  OBVIOUS
<1>5. W!Sent(k) \in W!Conn
  BY ZenonT(60), <1>2, <1>3, <1>4 DEF W!Conn
<1> QED
  BY <1>2, <1>5 DEF W!Conn, Aside

(* alloc_cb and the data that one read returns. *)
LEMMA Receiving ==
  ASSUME TInv, NEW toks \in PeerData
  PROVE  LET k == W!alloc_cb(conn, toks)
         IN /\ k \in W!Conn /\ Counts(k) /\ Len(k.buf) = Len(toks)
            /\ "expect" \notin habits => NoExpect(k)
            /\ k.parser = conn.parser /\ k.asked = conn.asked
            /\ k.lastT = conn.lastT /\ k.chunked = conn.chunked
            /\ k.wq = conn.wq /\ k.uv = conn.uv /\ k.shut = conn.shut
            /\ k.done = conn.done /\ k.parsed = 0 /\ k.calls = conn.calls
            /\ k.reqT = conn.reqT /\ k.reading = conn.reading
<1> DEFINE n == conn.recvd + Len(toks)
           l == Len(conn.buf)
           o == conn.ppos
           p == conn.parsed
           a == conn.asked
           r == conn.recvd
<1>1. toks \in Seq(W!Token) /\ n <= MaxTokens
  BY PeersAssumption, BoundsAssumption DEF PeerData, W!PeerData
<1>2. conn \in W!Conn
  BY DEF TInv, TypeOK
<1>3. l \in Nat /\ p \in Nat /\ o \in Nat /\ a \in Nat /\ r \in Nat
  BY <1>2 DEF W!Conn
<1>4. Len(toks) \in Nat
  BY <1>1
<1>5. p <= l /\ a <= o /\ o + l - p <= r
  BY DEF TInv, Counts
<1>6. n = r + Len(toks)
  OBVIOUS
<1>7. "expect" \notin habits => \A i \in 1 .. Len(toks) : toks[i] # "expect"
  BY DEF PeerData
<1> HIDE DEF l, p, o, a, r, n
<1>8. n \in Nat /\ 0 <= Len(toks) /\ o + Len(toks) - 0 <= n
  BY <1>3, <1>4, <1>5, <1>6
<1> DEFINE k == [conn EXCEPT !.rx = "RXS_READING", !.buf = toks, !.parsed = 0,
                             !.recvd = n]
<1>9. W!alloc_cb(conn, toks) = k
  BY DEF W!alloc_cb, n
<1>10. [conn EXCEPT !.rx = "RXS_READING", !.buf = toks] \in W!Conn
  BY <1>1, <1>2 DEF W!Conn, W!RxStatus
<1>11. k \in W!Conn
  <2>1. 0 \in Nat
    OBVIOUS
  <2> QED
    BY <1>8, <1>10, <2>1 DEF W!Conn
<1>12. /\ k.parser = conn.parser /\ k.asked = a
       /\ k.lastT = conn.lastT /\ k.chunked = conn.chunked
       /\ k.wq = conn.wq /\ k.uv = conn.uv /\ k.shut = conn.shut
       /\ k.done = conn.done /\ k.parsed = 0 /\ k.calls = conn.calls
       /\ k.reqT = conn.reqT /\ k.reading = conn.reading
       /\ k.buf = toks /\ k.recvd = n /\ k.ppos = o
  BY <1>2 DEF W!Conn, a, o
<1> HIDE DEF k
<1>13. Counts(k)
  BY <1>1, <1>5, <1>8, <1>12 DEF Counts
<1>14. "expect" \notin habits => NoExpect(k)
  BY <1>7, <1>12 DEF NoExpect
<1> QED
  BY <1>9, <1>11, <1>12, <1>13, <1>14 DEF a

(* What llhttp_execute consumes lies in the buffer. *)
LEMMA EndsWithin ==
  ASSUME NEW k, NEW e, W!EndsAt(k, e) PROVE Within(k, e)
  BY DEF W!EndsAt, W!Unparsed, Within

(* A slot, before and after connection_cb. *)
LEMMA Accepting ==
  LET a == [W!Fresh EXCEPT !.uv = "open", !.state = "CS_REQ_READ",
                           !.reading = TRUE, !.reqT = TRUE]
      b == [W!Fresh EXCEPT !.uv = "closing", !.state = "CS_DESTROY"]
  IN /\ Keeps(W!Fresh, W!Fresh) /\ Keeps(a, W!Fresh) /\ Keeps(b, W!Fresh)
     /\ \A z \in {W!Fresh, a, b} :
          /\ Counts(z) /\ NoExpect(z) /\ z.wq = <<>> /\ z.parser = "idle"
          /\ ~z.shut /\ ~z.lastT /\ z.chunked = 0 /\ z.done = 0
          /\ z.calls = 0
     /\ W!Fresh.uv = "none" /\ ~W!Fresh.reading
     /\ a.uv = "open" /\ b.uv = "closing" /\ b.state = "CS_DESTROY"
     /\ ~b.reading /\ a.reading /\ a.reqT /\ a.state = "CS_REQ_READ"
<1>1. 0 \in Nat /\ 0 \in 0 .. 2 /\ <<>> \in Seq(W!Token)
      /\ <<>> \in Seq({"status", "resp"})
  OBVIOUS
<1>2. W!Fresh \in W!Conn
  BY <1>1 DEF W!Fresh, W!Conn, W!ClientState, W!RxStatus, W!Status
<1>3. /\ W!Fresh.uv = "none" /\ W!Fresh.wq = <<>> /\ W!Fresh.buf = <<>>
      /\ W!Fresh.parsed = 0 /\ W!Fresh.recvd = 0 /\ W!Fresh.ppos = 0
      /\ W!Fresh.asked = 0 /\ W!Fresh.parser = "idle" /\ ~W!Fresh.shut
      /\ ~W!Fresh.lastT /\ W!Fresh.chunked = 0 /\ ~W!Fresh.reading
      /\ W!Fresh.done = 0 /\ W!Fresh.calls = 0
  BY DEF W!Fresh
<1>4. MaxTokens \in Nat
  BY BoundsAssumption
<1> HIDE DEF W!Fresh
<1> DEFINE a == [W!Fresh EXCEPT !.uv = "open", !.state = "CS_REQ_READ",
                                !.reading = TRUE, !.reqT = TRUE]
           b == [W!Fresh EXCEPT !.uv = "closing", !.state = "CS_DESTROY"]
<1>5. /\ a \in W!Conn /\ a.uv = "open" /\ a.wq = <<>> /\ a.buf = <<>>
      /\ a.parsed = 0 /\ a.recvd = 0 /\ a.ppos = 0
      /\ a.asked = 0 /\ a.parser = "idle" /\ ~a.shut
      /\ ~a.lastT /\ a.chunked = 0 /\ a.done = 0 /\ a.calls = 0
      /\ a.reading /\ a.reqT /\ a.state = "CS_REQ_READ"
  BY <1>2, <1>3 DEF W!Conn, W!ClientState
<1>6. /\ b \in W!Conn /\ b.uv = "closing" /\ b.wq = <<>> /\ b.buf = <<>>
      /\ b.parsed = 0 /\ b.recvd = 0 /\ b.ppos = 0
      /\ b.asked = 0 /\ b.parser = "idle" /\ ~b.shut
      /\ ~b.lastT /\ b.chunked = 0 /\ b.done = 0 /\ b.state = "CS_DESTROY"
      /\ ~b.reading /\ b.calls = 0
  BY <1>2, <1>3 DEF W!Conn, W!ClientState
<1> HIDE DEF a, b
<1>7. /\ Keeps(W!Fresh, W!Fresh) /\ Keeps(a, W!Fresh) /\ Keeps(b, W!Fresh)
  BY <1>2, <1>3, <1>5, <1>6 DEF Keeps
<1>8. \A z \in {W!Fresh, a, b} : Counts(z) /\ NoExpect(z)
  <2>1. Counts(W!Fresh) /\ NoExpect(W!Fresh)
    BY <1>3, <1>4 DEF Counts, NoExpect
  <2>2. Counts(a) /\ NoExpect(a)
    BY <1>4, <1>5 DEF Counts, NoExpect
  <2>3. Counts(b) /\ NoExpect(b)
    BY <1>4, <1>6 DEF Counts, NoExpect
  <2> QED
    BY <2>1, <2>2, <2>3
<1> QED
  BY <1>3, <1>5, <1>6, <1>7, <1>8 DEF a, b

(* The response after one more chunk. *)
LEMMA Chunking ==
  ASSUME NEW k \in W!Conn, NEW first \in BOOLEAN, NEW more \in BOOLEAN,
         NEW size \in 0 .. 1
  PROVE  LET q == AddChunk(k, first, size, more)
         IN /\ Aside(q, k) /\ q.wq = k.wq /\ q.state = k.state
            /\ q.uv = k.uv /\ q.shut = k.shut /\ q.reading = k.reading
            /\ more => q.chunked = IF first THEN 1 ELSE k.chunked
            /\ ~more => q.chunked = IF k.chunked = 0 THEN 0 ELSE 2
            /\ size = 1 /\ q.chunked # 0 => q.pre # 0
<1> DEFINE b == CASE first /\ ~more -> [k EXCEPT !.pre = size, !.total = size]
                  [] first /\ more  -> [k EXCEPT !.chunked = 1]
                  [] OTHER          -> k
           n == b.pre + size
           c == IF b.chunked # 0 THEN [b EXCEPT !.pre = n] ELSE b
           q == IF b.chunked # 0 /\ ~more THEN [c EXCEPT !.chunked = 2] ELSE c
<1>0. size \in Nat /\ 1 \in 0 .. 2 /\ 2 \in 0 .. 2
  OBVIOUS
<1>1. AddChunk(k, first, size, more) = q
  BY DEF AddChunk
<1>2. /\ Aside(b, k) /\ b.wq = k.wq /\ b.state = k.state /\ b.uv = k.uv
      /\ b.shut = k.shut /\ b.reading = k.reading
      /\ b.chunked = IF first /\ more THEN 1 ELSE k.chunked
  <2>1. CASE first /\ ~more
    <3>1. b = [k EXCEPT !.pre = size, !.total = size]
      BY <2>1
    <3> QED
      BY <1>0, <2>1, <3>1 DEF W!Conn, Aside
  <2>2. CASE first /\ more
    <3>1. b = [k EXCEPT !.chunked = 1]
      BY <2>2
    <3> QED
      BY <1>0, <2>2, <3>1 DEF W!Conn, Aside
  <2>3. CASE ~first
    <3>1. b = k
      BY <2>3
    <3> QED
      BY <2>3, <3>1 DEF Aside
  <2> QED
    BY <2>1, <2>2, <2>3
<1> HIDE DEF b
<1>3. b \in W!Conn
  BY <1>2 DEF Aside
<1>4. n \in Nat /\ (size = 1 => n # 0)
  <2>1. b.pre \in Nat
    BY <1>3 DEF W!Conn
  <2> QED
    BY <1>0, <2>1
<1> HIDE DEF n
<1>5. /\ Aside(c, b) /\ c.wq = b.wq /\ c.state = b.state /\ c.uv = b.uv
      /\ c.shut = b.shut /\ c.reading = b.reading /\ c.chunked = b.chunked
      /\ b.chunked # 0 => c.pre = n
  BY ZenonT(60), <1>3, <1>4 DEF W!Conn, Aside
<1> HIDE DEF c
<1>6. c \in W!Conn
  BY <1>5 DEF Aside
<1>7. /\ Aside(q, c) /\ q.wq = c.wq /\ q.state = c.state /\ q.uv = c.uv
      /\ q.shut = c.shut /\ q.reading = c.reading
      /\ q.chunked = (IF b.chunked # 0 /\ ~more THEN 2 ELSE c.chunked)
      /\ b.chunked # 0 => q.pre = c.pre
  <2>1. CASE b.chunked # 0 /\ ~more
    <3>1. q = [c EXCEPT !.chunked = 2]
      BY <2>1
    <3> QED
      BY <1>0, <1>6, <2>1, <3>1 DEF W!Conn, Aside
  <2>2. CASE ~(b.chunked # 0 /\ ~more)
    <3>1. q = c
      BY <2>2
    <3> QED
      BY <1>6, <2>2, <3>1 DEF Aside
  <2> QED
    BY <2>1, <2>2
<1> HIDE DEF q
<1>8. Aside(q, k)
  BY <1>2, <1>5, <1>7 DEF Aside
<1> QED
  BY <1>1, <1>2, <1>4, <1>5, <1>7, <1>8

-----------------------------------------------------------------------------
(* The objects.                                                            *)

(* The object of create_asgi. *)
LEMMA NewAsgi == create_asgi \in Asgi
<1>1. 0 \in 0 .. MaxSends /\ 1 \in Int
  BY BoundsAssumption
<1> QED
  BY <1>1 DEF create_asgi, Asgi

(* One object changes, the others do not. *)
LEMMA Setting ==
  ASSUME TypeOK, NEW n \in Messages, NEW o \in Asgi, SetObj(n, o)
  PROVE  /\ obj' \in [Messages -> Asgi] /\ obj'[n] = o
         /\ \A m \in Messages : m # n => obj'[m] = obj[m]
  BY DEF TypeOK, SetObj

(* asgi_free only counts a reference down. *)
LEMMA Freeing ==
  ASSUME TypeOK
  PROVE  /\ asgi_free \in [Messages -> Asgi]
         /\ \A m \in Messages : Like(asgi_free[m], obj[m])
<1>1. ASSUME NEW m \in Messages
      PROVE  LET o == [obj[m] EXCEPT !.refs = @ - 1]
             IN o \in Asgi /\ Like(o, obj[m])
  <2>1. obj[m] \in Asgi
    BY DEF TypeOK
  <2> DEFINE r == obj[m].refs - 1
  <2>2. r \in Int
    <3>1. obj[m].refs \in Int
      BY <2>1 DEF Asgi
    <3> QED
      BY <3>1
  <2> HIDE DEF r
  <2>3. LET o == [obj[m] EXCEPT !.refs = r] IN o \in Asgi /\ Like(o, obj[m])
    BY <2>1, <2>2 DEF Asgi, Like
  <2> QED
    BY <2>3 DEF r
<1>2. \A m \in Messages : asgi_free[m] \in Asgi /\ Like(asgi_free[m], obj[m])
  BY <1>1 DEF asgi_free, TypeOK, Like
<1>3. asgi_free = [m \in Messages |-> asgi_free[m]]
  BY DEF asgi_free
<1> HIDE DEF asgi_free
<1> QED
  BY <1>2, <1>3

(* Every message that can still be parsed has an object. *)
LEMMA Numbered ==
  ASSUME NEW k \in W!Conn, NEW e, Within(k, e), Counts(k)
  PROVE  k.asked + 1 \in Messages
<1> DEFINE l == Len(k.buf)
           p == k.parsed
           o == k.ppos
           a == k.asked
           r == k.recvd
<1>1. l \in Nat /\ p \in Nat /\ o \in Nat /\ a \in Nat /\ r \in Nat
  BY DEF W!Conn
<1>2. e \in p + 1 .. l /\ a <= o /\ o + l - p <= r /\ r <= MaxTokens
  BY DEF Within, Counts
<1> HIDE DEF l, p, o, r
<1>3. MaxTokens \in Nat
  BY BoundsAssumption
<1>4. a + 1 \in 1 .. MaxTokens
  <2> HIDE DEF a
  <2> QED
    BY <1>1, <1>2, <1>3
<1> QED
  BY <1>4 DEF Messages, a

(* The objects after a parse: a message that begins has a new one, and a   *)
(* message that is run has its coroutine.                                  *)
LEMMA Calls ==
  ASSUME TypeOK, NEW k, NEW e, NEW ok \in BOOLEAN,
         NEW n \in Messages, n = k.asked + 1, Called(k, e, ok)
  PROVE  /\ asgi' = IF Begins(k) THEN n ELSE asgi
         /\ obj' \in [Messages -> Asgi]
         /\ \A m \in Messages : m # n => Like(obj'[m], obj[m])
         /\ ~Begins(k) /\ ~(Completes(k, e) /\ ok) => obj' = obj
         /\ Begins(k) /\ ~(Completes(k, e) /\ ok) => Like(obj'[n], create_asgi)
         /\ Completes(k, e) /\ ok =>
              Like(obj'[n], [(IF Begins(k) THEN create_asgi ELSE obj[n])
                               EXCEPT !.task = "ready"])
<1> DEFINE o == IF Begins(k) THEN [asgi_free EXCEPT ![n] = create_asgi] ELSE obj
           r == o[n].refs + 3
           x == [o[n] EXCEPT !.task = "ready", !.refs = r]
<1>1. /\ asgi' = IF Begins(k) THEN n ELSE asgi
      /\ obj' = IF Completes(k, e) /\ ok
                THEN [o EXCEPT ![n].task = "ready", ![n].refs = @ + 3] ELSE o
  BY DEF Called
<1>2. /\ o \in [Messages -> Asgi]
      /\ o[n] = IF Begins(k) THEN create_asgi ELSE obj[n]
      /\ \A m \in Messages : m # n => Like(o[m], obj[m])
      /\ ~Begins(k) => o = obj
  <2>1. CASE Begins(k)
    <3>1. o = [asgi_free EXCEPT ![n] = create_asgi]
      BY <2>1
    <3> HIDE DEF o
    <3>2. /\ asgi_free \in [Messages -> Asgi]
          /\ \A m \in Messages : Like(asgi_free[m], obj[m])
      BY Freeing
    <3> QED
      BY <2>1, <3>1, <3>2, NewAsgi
  <2>2. CASE ~Begins(k)
    BY <2>2 DEF TypeOK, Like
  <2> QED
    BY <2>1, <2>2
<1> HIDE DEF o
<1>3. [o EXCEPT ![n].task = "ready", ![n].refs = @ + 3] = [o EXCEPT ![n] = x]
  BY <1>2 DEF Asgi
<1>4. x \in Asgi /\ Like(x, [o[n] EXCEPT !.task = "ready"])
  <2>1. o[n] \in Asgi
    BY <1>2
  <2>2. r \in Int
    <3>1. o[n].refs \in Int
      BY <2>1 DEF Asgi
    <3> QED
      BY <3>1
  <2> HIDE DEF r
  <2> QED
    BY <2>1, <2>2 DEF Asgi, Like
<1> HIDE DEF x
<1>5. CASE Completes(k, e) /\ ok
  <2>1. obj' = [o EXCEPT ![n] = x]
    BY <1>1, <1>3, <1>5
  <2>2. /\ obj' \in [Messages -> Asgi] /\ obj'[n] = x
        /\ \A m \in Messages : m # n => obj'[m] = o[m]
    BY <1>2, <1>4, <2>1
  <2> QED
    BY <1>1, <1>2, <1>4, <1>5, <2>2
<1>6. CASE ~(Completes(k, e) /\ ok)
  <2>1. obj' = o
    BY <1>1, <1>6
  <2> QED
    BY <1>1, <1>2, <1>6, <2>1 DEF Like
<1> QED
  BY <1>5, <1>6

(* Whatever the parse, what it leaves is a client_t.                       *)
LEMMA ParsesAny ==
  ASSUME NEW k \in W!Conn, NEW e, Within(k, e), NEW ok \in BOOLEAN
  PROVE  Leaves(Parsed(k, e, ok), k, e)
<1>1. CASE W!ParseFails(k, e)
  BY <1>1, FailsIt DEF Failed
<1>2. CASE ~W!ParseFails(k, e) /\ k.buf[e] \notin W!Stops
  BY <1>2, HoldsIt DEF Held
<1>3. CASE \/ ~W!ParseFails(k, e) /\ k.buf[e] = "oversize"
           \/ Completes(k, e) /\ ~ok
  BY <1>3, RefusesIt DEF Refused
<1>4. CASE Completes(k, e) /\ ok
  <2> DEFINE q == Parsed(k, e, TRUE)
  <2>1. Completed(q, k, e) /\ q.calls = k.calls + 1
    BY <1>4, RunsIt
  <2>2. Parsed(k, e, ok) = q
    BY <1>4
  <2> HIDE DEF q
  <2>3. Counts(k) => Counts(q)
    BY <2>1, CountsKept DEF Completed
  <2> QED
    BY <2>1, <2>2, <2>3 DEF Completed, Leaves
<1> QED
  BY <1>1, <1>2, <1>3, <1>4, Outcomes

-----------------------------------------------------------------------------
(* The types and the counts, for all habits.                               *)

(* A step that parses. *)
LEMMA ParseTyped ==
  ASSUME TInv, NEW k \in W!Conn, Counts(k), NEW e, W!EndsAt(k, e),
         NEW ok \in BOOLEAN, Called(k, e, ok)
  PROVE  /\ Parsed(k, e, ok) \in W!Conn /\ Counts(Parsed(k, e, ok))
         /\ asgi' \in Messages \cup {0} /\ obj' \in [Messages -> Asgi]
<1>1. Within(k, e)
  BY EndsWithin
<1>2. Leaves(Parsed(k, e, ok), k, e)
  BY <1>1, ParsesAny
<1> DEFINE n == k.asked + 1
<1>3. n \in Messages
  BY <1>1, Numbered
<1>4. /\ asgi' = IF Begins(k) THEN n ELSE asgi
      /\ obj' \in [Messages -> Asgi]
  BY <1>3, Calls DEF TInv
<1> HIDE DEF n
<1> QED
  BY <1>2, <1>3, <1>4 DEF Leaves, TInv, TypeOK

(* The object of a coroutine that sends once more. *)
LEMMA SendsMore ==
  ASSUME TypeOK, NEW n \in Messages, obj[n].sends < MaxSends
  PROVE  LET o == Sending(n)
         IN o \in Asgi /\ Like(o, obj[n])
<1>1. obj[n] \in Asgi
  BY DEF TypeOK
<1> DEFINE s == obj[n].sends + 1
<1>2. s \in 0 .. MaxSends
  <2>1. obj[n].sends \in 0 .. MaxSends
    BY <1>1 DEF Asgi
  <2> QED
    BY <2>1, BoundsAssumption
<1> HIDE DEF s
<1>3. LET o == [obj[n] EXCEPT !.sends = s] IN o \in Asgi /\ Like(o, obj[n])
  BY <1>1, <1>2 DEF Asgi, Like
<1> QED
  BY <1>3 DEF Sending, s

(* Dropping a reference changes nothing the invariant reads. *)
LEMMA Returning ==
  ASSUME NEW o \in Asgi
  PROVE  ReturnsSelf(o) \in Asgi /\ Like(ReturnsSelf(o), o)
<1> DEFINE r == o.refs - 1
<1>1. r \in Int
  <2>1. o.refs \in Int
    BY DEF Asgi
  <2> QED
    BY <2>1
<1> HIDE DEF r
<1>2. LET p == [o EXCEPT !.refs = r] IN p \in Asgi /\ Like(p, o)
  BY <1>1 DEF Asgi, Like
<1> QED
  BY <1>2 DEF ReturnsSelf, r

(* What becomes of http.response.body: refused, or under way. *)
BodyFailed(n, k, o) ==
  /\ Aside(conn', k) /\ conn'.uv = k.uv /\ conn'.shut = k.shut
  /\ conn'.wq = k.wq /\ conn'.state = "CS_DESTROY"
  /\ ~k.reading => ~conn'.reading
  /\ timer' = TRUE /\ frame' = frame
  /\ SetObj(n, [o EXCEPT !.start = "none", !.told = TRUE])

BodyWritten(n, k, o) ==
  /\ Aside(conn', k) /\ conn'.uv = k.uv /\ conn'.shut = k.shut
  /\ W!Alive(k) /\ conn'.wq = Append(k.wq, "resp")
  /\ conn'.state = "CS_RESP_SEND" /\ ~conn'.reading
  /\ conn'.chunked = IF o.start = "nobody" THEN 0 ELSE k.chunked
  /\ o.start = "nobody" => frame' = "over"
  /\ o.start # "nobody" => frame' = Framed(k, o.start)
  /\ timer' = timer
  /\ SetObj(n, [o EXCEPT !.start = "none", !.future = "pending",
                         !.task = "sending"])

(* WriteBody has no other outcome. *)
LEMMA WritingBody ==
  ASSUME NEW n, NEW k \in W!Conn, k.state # "CS_RESP_SEND", NEW o \in Asgi,
         WriteBody(n, k, o)
  PROVE  BodyFailed(n, k, o) \/ BodyWritten(n, k, o)
<1> DEFINE z == [k EXCEPT !.chunked = 0]
           c == W!reset_response_body(k)
           d == [c EXCEPT !.state = "CS_DESTROY"]
           b == IF o.start # "none" THEN asgi_build_response(k, o.start) ELSE k
           w == IF o.start # "none" THEN W!WriteHead(b, "200")
                                    ELSE W!stream_write(b)
           v == [w EXCEPT !.state = "CS_DESTROY"]
           p == [o EXCEPT !.start = "none"]
<1>0. z.wq = k.wq /\ z.rx = k.rx /\ z.buf = k.buf /\ z.parsed = k.parsed
      /\ z.parser = k.parser /\ z.reqT = k.reqT /\ z.lastT = k.lastT
      /\ z.recvd = k.recvd /\ z.ppos = k.ppos /\ z.asked = k.asked
      /\ z.done = k.done /\ z.chunked = 0 /\ z.calls = k.calls
  BY DEF W!Conn
<1>1. /\ Data(c, z) /\ c.pre = 0 /\ c.state = k.state /\ c.uv = k.uv
      /\ c.shut = k.shut /\ c.reading = k.reading
  BY ResetBody
<1> HIDE DEF c, z
<1>2. /\ Aside(c, k) /\ c.wq = k.wq /\ c.chunked = 0 /\ c \in W!Conn
  BY <1>0, <1>1 DEF Aside, Data
<1>3. [p EXCEPT !.told = TRUE] = [o EXCEPT !.start = "none", !.told = TRUE]
  BY DEF Asgi
<1>4. [p EXCEPT !.future = "pending", !.task = "sending"] =
      [o EXCEPT !.start = "none", !.future = "pending", !.task = "sending"]
  BY DEF Asgi
<1>5. CASE o.start = "unnamed"
  <2>1. /\ conn' = d /\ timer' = TRUE /\ frame' = frame
        /\ SetObj(n, [p EXCEPT !.told = TRUE])
    BY <1>5 DEF WriteBody, SendFails, c
  <2>2. /\ d \in W!Conn /\ d.state = "CS_DESTROY" /\ Data(d, c) /\ d.uv = c.uv
        /\ d.shut = c.shut /\ d.reading = c.reading
    BY ZenonT(60), <1>2 DEF W!Conn, W!ClientState, Data
  <2> HIDE DEF d, p
  <2>3. BodyFailed(n, k, o)
    BY <1>1, <1>2, <1>3, <2>1, <2>2 DEF BodyFailed, Aside, Data
  <2> QED
    BY <2>3
<1>6. CASE o.start # "unnamed"
  <2>1. IF ~W!Writable(b)
        THEN SendFails(n, w, p)
        ELSE /\ conn' = w
             /\ frame' = Framed(b, o.start)
             /\ SetObj(n, [p EXCEPT !.future = "pending", !.task = "sending"])
             /\ UNCHANGED timer
    BY <1>6 DEF WriteBody
  <2>2. /\ Aside(b, k) /\ b.wq = k.wq /\ b.state = k.state /\ b.uv = k.uv
        /\ b.shut = k.shut /\ b.reading = k.reading /\ b \in W!Conn
        /\ o.start = "nobody" => b.pre = 0 /\ b.chunked = 0
        /\ o.start # "nobody" => b = k
    <3>1. CASE o.start = "nobody"
      <4>1. b = c
        BY <3>1 DEF asgi_build_response, c
      <4> QED
        BY <1>1, <1>2, <3>1, <4>1
    <3>2. CASE o.start # "nobody"
      <4>1. b = k
        BY <3>2 DEF asgi_build_response
      <4> QED
        BY <3>2, <4>1 DEF Aside
    <3> QED
      BY <3>1, <3>2
  <2> HIDE DEF b
  <2>3. Wrote(w, b) /\ w.chunked = b.chunked
    BY <2>2, WritingHead, Writing
  <2> HIDE DEF w
  <2>4. w \in W!Conn
    BY <2>3 DEF Wrote, Aside
  <2>5. W!Writable(b) <=> W!Alive(k)
    BY <2>2 DEF W!Writable, W!NotConn, W!Alive
  <2>6. CASE W!Writable(b)
    <3>1. /\ conn' = w
          /\ frame' = Framed(b, o.start)
          /\ SetObj(n, [p EXCEPT !.future = "pending", !.task = "sending"])
          /\ timer' = timer
      BY <2>1, <2>6
    <3>2. o.start = "nobody" => Framed(b, o.start) = "over"
      BY <2>2 DEF Framed
    <3> HIDE DEF p
    <3>3. BodyWritten(n, k, o)
      BY <1>4, <2>2, <2>3, <2>5, <2>6, <3>1, <3>2 DEF BodyWritten, Wrote, Aside
    <3> QED
      BY <3>3
  <2>7. CASE ~W!Writable(b)
    <3>1. /\ conn' = v /\ timer' = TRUE /\ frame' = frame
          /\ SetObj(n, [p EXCEPT !.told = TRUE])
      BY <2>1, <2>7 DEF SendFails
    <3>2. /\ v \in W!Conn /\ v.state = "CS_DESTROY" /\ Data(v, w)
          /\ v.uv = w.uv /\ v.shut = w.shut /\ v.reading = w.reading
      BY <2>4 DEF W!Conn, W!ClientState, Data
    <3> HIDE DEF p, v
    <3>3. BodyFailed(n, k, o)
      BY <1>3, <2>2, <2>3, <2>7, <3>1, <3>2
         DEF BodyFailed, Wrote, Aside, Data
    <3> QED
      BY <3>3
  <2> QED
    BY <2>6, <2>7
<1> QED
  BY <1>5, <1>6

(* The callback of the task. *)
LEMMA Finishing ==
  ASSUME NEW k \in W!Conn, NEW raised \in BOOLEAN, timer \in BOOLEAN
  PROVE  LET q == Done(k, raised).conn
             t == Done(k, raised).timer
             doomed == raised \/ k.state = "CS_DESTROY"
         IN /\ Data(q, k) /\ q.shut = k.shut
            /\ q.uv = k.uv \/ (k.uv = "open" /\ q.uv = "closing")
            /\ W!Alive(k) => W!Alive(q)
            /\ doomed \/ k.rx = "RXS_FREEZED" =>
                 t = TRUE /\ q.reading = k.reading /\ q.uv = k.uv
            /\ doomed => q.state = "CS_DESTROY"
            /\ ~doomed /\ k.rx = "RXS_FREEZED" => q = k
            /\ ~doomed /\ k.rx # "RXS_FREEZED" =>
                 t = timer /\ q = W!stream_read_start(k)
            /\ t \in BOOLEAN
<1> DEFINE d == IF raised THEN [k EXCEPT !.state = "CS_DESTROY"] ELSE k
           later == d.rx = "RXS_FREEZED" \/ d.state = "CS_DESTROY"
<1>1. /\ Done(k, raised).conn = IF later THEN d ELSE W!stream_read_start(d)
      /\ Done(k, raised).timer = (timer \/ later)
  BY DEF Done
<1>2. /\ Data(d, k) /\ d.uv = k.uv /\ d.shut = k.shut /\ d.reading = k.reading
      /\ d.state = IF raised THEN "CS_DESTROY" ELSE k.state
      /\ ~raised => d = k
  <2>1. CASE raised
    BY <2>1 DEF W!Conn, W!ClientState, Data
  <2>2. CASE ~raised
    BY <2>2 DEF Data
  <2> QED
    BY <2>1, <2>2
<1> HIDE DEF d
<1>3. d \in W!Conn
  BY <1>2 DEF Data
<1>4. CASE later
  BY <1>1, <1>2, <1>4 DEF Data, W!Alive
<1>5. CASE ~later
  <2> DEFINE s == W!stream_read_start(d)
  <2>1. /\ Data(s, d) /\ s.shut = d.shut
        /\ s.uv = d.uv \/ (d.uv = "open" /\ s.uv = "closing")
        /\ W!Alive(d) => W!Alive(s)
    BY <1>3, StartReads
  <2>2. Done(k, raised).conn = s /\ Done(k, raised).timer = timer
    BY <1>1, <1>5
  <2>3. ~raised /\ d = k /\ k.state # "CS_DESTROY" /\ k.rx # "RXS_FREEZED"
    BY <1>2, <1>5 DEF Data
  <2> QED
    BY <1>2, <2>1, <2>2, <2>3 DEF Data, W!Alive
<1> QED
  BY <1>4, <1>5

(* What asgi_done leaves of an object. *)
LEMMA Going == ASSUME NEW o \in Asgi PROVE Gone(o) \in Asgi
<1> DEFINE r == o.refs - 1
<1>1. r \in Int
  <2>1. o.refs \in Int
    BY DEF Asgi
  <2> QED
    BY <2>1
<1> HIDE DEF r
<1>2. [create_asgi EXCEPT !.task = "gone", !.refs = r] \in Asgi
  BY <1>1, NewAsgi DEF Asgi
<1> QED
  BY <1>2 DEF Gone, r

(* What the end of a coroutine makes of its object. *)
LEMMA Ending ==
  ASSUME NEW o \in Asgi, NEW raises \in BOOLEAN
  PROVE  LET p == [o EXCEPT !.task = "ended", !.raised = raises,
                            !.refs = @ - 2]
         IN /\ p \in Asgi
            /\ Like(p, [o EXCEPT !.task = "ended", !.raised = raises])
<1> DEFINE r == o.refs - 2
<1>1. r \in Int
  <2>1. o.refs \in Int
    BY DEF Asgi
  <2> QED
    BY <2>1
<1> HIDE DEF r
<1>2. LET p == [o EXCEPT !.task = "ended", !.raised = raises, !.refs = r]
      IN /\ p \in Asgi
         /\ Like(p, [o EXCEPT !.task = "ended", !.raised = raises])
  BY <1>1 DEF Asgi, Like
<1> QED
  BY <1>2 DEF r

(* The chunk that send() hands to the response, and its object. *)
LEMMA SendingBody ==
  ASSUME TypeOK, NEW n \in Messages, obj[n].sends < MaxSends,
         NEW size \in 0 .. 1, NEW more \in BOOLEAN
  PROVE  LET o == [Sending(n) EXCEPT !.bodies = TRUE, !.latest = ~more]
             k == AddChunk([conn EXCEPT !.state = "CS_RESP_BILD"],
                           ~obj[n].bodies, size, more)
         IN /\ o \in Asgi
            /\ Like(o, [obj[n] EXCEPT !.bodies = TRUE, !.latest = ~more])
            /\ Aside(k, conn) /\ k.wq = conn.wq /\ k.state = "CS_RESP_BILD"
            /\ k.uv = conn.uv /\ k.shut = conn.shut
            /\ k.reading = conn.reading
            /\ more => k.chunked = IF ~obj[n].bodies THEN 1 ELSE conn.chunked
            /\ ~more => k.chunked = IF conn.chunked = 0 THEN 0 ELSE 2
            /\ size = 1 /\ k.chunked # 0 => k.pre # 0
<1> DEFINE a == [conn EXCEPT !.state = "CS_RESP_BILD"]
<1>1. /\ Aside(a, conn) /\ a.wq = conn.wq /\ a.state = "CS_RESP_BILD"
      /\ a.uv = conn.uv /\ a.shut = conn.shut /\ a.reading = conn.reading
      /\ a.chunked = conn.chunked /\ a \in W!Conn
  BY DEF TypeOK, W!Conn, W!ClientState, Aside
<1> HIDE DEF a
<1> DEFINE f == ~obj[n].bodies
           k == AddChunk(a, f, size, more)
<1>2. /\ Aside(k, a) /\ k.wq = a.wq /\ k.state = a.state
      /\ k.uv = a.uv /\ k.shut = a.shut /\ k.reading = a.reading
      /\ more => k.chunked = IF f THEN 1 ELSE a.chunked
      /\ ~more => k.chunked = IF a.chunked = 0 THEN 0 ELSE 2
      /\ size = 1 /\ k.chunked # 0 => k.pre # 0
  <2>1. f \in BOOLEAN
    BY DEF TypeOK, Asgi
  <2> HIDE DEF f
  <2> QED
    BY <1>1, <2>1, Chunking
<1> HIDE DEF k
<1>3. Aside(k, conn)
  BY <1>1, <1>2 DEF Aside
<1>4. LET o == [Sending(n) EXCEPT !.bodies = TRUE, !.latest = ~more]
      IN /\ o \in Asgi
         /\ Like(o, [obj[n] EXCEPT !.bodies = TRUE, !.latest = ~more])
  <2>1. Sending(n) \in Asgi /\ Like(Sending(n), obj[n]) /\ obj[n] \in Asgi
    BY SendsMore DEF TypeOK
  <2> QED
    BY <2>1 DEF Asgi, Like
<1> QED
  BY <1>1, <1>2, <1>3, <1>4 DEF k, f, a

(* A client_t and an object that a refused send leaves. *)
LEMMA Refusing ==
  ASSUME NEW k \in W!Conn, NEW o \in Asgi
  PROVE  LET q == [k EXCEPT !.state = "CS_DESTROY"]
             p == [o EXCEPT !.told = TRUE]
         IN /\ Data(q, k) /\ q.state = "CS_DESTROY" /\ q.uv = k.uv
            /\ q.shut = k.shut /\ q.reading = k.reading
            /\ p \in Asgi
  BY DEF W!Conn, W!ClientState, Data, Asgi

(* One call of send, in the ways it can go. *)
SendRefused(n) ==
  /\ Aside(conn', conn) /\ conn'.uv = conn.uv /\ conn'.shut = conn.shut
  /\ conn'.wq = conn.wq /\ conn'.state = "CS_DESTROY"
  /\ ~conn.reading => ~conn'.reading
  /\ timer' = TRUE /\ frame' = frame
  /\ obj' \in [Messages -> Asgi]
  /\ \A m \in Messages : m # n => obj'[m] = obj[m]
  /\ obj'[n].task = obj[n].task /\ obj'[n].future = obj[n].future
  /\ obj'[n].told

SendStarted(n) ==
  /\ obj[n].status = "unset"
  /\ UNCHANGED <<conn, timer, frame>>
  /\ obj' \in [Messages -> Asgi]
  /\ \A m \in Messages : m # n => obj'[m] = obj[m]
  /\ \E kind \in {"body", "nobody", "unnamed"} :
       Like(obj'[n], [obj[n] EXCEPT !.status = "set", !.start = kind])

SendIgnored(n) ==
  /\ obj[n].latest
  /\ UNCHANGED <<conn, timer, frame>>
  /\ obj' \in [Messages -> Asgi]
  /\ \A m \in Messages : m # n => obj'[m] = obj[m]
  /\ Like(obj'[n], obj[n])

(* An empty chunk of a streamed response, not the last one. *)
SendSkipped(n) ==
  /\ obj[n].status # "unset" /\ ~obj[n].latest
  /\ Aside(conn', conn) /\ conn'.wq = conn.wq
  /\ conn'.uv = conn.uv /\ conn'.shut = conn.shut
  /\ conn'.reading = conn.reading /\ conn'.state = "CS_RESP_BILD"
  /\ conn'.chunked = IF ~obj[n].bodies THEN 1 ELSE conn.chunked
  /\ UNCHANGED <<timer, frame>>
  /\ obj' \in [Messages -> Asgi]
  /\ \A m \in Messages : m # n => obj'[m] = obj[m]
  /\ Like(obj'[n], [obj[n] EXCEPT !.bodies = TRUE, !.latest = FALSE])
  /\ Streams(n, 0, TRUE)

SendWritten(n) ==
  /\ obj[n].status # "unset" /\ ~obj[n].latest
  /\ Aside(conn', conn) /\ conn'.wq = Append(conn.wq, "resp") /\ Alive
  /\ conn'.uv = conn.uv /\ conn'.shut = conn.shut
  /\ ~conn'.reading /\ conn'.state = "CS_RESP_SEND"
  /\ timer' = timer
  /\ obj' \in [Messages -> Asgi]
  /\ \A m \in Messages : m # n => obj'[m] = obj[m]
  /\ \E size \in 0 .. 1, more \in BOOLEAN :
       /\ Streams(n, size, more)
       /\ Like(obj'[n], [obj[n] EXCEPT !.bodies = TRUE, !.latest = ~more,
                                       !.start = "none", !.future = "pending",
                                       !.task = "sending"])
       /\ more /\ obj[n].start # "nobody" =>
            conn'.chunked = IF ~obj[n].bodies THEN 1 ELSE conn.chunked
       /\ ~more => \/ obj[n].start = "nobody" /\ frame' = "over"
                   \/ /\ obj[n].start # "nobody"
                      /\ \E k \in W!Conn :
                           /\ frame' = Framed(k, obj[n].start)
                           /\ k.chunked = IF conn.chunked = 0 THEN 0 ELSE 2
                           /\ size = 1 /\ k.chunked # 0 => k.pre # 0
       /\ frame' \in {"none", "open", "over", "broken"}

(* Framed returns one of the values of frame. *)
LEMMA FramedTyped ==
  ASSUME TypeOK, NEW k \in W!Conn, NEW head
  PROVE  Framed(k, head) \in {"none", "open", "over", "broken"}
<1>1. frame \in {"none", "open", "over", "broken"}
  BY DEF TypeOK
<1> QED
  BY <1>1 DEF Framed

(* A call of send goes one of these ways. *)
Sends(n) ==
  \/ SendRefused(n) \/ SendStarted(n) \/ SendIgnored(n)
  \/ SendSkipped(n) \/ SendWritten(n)

(* The error exit of asgi_send. *)
LEMMA FailedSend ==
  ASSUME TypeOK, NEW n \in Messages, NEW o \in Asgi,
         o.task = obj[n].task, o.future = obj[n].future,
         SendFails(n, conn, o)
  PROVE  SendRefused(n)
<1> DEFINE q == [conn EXCEPT !.state = "CS_DESTROY"]
           p == [o EXCEPT !.told = TRUE]
<1>1. /\ Data(q, conn) /\ q.state = "CS_DESTROY" /\ q.uv = conn.uv
      /\ q.shut = conn.shut /\ q.reading = conn.reading /\ p \in Asgi
  BY Refusing DEF TypeOK
<1>2. p.task = o.task /\ p.future = o.future /\ p.told
  BY DEF Asgi
<1>3. conn' = q /\ timer' = TRUE /\ frame' = frame /\ SetObj(n, p)
  BY DEF SendFails
<1> HIDE DEF q, p
<1>4. /\ obj' \in [Messages -> Asgi] /\ obj'[n] = p
      /\ \A m \in Messages : m # n => obj'[m] = obj[m]
  BY <1>1, <1>3, Setting
<1> QED
  BY <1>1, <1>2, <1>3, <1>4 DEF SendRefused, Data, Aside

(* http.response.start. *)
LEMMA StartSends ==
  ASSUME TypeOK, NEW n \in Messages, obj[n].sends < MaxSends,
         NEW kind \in {"body", "nobody", "unnamed", "bad"}, SendStart(n, kind)
  PROVE  SendRefused(n) \/ SendStarted(n)
<1>1. Sending(n) \in Asgi /\ Like(Sending(n), obj[n]) /\ obj[n] \in Asgi
  BY SendsMore DEF TypeOK
<1> DEFINE s == Sending(n)
<1>2. CASE kind = "bad"
  <2> DEFINE o == [s EXCEPT !.status = "bad"]
  <2>1. SendFails(n, conn, o)
    BY <1>2 DEF SendStart
  <2> HIDE DEF s
  <2>2. o \in Asgi /\ o.task = obj[n].task /\ o.future = obj[n].future
    BY <1>1 DEF Asgi, Like, s
  <2> HIDE DEF o
  <2> QED
    BY <2>1, <2>2, FailedSend
<1>3. CASE kind # "bad"
  <2> DEFINE o == [s EXCEPT !.status = "set", !.start = kind]
  <2>1. SetObj(n, ReturnsSelf(o)) /\ UNCHANGED <<conn, timer, frame>>
    BY <1>3 DEF SendStart
  <2> HIDE DEF s
  <2>2. o \in Asgi /\ Like(o, [obj[n] EXCEPT !.status = "set", !.start = kind])
    BY <1>1, <1>3 DEF Asgi, Like, s
  <2> HIDE DEF o
  <2>3. ReturnsSelf(o) \in Asgi /\ Like(ReturnsSelf(o), o)
    BY <2>2, Returning
  <2>4. /\ obj' \in [Messages -> Asgi] /\ obj'[n] = ReturnsSelf(o)
        /\ \A m \in Messages : m # n => obj'[m] = obj[m]
    BY <2>1, <2>3, Setting
  <2>5. Like(obj'[n], [obj[n] EXCEPT !.status = "set", !.start = kind])
    BY <2>2, <2>3, <2>4 DEF Like
  <2>6. kind \in {"body", "nobody", "unnamed"} /\ obj[n].status = "unset"
    BY <1>3 DEF SendStart
  <2> QED
    BY <2>1, <2>4, <2>5, <2>6 DEF SendStarted
<1> QED
  BY <1>2, <1>3

(* http.response.body. *)
LEMMA BodySends ==
  ASSUME TypeOK, NEW n \in Messages, obj[n].sends < MaxSends,
         obj[n].task = "ready", NEW size \in 0 .. 1, NEW more \in BOOLEAN,
         Streams(n, size, more), SendBody(n, size, more)
  PROVE  Sends(n)
<1> DEFINE o == [Sending(n) EXCEPT !.bodies = TRUE, !.latest = ~more]
           k == AddChunk([conn EXCEPT !.state = "CS_RESP_BILD"],
                         ~obj[n].bodies, size, more)
<1>1. /\ o \in Asgi
      /\ Like(o, [obj[n] EXCEPT !.bodies = TRUE, !.latest = ~more])
      /\ Aside(k, conn) /\ k.wq = conn.wq /\ k.state = "CS_RESP_BILD"
      /\ k.uv = conn.uv /\ k.shut = conn.shut /\ k.reading = conn.reading
      /\ more => k.chunked = IF ~obj[n].bodies THEN 1 ELSE conn.chunked
      /\ ~more => k.chunked = IF conn.chunked = 0 THEN 0 ELSE 2
      /\ size = 1 /\ k.chunked # 0 => k.pre # 0
  BY SendingBody
<1>2. /\ obj[n].status # "unset"
      /\ IF obj[n].latest
         THEN SetObj(n, ReturnsSelf(Sending(n))) /\ UNCHANGED <<conn, timer, frame>>
         ELSE IF k.chunked # 0 /\ size = 0 /\ more
              THEN /\ SetObj(n, ReturnsSelf(o)) /\ conn' = k
                   /\ UNCHANGED <<timer, frame>>
              ELSE WriteBody(n, k, o)
  BY DEF SendBody
<1> HIDE DEF o, k
<1>3. k \in W!Conn /\ obj[n] \in Asgi
  BY <1>1 DEF Aside, TypeOK
<1>4. /\ o.task = "ready" /\ o.future = obj[n].future /\ o.bodies
      /\ o.latest = ~more /\ o.start = obj[n].start
      /\ o.status = obj[n].status /\ o.told = obj[n].told
  BY <1>1, <1>3 DEF Like, Asgi
<1>5. CASE obj[n].latest
  <2>1. Sending(n) \in Asgi /\ Like(Sending(n), obj[n])
    BY SendsMore
  <2>2. /\ ReturnsSelf(Sending(n)) \in Asgi
        /\ Like(ReturnsSelf(Sending(n)), Sending(n))
    BY <2>1, Returning
  <2>3. /\ obj' \in [Messages -> Asgi] /\ obj'[n] = ReturnsSelf(Sending(n))
        /\ \A m \in Messages : m # n => obj'[m] = obj[m]
    BY <1>2, <1>5, <2>2, Setting
  <2>4. Like(obj'[n], obj[n])
    BY <2>1, <2>2, <2>3 DEF Like
  <2> QED
    BY <1>2, <1>5, <2>3, <2>4 DEF Sends, SendIgnored
<1>6. CASE ~obj[n].latest /\ k.chunked # 0 /\ size = 0 /\ more
  <2>1. /\ ReturnsSelf(o) \in Asgi /\ Like(ReturnsSelf(o), o)
    BY <1>1, Returning
  <2>2. SetObj(n, ReturnsSelf(o)) /\ conn' = k /\ UNCHANGED <<timer, frame>>
    BY <1>2, <1>6
  <2>3. /\ obj' \in [Messages -> Asgi] /\ obj'[n] = ReturnsSelf(o)
        /\ \A m \in Messages : m # n => obj'[m] = obj[m]
    BY <2>1, <2>2, Setting
  <2>4. Like(obj'[n], [obj[n] EXCEPT !.bodies = TRUE, !.latest = FALSE])
    <3>1. more = TRUE /\ ~more = FALSE
      BY <1>6
    <3> QED
      BY ZenonT(60), <1>1, <2>1, <2>3, <3>1 DEF Like
  <2>5. Streams(n, 0, TRUE)
    <3>1. more = TRUE /\ size = 0
      BY <1>6
    <3> QED
      BY <3>1
  <2> QED
    BY <1>1, <1>2, <1>6, <2>2, <2>3, <2>4, <2>5 DEF Sends, SendSkipped
<1>7. CASE ~obj[n].latest /\ ~(k.chunked # 0 /\ size = 0 /\ more)
  <2>1. BodyFailed(n, k, o) \/ BodyWritten(n, k, o)
    BY <1>1, <1>2, <1>3, <1>7, WritingBody
  <2>2. CASE BodyFailed(n, k, o)
    <3> DEFINE p == [o EXCEPT !.start = "none", !.told = TRUE]
    <3>1. p \in Asgi /\ p.task = o.task /\ p.future = o.future /\ p.told
      BY <1>1 DEF Asgi
    <3>2. SetObj(n, p)
      BY <2>2 DEF BodyFailed
    <3> HIDE DEF p
    <3>3. /\ obj' \in [Messages -> Asgi] /\ obj'[n] = p
          /\ \A m \in Messages : m # n => obj'[m] = obj[m]
      BY <3>1, <3>2, Setting
    <3>4. Aside(conn', conn)
      BY <1>1, <2>2 DEF BodyFailed, Aside
    <3>5. SendRefused(n)
      BY <1>1, <1>4, <2>2, <3>1, <3>3, <3>4, obj[n].task = "ready"
         DEF BodyFailed, SendRefused
    <3> QED
      BY <3>5 DEF Sends
  <2>3. CASE BodyWritten(n, k, o)
    <3> DEFINE p == [o EXCEPT !.start = "none", !.future = "pending",
                              !.task = "sending"]
               g == [obj[n] EXCEPT !.bodies = TRUE, !.latest = ~more,
                                   !.start = "none", !.future = "pending",
                                   !.task = "sending"]
    <3>1. p \in Asgi
      BY <1>1 DEF Asgi
    <3>2. Like(p, g)
      BY <1>1, <1>3, <1>4 DEF Asgi, Like
    <3>3. SetObj(n, p)
      BY <2>3 DEF BodyWritten
    <3> HIDE DEF p
    <3>4. /\ obj' \in [Messages -> Asgi] /\ obj'[n] = p
          /\ \A m \in Messages : m # n => obj'[m] = obj[m]
      BY <3>1, <3>3, Setting
    <3>5. Like(obj'[n], g)
      BY <3>2, <3>4
    <3> HIDE DEF g
    <3>6. Aside(conn', conn)
      BY <1>1, <2>3 DEF BodyWritten, Aside
    <3>7. more /\ obj[n].start # "nobody" =>
            conn'.chunked = IF ~obj[n].bodies THEN 1 ELSE conn.chunked
      BY <1>1, <1>4, <2>3 DEF BodyWritten
    <3>8. ~more => \/ obj[n].start = "nobody" /\ frame' = "over"
                   \/ /\ obj[n].start # "nobody"
                      /\ \E z \in W!Conn :
                           /\ frame' = Framed(z, obj[n].start)
                           /\ z.chunked = IF conn.chunked = 0 THEN 0 ELSE 2
                           /\ size = 1 /\ z.chunked # 0 => z.pre # 0
      BY <1>1, <1>3, <1>4, <2>3 DEF BodyWritten
    <3>9. frame' \in {"none", "open", "over", "broken"}
      BY <1>3, <1>4, <2>3, FramedTyped DEF BodyWritten
    <3>10. Alive
      BY <1>1, <2>3 DEF BodyWritten, Alive, W!Alive
    <3>11. SendWritten(n)
      BY <1>1, <1>2, <1>7, <2>3, <3>4, <3>5, <3>6, <3>7, <3>8, <3>9, <3>10
         DEF BodyWritten, SendWritten, g
    <3> QED
      BY <3>11 DEF Sends
  <2> QED
    BY <2>1, <2>2, <2>3
<1> QED
  BY <1>5, <1>6, <1>7

(* asgi_send has no other outcome than those five. *)
LEMMA Sendings ==
  ASSUME TypeOK, NEW n \in Messages, asgi_send(n)
  PROVE  Sends(n) /\ MayCall(n) /\ UNCHANGED <<asgi, habits>>
<1>1. /\ MayCall(n) /\ obj[n].sends < MaxSends
      /\ \/ \E kind \in {"body", "nobody", "unnamed", "bad"} : SendStart(n, kind)
         \/ SendUnknown(n)
         \/ \E size \in 0 .. 1, more \in BOOLEAN :
              Streams(n, size, more) /\ SendBody(n, size, more)
         \/ SendNotBytes(n)
      /\ UNCHANGED <<asgi, habits>>
  BY DEF asgi_send
<1>2. Sending(n) \in Asgi /\ Like(Sending(n), obj[n])
  BY <1>1, SendsMore
<1>3. ASSUME NEW kind \in {"body", "nobody", "unnamed", "bad"},
             SendStart(n, kind)
      PROVE  Sends(n)
  BY <1>1, <1>3, StartSends DEF Sends
<1>4. CASE SendUnknown(n)
  <2> DEFINE o == Sending(n)
  <2>1. SendFails(n, conn, o)
    BY <1>4 DEF SendUnknown
  <2>2. o \in Asgi /\ o.task = obj[n].task /\ o.future = obj[n].future
    BY <1>2 DEF Like
  <2> HIDE DEF o
  <2>3. SendRefused(n)
    BY <2>1, <2>2, FailedSend
  <2> QED
    BY <1>1, <2>3 DEF Sends
<1>5. ASSUME NEW size \in 0 .. 1, NEW more \in BOOLEAN,
             Streams(n, size, more), SendBody(n, size, more)
      PROVE  Sends(n)
  BY <1>1, <1>5, BodySends DEF MayCall
<1>6. CASE SendNotBytes(n)
  <2> DEFINE o == [Sending(n) EXCEPT !.bodies = TRUE]
  <2>1. SendFails(n, conn, o)
    BY <1>6 DEF SendNotBytes
  <2>2. o \in Asgi /\ o.task = obj[n].task /\ o.future = obj[n].future
    BY <1>2 DEF Asgi, Like
  <2> HIDE DEF o
  <2>3. SendRefused(n)
    BY <2>1, <2>2, FailedSend
  <2> QED
    BY <1>1, <2>3 DEF Sends
<1> QED
  BY <1>1, <1>3, <1>4, <1>5, <1>6

(* The end of a response without a coroutine: the connection closes, or    *)
(* listens again.                                                          *)
LEMMA FinishTyped ==
  ASSUME NEW k \in W!Conn, ~W!Resumes(k)
  PROVE  Keeps(W!FinishResponse(k, 0, NoReply, FALSE), k)
<1> DEFINE n == k.done + 1
           d == [k EXCEPT !.done = n]
           r == W!reset_response_body(d)
           q == [r EXCEPT !.state = "CS_RESP_END"]
<1>1. n \in Nat
  <2>1. k.done \in Nat
    BY DEF W!Conn
  <2> QED
    BY <2>1
<1>2. W!FinishResponse(k, 0, NoReply, FALSE) =
        IF ~W!Persistent(k) THEN W!close_connection(d)
                            ELSE W!stream_read_start(q)
  BY DEF W!FinishResponse, W!Resumes
<1> HIDE DEF n
<1>3. Keeps(d, k) /\ d \in W!Conn
  BY <1>1 DEF W!Conn, Keeps
<1> HIDE DEF d
<1>4. Data(r, [d EXCEPT !.chunked = 0]) /\ r \in W!Conn
  BY <1>3, ResetBody DEF Data
<1>5. Keeps(r, d)
  BY <1>3, <1>4 DEF Data, Keeps, W!Conn
<1> HIDE DEF r
<1>6. Keeps(q, r) /\ q \in W!Conn
  BY <1>4 DEF W!Conn, W!ClientState, Keeps
<1> HIDE DEF q
<1>7. Data(W!stream_read_start(q), q)
  BY <1>6, StartReads
<1>8. Data(W!close_connection(d), d)
  BY <1>3, CloseEnds DEF Ends
<1> QED
  BY <1>2, <1>3, <1>5, <1>6, <1>7, <1>8 DEF Data, Keeps

(* write_cb of an error answer keeps the request data. *)
LEMMA WriteTyped ==
  ASSUME NEW k \in W!Conn, ~(W!Resumes(k) /\ k.chunked # 1)
  PROVE  Keeps(W!write_cb(k, NoChunk, 0, NoReply, FALSE), k)
<1> DEFINE s == W!Sent(k)
           b == [s EXCEPT !.state = "CS_RESP_BILD"]
           l == [s EXCEPT !.lastT = TRUE]
           m == [b EXCEPT !.chunked = 2]
           q == W!write_cb(k, NoChunk, 0, NoReply, FALSE)
<1>0. NoChunk.kind = "end" /\ 2 \in 0 .. 2 /\ k.chunked \in 0 .. 2
  BY DEF NoChunk, W!Conn
<1>1. /\ Aside(s, k) /\ s.wq = k.wq /\ s.chunked = k.chunked
      /\ s.keep = k.keep /\ s \in W!Conn
  BY Adding DEF Aside
<1>2. /\ W!OverLength(s) => q = W!close_connection(s)
      /\ W!LastWritten(s) => q = W!FinishResponse(l, 0, NoReply, FALSE)
      /\ ~W!OverLength(s) /\ ~W!LastWritten(s) /\ k.chunked = 1 =>
           q = W!WriteMore(m)
      /\ ~W!OverLength(s) /\ ~W!LastWritten(s) /\ k.chunked = 0 =>
           q = W!FinishResponse(b, 0, NoReply, FALSE)
  <2>1. ~(W!OverLength(s) /\ W!LastWritten(s))
    <3>1. s.written \in Nat /\ s.total \in Nat
      BY <1>1 DEF W!Conn
    <3> HIDE DEF s
    <3> QED
      BY <3>1 DEF W!OverLength, W!LastWritten
  <2>2. W!Pulls(k) <=> ~W!LastWritten(s) /\ ~W!OverLength(s)
    BY DEF W!Pulls
  <2>3. "end" \notin {"raise", "notBytes"} /\ "end" # "chunk"
    OBVIOUS
  <2>4. q = CASE W!OverLength(s)  -> W!close_connection(s)
              [] W!LastWritten(s) -> W!FinishResponse(l, 0, NoReply, FALSE)
              [] W!Pulls(k) /\ NoChunk.kind \in {"raise", "notBytes"} ->
                   W!close_connection(b)
              [] W!Pulls(k) /\ NoChunk.kind = "chunk" ->
                   W!WriteMore([b EXCEPT !.pre = NoChunk.size])
              [] W!Pulls(k) /\ NoChunk.kind = "end" /\ k.chunked = 1 ->
                   W!WriteMore(m)
              [] W!Pulls(k) /\ NoChunk.kind = "end" /\ k.chunked = 0 ->
                   W!FinishResponse(b, 0, NoReply, FALSE)
    BY DEF W!write_cb
  <2> HIDE DEF s, b, l, m, q
  <2>5. ASSUME W!OverLength(s) PROVE q = W!close_connection(s)
    BY <2>1, <2>2, <2>4, <2>5
  <2>6. ASSUME W!LastWritten(s)
        PROVE  q = W!FinishResponse(l, 0, NoReply, FALSE)
    BY <2>1, <2>2, <2>4, <2>6
  <2>7. ASSUME ~W!OverLength(s), ~W!LastWritten(s), k.chunked = 1
        PROVE  q = W!WriteMore(m)
    BY <1>0, <2>2, <2>3, <2>4, <2>7
  <2>8. ASSUME ~W!OverLength(s), ~W!LastWritten(s), k.chunked = 0
        PROVE  q = W!FinishResponse(b, 0, NoReply, FALSE)
    <3>1. ~(k.chunked = 1)
      BY <2>8
    <3>2. W!Pulls(k) /\ NoChunk.kind = "end" /\ k.chunked = 0
      BY <1>0, <2>2, <2>8
    <3>3. ~(NoChunk.kind \in {"raise", "notBytes"}) /\ ~(NoChunk.kind = "chunk")
      BY <1>0, <2>3
    <3> QED
      BY <2>4, <2>8, <3>1, <3>2, <3>3, Zenon
  <2> QED
    BY <2>5, <2>6, <2>7, <2>8
<1>3. W!LastWritten(s) => k.chunked # 1
  BY <1>1 DEF W!LastWritten
<1>4. ~W!LastWritten(s) => k.chunked # 2
  BY <1>1 DEF W!LastWritten
<1> HIDE DEF s, q
<1>5. /\ b \in W!Conn /\ Keeps(b, k) /\ b.keep = k.keep /\ b.rx = k.rx
  BY <1>1 DEF W!Conn, W!ClientState, Aside, Keeps
<1>6. l \in W!Conn /\ Keeps(l, k) /\ l.keep = k.keep /\ l.rx = k.rx
  BY <1>1 DEF W!Conn, Aside, Keeps
<1> HIDE DEF b, l
<1>7. m \in W!Conn /\ Keeps(m, k)
  BY <1>0, <1>5 DEF W!Conn, Keeps
<1> HIDE DEF m
<1>8. k.chunked # 1 => ~W!Resumes(b) /\ ~W!Resumes(l)
  BY <1>5, <1>6 DEF W!Resumes, W!Persistent
<1>9. k.chunked # 1 => Keeps(W!FinishResponse(b, 0, NoReply, FALSE), b)
                       /\ Keeps(W!FinishResponse(l, 0, NoReply, FALSE), l)
  BY <1>5, <1>6, <1>8, FinishTyped
<1>10. Keeps(W!WriteMore(m), m)
  <2> DEFINE w == W!stream_write(m)
  <2>1. Wrote(w, m) /\ w \in W!Conn
    BY <1>7, Writing DEF Wrote, Aside
  <2>2. W!WriteMore(m) = w \/ W!WriteMore(m) = W!close_connection(w)
    BY DEF W!WriteMore
  <2> HIDE DEF w
  <2>3. Data(W!close_connection(w), w)
    BY <2>1, CloseEnds DEF Ends
  <2> QED
    BY <2>1, <2>2, <2>3 DEF Wrote, Aside, Data, Keeps
<1>11. Keeps(W!close_connection(s), s) /\ Keeps(s, k)
  BY <1>1, CloseEnds DEF Ends, Data, Aside, Keeps
<1>12. Keeps(q, k)
  <2>1. CASE W!OverLength(s)
    BY <1>2, <1>11, <2>1 DEF Keeps
  <2>2. CASE W!LastWritten(s)
    BY <1>2, <1>3, <1>6, <1>9, <2>2 DEF Keeps
  <2>3. CASE ~W!OverLength(s) /\ ~W!LastWritten(s) /\ k.chunked = 1
    BY <1>2, <1>7, <1>10, <2>3 DEF Keeps
  <2>4. CASE ~W!OverLength(s) /\ ~W!LastWritten(s) /\ k.chunked = 0
    <3>1. q = W!FinishResponse(b, 0, NoReply, FALSE) /\ k.chunked # 1
      BY <1>2, <2>4
    <3>2. Keeps(q, b)
      BY <1>9, <3>1
    <3> QED
      BY <1>5, <3>2 DEF Keeps
  <2> QED
    BY <1>0, <1>4, <2>1, <2>2, <2>3, <2>4
<1> QED
  BY <1>12 DEF q

(* The rest of a frozen buffer. *)
LEMMA RestTyped ==
  ASSUME TInv, NEW k \in W!Conn, Keeps(k, conn), NEW drained \in BOOLEAN,
         read_rxbuf_after_send(k, drained)
  PROVE  /\ conn' \in W!Conn /\ Counts(conn')
         /\ asgi' \in Messages \cup {0} /\ obj' \in [Messages -> Asgi]
<1>1. Counts(k)
  BY KeptCounts DEF TInv
<1>2. PICK e \in 1 .. Len(k.buf), ok \in BOOLEAN :
        /\ W!EndsAt(k, e)
        /\ conn' = IF drained THEN W!Drain(Parsed(k, e, ok)) ELSE Parsed(k, e, ok)
        /\ Called(k, e, ok)
  BY DEF read_rxbuf_after_send
<1> DEFINE q == Parsed(k, e, ok)
<1>3. /\ q \in W!Conn /\ Counts(q)
      /\ asgi' \in Messages \cup {0} /\ obj' \in [Messages -> Asgi]
  BY <1>1, <1>2, ParseTyped
<1>4. conn' = q \/ conn' = W!Drain(q)
  BY <1>2
<1> HIDE DEF q
<1>5. W!Drain(q) \in W!Conn /\ Counts(W!Drain(q))
  BY <1>3, Draining DEF Data, Counts
<1> QED
  BY <1>3, <1>4, <1>5

(* write_cb of a coroutine's response. *)
LEMMA WrittenTyped ==
  ASSUME NEW k \in W!Conn, NEW o \in Asgi
  PROVE  LET q == AsgiWritten(k, o)
         IN /\ Keeps(q, k) /\ q.wq = k.wq /\ q.shut = k.shut
            /\ q.parser = k.parser /\ q.reqT = k.reqT
            /\ ~k.reading => ~q.reading
            /\ q.uv = k.uv \/ (k.uv = "open" /\ q.uv = "closing")
            /\ ~W!Alive(q) => ~W!Alive(k) \/ q.state = "CS_DESTROY"
            /\ q.done # k.done => o.future = "pending" /\ o.latest
            /\ o.future # "pending" => ~W!Alive(q)
            /\ o.future = "pending" /\ o.latest =>
                 /\ q.done = k.done + 1 /\ q.lastT
                 /\ W!Alive(q) => q.state = "CS_RESP_END"
            /\ o.future = "pending" /\ ~o.latest =>
                 /\ q.uv = k.uv /\ q.done = k.done /\ q.chunked = k.chunked
                 /\ q.state = "CS_RESP_SEND"
                 /\ k.chunked = 1 => q.lastT = k.lastT
<1> DEFINE s == W!Sent(k)
           x == s.lastT \/ W!LastWritten(s)
           b == [s EXCEPT !.state = "CS_RESP_BILD", !.lastT = x]
           n == b.done + 1
           d == [b EXCEPT !.lastT = TRUE, !.state = "CS_RESP_END", !.done = n]
           m == [b EXCEPT !.state = "CS_RESP_SEND"]
           r == W!reset_response_body(d)
           q == AsgiWritten(k, o)
<1>1. /\ Aside(s, k) /\ s.wq = k.wq /\ s.chunked = k.chunked
      /\ s.uv = k.uv /\ s.shut = k.shut /\ s.reading = k.reading /\ s \in W!Conn
  BY Adding DEF Aside
<1>2. /\ o.future # "pending" => q = W!close_connection(b)
      /\ o.future = "pending" /\ ~o.latest => q = m
      /\ o.future = "pending" /\ o.latest => q \in {r, W!close_connection(d)}
  BY DEF AsgiWritten
<1>3. x \in BOOLEAN
  BY <1>1 DEF W!Conn, W!LastWritten
<1>4. s.chunked = 1 => x = s.lastT
  BY <1>1 DEF W!Conn, W!LastWritten
<1> HIDE DEF s, x, q
<1>5. /\ Keeps(b, k) /\ b.wq = k.wq /\ b.chunked = k.chunked /\ b.uv = k.uv
      /\ b.shut = k.shut /\ b.reading = k.reading /\ b \in W!Conn
      /\ b.parser = k.parser /\ b.reqT = k.reqT /\ b.lastT = x
      /\ b.done = k.done
  BY <1>1, <1>3 DEF W!Conn, W!ClientState, Aside, Keeps
<1> HIDE DEF b
<1>6. n \in Nat
  <2>1. b.done \in Nat
    BY <1>5 DEF W!Conn
  <2> QED
    BY <2>1
<1> HIDE DEF n
<1>7. /\ Keeps(d, b) /\ d.wq = b.wq /\ d.uv = b.uv
      /\ d.shut = b.shut /\ d.reading = b.reading /\ d \in W!Conn
      /\ d.parser = b.parser /\ d.reqT = b.reqT
      /\ d.done = n /\ d.lastT /\ d.state = "CS_RESP_END"
  <2> DEFINE c == [b EXCEPT !.lastT = TRUE, !.state = "CS_RESP_END"]
  <2>1. /\ c \in W!Conn /\ Keeps(c, b) /\ c.wq = b.wq /\ c.uv = b.uv
        /\ c.shut = b.shut /\ c.reading = b.reading /\ c.parser = b.parser
        /\ c.reqT = b.reqT /\ c.lastT /\ c.state = "CS_RESP_END"
    BY <1>5 DEF W!Conn, W!ClientState, Keeps
  <2>2. d = [c EXCEPT !.done = n]
    BY <1>5 DEF W!Conn
  <2> HIDE DEF c, d
  <2> QED
    BY <1>6, <2>1, <2>2 DEF W!Conn, Keeps
<1>8. /\ Data(m, b) /\ m.uv = b.uv /\ m.shut = b.shut
      /\ m.reading = b.reading /\ m.state = "CS_RESP_SEND"
  BY <1>5 DEF W!Conn, W!ClientState, Data
<1> HIDE DEF d, m
<1>9. /\ Data(r, [d EXCEPT !.chunked = 0]) /\ r.uv = d.uv /\ r.shut = d.shut
      /\ r.reading = d.reading /\ r.state = d.state
  BY <1>7, ResetBody
<1>10. /\ Keeps(r, d) /\ r.wq = d.wq /\ r.parser = d.parser /\ r.reqT = d.reqT
       /\ r.done = d.done /\ r.lastT = d.lastT
  BY <1>7, <1>9 DEF Data, Keeps, W!Conn
<1> HIDE DEF r
<1>11. /\ Ends(W!close_connection(b), b) /\ Ends(W!close_connection(d), d)
       /\ W!close_connection(b).shut = b.shut
       /\ W!close_connection(d).shut = d.shut
  BY <1>5, <1>7, CloseEnds
<1>12. CASE o.future # "pending"
  <2>1. q = W!close_connection(b)
    BY <1>2, <1>12
  <2>2. /\ Keeps(q, k) /\ q.wq = k.wq /\ q.shut = k.shut
        /\ q.parser = k.parser /\ q.reqT = k.reqT
        /\ ~k.reading => ~q.reading
        /\ q.uv = k.uv \/ (k.uv = "open" /\ q.uv = "closing")
        /\ ~W!Alive(q) => ~W!Alive(k) \/ q.state = "CS_DESTROY"
        /\ q.done = k.done /\ ~W!Alive(q)
    BY <1>5, <1>11, <2>1 DEF Ends, Data, Keeps, W!Alive
  <2> QED
    BY <1>12, <2>2 DEF q
<1>13. CASE o.future = "pending" /\ ~o.latest
  <2>1. q = m
    BY <1>2, <1>13
  <2>2. /\ Keeps(q, k) /\ q.wq = k.wq /\ q.shut = k.shut
        /\ q.parser = k.parser /\ q.reqT = k.reqT
        /\ ~k.reading => ~q.reading
        /\ q.uv = k.uv /\ q.done = k.done /\ q.chunked = k.chunked
        /\ q.lastT = b.lastT /\ q.state = "CS_RESP_SEND"
        /\ ~W!Alive(q) => ~W!Alive(k)
    BY <1>5, <1>8, <2>1 DEF Data, Keeps, W!Alive
  <2>3. k.chunked = 1 => q.lastT = k.lastT
    BY <1>1, <1>4, <1>5, <2>2 DEF Aside
  <2> QED
    BY <1>13, <2>2, <2>3 DEF q
<1>14. CASE o.future = "pending" /\ o.latest
  <2>1. q = r \/ q = W!close_connection(d)
    BY <1>2, <1>14
  <2>2. /\ Keeps(q, k) /\ q.wq = k.wq /\ q.shut = k.shut
        /\ q.parser = k.parser /\ q.reqT = k.reqT
        /\ ~k.reading => ~q.reading
        /\ q.uv = k.uv \/ (k.uv = "open" /\ q.uv = "closing")
        /\ ~W!Alive(q) => ~W!Alive(k) \/ q.state = "CS_DESTROY"
        /\ q.done = n /\ q.lastT /\ (W!Alive(q) => q.state = "CS_RESP_END")
    <3>1. CASE q = r
      <4>1. /\ Keeps(q, k) /\ q.wq = k.wq /\ q.parser = k.parser
            /\ q.reqT = k.reqT /\ q.done = n /\ q.lastT
        BY <1>5, <1>7, <1>10, <3>1 DEF Keeps
      <4>2. /\ q.shut = k.shut /\ q.uv = k.uv /\ q.reading = k.reading
            /\ q.state = "CS_RESP_END"
        BY <1>5, <1>7, <1>9, <3>1
      <4> QED
        BY <4>1, <4>2 DEF W!Alive
    <3>2. CASE q = W!close_connection(d)
      <4>1. Data(q, d)
        BY <1>11, <3>2 DEF Ends
      <4>3. q.reqT = d.reqT /\ q.lastT = d.lastT
        BY <4>1, Zenon DEF Data
      <4>5. /\ Keeps(q, d) /\ q.wq = d.wq /\ q.parser = d.parser
            /\ q.done = d.done
        BY <4>1 DEF Data, Keeps
      <4>6. /\ Keeps(q, k) /\ q.wq = k.wq /\ q.parser = k.parser
            /\ q.reqT = k.reqT /\ q.done = n /\ q.lastT
        BY <1>5, <1>7, <4>3, <4>5 DEF Keeps
      <4>2. /\ q.shut = k.shut /\ q.state = "CS_DESTROY" /\ ~W!Alive(q)
            /\ ~k.reading => ~q.reading
            /\ q.uv = k.uv \/ (k.uv = "open" /\ q.uv = "closing")
        BY <1>5, <1>7, <1>11, <3>2 DEF Ends, Data
      <4> QED
        BY <4>2, <4>6
    <3> QED
      BY <2>1, <3>1, <3>2
  <2>3. n = k.done + 1
    BY <1>5 DEF n
  <2> QED
    BY <1>14, <2>2, <2>3 DEF q
<1> QED
  BY <1>12, <1>13, <1>14

(* One coroutine's own step on its object. *)
LEMMA AppTyped ==
  ASSUME TypeOK, NEW n \in Messages
  PROVE  /\ [obj[n] EXCEPT !.received = TRUE] \in Asgi
         /\ [obj[n] EXCEPT !.task = "waiting"] \in Asgi
         /\ [obj[n] EXCEPT !.task = "ready"] \in Asgi
         /\ Resolved(obj[n]) \in Asgi
         /\ [Resolved(obj[n]) EXCEPT
               !.told = obj[n].told \/ obj[n].future = "pending"] \in Asgi
<1>1. obj[n] \in Asgi
  BY DEF TypeOK
<1>2. /\ [obj[n] EXCEPT !.received = TRUE] \in Asgi
      /\ [obj[n] EXCEPT !.task = "waiting"] \in Asgi
      /\ [obj[n] EXCEPT !.task = "ready"] \in Asgi
  BY <1>1 DEF Asgi
<1> DEFINE t == obj[n].told \/ obj[n].future = "pending"
<1>3. t \in BOOLEAN
  BY <1>1 DEF Asgi
<1> HIDE DEF t
<1>4. Resolved(obj[n]) \in Asgi
  <2>1. CASE obj[n].task = "sending"
    BY <1>1, <2>1 DEF Resolved, Asgi
  <2>2. CASE obj[n].task # "sending"
    BY <1>1, <2>2 DEF Resolved, Asgi
  <2> QED
    BY <2>1, <2>2
<1>5. [Resolved(obj[n]) EXCEPT !.told = t] \in Asgi
  <2> HIDE DEF Resolved
  <2> QED
    BY <1>3, <1>4 DEF Asgi
<1> QED
  BY <1>2, <1>4, <1>5 DEF t

(* A step that leaves the request data and the objects in their shape.     *)
LEMMA StillTyped ==
  ASSUME TInv, Keeps(conn', conn) \/ (conn' \in W!Conn /\ Counts(conn')),
         asgi' \in Messages \cup {0}, timer' \in BOOLEAN,
         obj' \in [Messages -> Asgi],
         frame' \in {"none", "open", "over", "broken"}, habits' = habits
  PROVE  TInv'
<1>1. conn' \in W!Conn /\ Counts(conn')
  BY KeptCounts DEF TInv, Keeps
<1> QED
  BY <1>1 DEF TInv, TypeOK, Counts

(* The types hold in the beginning. *)
LEMMA StartTyped == Init => TInv
<1> SUFFICES ASSUME Init PROVE TInv
  OBVIOUS
<1>1. conn \in W!Conn /\ Counts(conn)
  BY Accepting DEF Init, Keeps
<1>2. Unborn \in Asgi
  <2>1. 0 \in Int
    OBVIOUS
  <2> QED
    BY <2>1, NewAsgi DEF Unborn, Asgi
<1> QED
  BY <1>1, <1>2 DEF Init, TInv, TypeOK

(* Every step keeps the types and the counts. *)
LEMMA TypesKept == TInv /\ [Next]_vars => TInv'
<1> SUFFICES ASSUME TInv, [Next]_vars PROVE TInv'
  OBVIOUS
<1>0. /\ conn \in W!Conn /\ Counts(conn) /\ TypeOK
      /\ asgi \in Messages \cup {0} /\ timer \in BOOLEAN
      /\ obj \in [Messages -> Asgi]
      /\ frame \in {"none", "open", "over", "broken"}
  BY DEF TInv, TypeOK
<1>1. CASE UNCHANGED vars
  BY <1>1 DEF vars, TInv, TypeOK, Counts
<1>2. CASE connection_cb
  <2>1. conn' \in W!Conn /\ Counts(conn')
    BY <1>2, Accepting DEF connection_cb, Keeps
  <2> QED
    BY <1>0, <1>2, <2>1, StillTyped DEF connection_cb
<1>3. CASE read_cb
  <2>1. PICK toks \in PeerData :
          LET k == W!alloc_cb(conn, toks)
          IN IF conn.rx = "RXS_FREEZED"
             THEN /\ conn' = W!TakeAction(conn, "CA_SHUTDOWN")
                  /\ UNCHANGED <<asgi, obj>>
             ELSE \E e \in 1 .. Len(toks), ok \in BOOLEAN :
                    /\ W!EndsAt(k, e)
                    /\ ok \/ Completes(k, e)
                    /\ conn' = Parsed(k, e, ok)
                    /\ Called(k, e, ok)
    BY <1>3 DEF read_cb
  <2>2. UNCHANGED <<timer, frame, habits>>
    BY <1>3 DEF read_cb
  <2>3. CASE conn.rx = "RXS_FREEZED"
    <3>1. conn' = W!shutdown_connection(W!stream_read_stop(conn))
      BY <2>1, <2>3 DEF W!TakeAction
    <3>2. Keeps(conn', conn)
      BY <1>0, <3>1, StopEnds DEF Ends, Data, Keeps
    <3> QED
      BY <1>0, <2>1, <2>2, <2>3, <3>2, StillTyped
  <2>4. CASE conn.rx # "RXS_FREEZED"
    <3> DEFINE k == W!alloc_cb(conn, toks)
    <3>1. PICK e \in 1 .. Len(toks), ok \in BOOLEAN :
            W!EndsAt(k, e) /\ conn' = Parsed(k, e, ok) /\ Called(k, e, ok)
      BY <2>1, <2>4
    <3>2. k \in W!Conn /\ Counts(k)
      BY Receiving
    <3> HIDE DEF k
    <3>3. /\ conn' \in W!Conn /\ Counts(conn')
          /\ asgi' \in Messages \cup {0} /\ obj' \in [Messages -> Asgi]
      BY <3>1, <3>2, ParseTyped
    <3> QED
      BY <1>0, <2>2, <3>3, StillTyped
  <2> QED
    BY <2>3, <2>4
<1>4. CASE PeerCloses
  <2>1. conn' = W!close_connection(W!stream_read_stop(conn))
    BY <1>4 DEF PeerCloses, W!TakeAction
  <2>2. Keeps(conn', conn)
    BY <1>0, <2>1, StopEnds DEF Ends, Data, Keeps
  <2> QED
    BY <1>0, <1>4, <2>2, StillTyped DEF PeerCloses
<1>5. CASE read_timer_cb
  <2>1. timer' = FALSE /\ UNCHANGED <<frame, habits>>
    BY <1>5 DEF read_timer_cb
  <2>2. CASE conn.state = "CS_DESTROY"
    <3>1. /\ conn' = W!shutdown_connection(W!stream_read_stop(conn))
          /\ UNCHANGED <<asgi, obj>>
      BY <1>5, <2>2 DEF read_timer_cb
    <3>2. Keeps(conn', conn)
      BY <1>0, <3>1, StopEnds DEF Ends, Data, Keeps
    <3> QED
      BY <1>0, <2>1, <3>1, <3>2, StillTyped
  <2>3. CASE conn.state # "CS_DESTROY" /\ conn.rx = "RXS_FREEZED"
    <3>1. read_rxbuf_after_send(conn, FALSE)
      BY <1>5, <2>3 DEF read_timer_cb
    <3>2. Keeps(conn, conn)
      BY <1>0 DEF Keeps
    <3>3. /\ conn' \in W!Conn /\ Counts(conn')
          /\ asgi' \in Messages \cup {0} /\ obj' \in [Messages -> Asgi]
      BY <1>0, <3>1, <3>2, RestTyped
    <3> QED
      BY <1>0, <2>1, <3>3, StillTyped
  <2>4. CASE conn.state # "CS_DESTROY" /\ conn.rx # "RXS_FREEZED"
    <3>1. UNCHANGED <<conn, asgi, obj>>
      BY <1>5, <2>4 DEF read_timer_cb
    <3>2. Keeps(conn', conn)
      BY <1>0, <3>1 DEF Keeps
    <3> QED
      BY <1>0, <2>1, <3>1, <3>2, StillTyped
  <2> QED
    BY <2>2, <2>3, <2>4
<1>6. ASSUME NEW n \in Messages, asgi_receive(n) PROVE TInv'
  <2>1. obj' \in [Messages -> Asgi]
    BY <1>0, <1>6, AppTyped, Setting DEF asgi_receive
  <2>2. UNCHANGED <<conn, asgi, timer, frame, habits>>
    BY <1>6 DEF asgi_receive
  <2>3. Keeps(conn', conn)
    BY <1>0, <2>2 DEF Keeps
  <2> QED
    BY <1>0, <2>1, <2>2, <2>3, StillTyped
<1>7. ASSUME NEW n \in Messages, asgi_send(n) PROVE TInv'
  <2>1. Sends(n) /\ UNCHANGED <<asgi, habits>>
    BY <1>0, <1>7, Sendings
  <2>2. /\ Keeps(conn', conn) /\ obj' \in [Messages -> Asgi]
        /\ timer' \in BOOLEAN
        /\ frame' \in {"none", "open", "over", "broken"}
    <3>1. CASE SendRefused(n)
      BY <1>0, <3>1 DEF SendRefused, Aside, Keeps
    <3>2. CASE SendStarted(n) \/ SendIgnored(n)
      BY <1>0, <3>2 DEF SendStarted, SendIgnored, Keeps
    <3>3. CASE SendSkipped(n)
      BY <1>0, <3>3 DEF SendSkipped, Aside, Keeps
    <3>4. CASE SendWritten(n)
      BY <1>0, <3>4 DEF SendWritten, Aside, Keeps
    <3> QED
      BY <2>1, <3>1, <3>2, <3>3, <3>4 DEF Sends
  <2> QED
    BY <1>0, <2>1, <2>2, StillTyped
<1>8. ASSUME NEW n \in Messages, GiveUp(n) PROVE TInv'
  <2>1. obj' \in [Messages -> Asgi]
    BY <1>0, <1>8, AppTyped, Setting DEF GiveUp
  <2>2. UNCHANGED <<conn, asgi, timer, frame, habits>>
    BY <1>8 DEF GiveUp
  <2>3. Keeps(conn', conn)
    BY <1>0, <2>2 DEF Keeps
  <2> QED
    BY <1>0, <2>1, <2>2, <2>3, StillTyped
<1>9. ASSUME NEW n \in Messages, AppEnds(n) PROVE TInv'
  <2>1. PICK raises \in BOOLEAN :
          /\ raises \/ obj[n].latest \/ obj[n].told \/ "stops" \in habits
          /\ SetObj(n, [obj[n] EXCEPT !.task = "ended", !.raised = raises,
                                      !.refs = @ - 2])
    BY <1>9 DEF AppEnds
  <2>2. obj' \in [Messages -> Asgi]
    BY <1>0, <2>1, Ending, Setting
  <2>3. UNCHANGED <<conn, asgi, timer, frame, habits>>
    BY <1>9 DEF AppEnds
  <2>4. Keeps(conn', conn)
    BY <1>0, <2>3 DEF Keeps
  <2> QED
    BY <1>0, <2>2, <2>3, <2>4, StillTyped
<1>10. ASSUME NEW n \in Messages, asgi_done(n) PROVE TInv'
  <2>1. obj[n] \in Asgi /\ obj[n].raised \in BOOLEAN
    BY <1>0 DEF Asgi
  <2>2. obj' \in [Messages -> Asgi]
    BY <1>0, <1>10, <2>1, Going, Setting DEF asgi_done
  <2>3. /\ Keeps(Done(conn, obj[n].raised).conn, conn)
        /\ Done(conn, obj[n].raised).timer \in BOOLEAN
    BY ZenonT(60), <1>0, <2>1, Finishing DEF Data, Keeps
  <2>4. /\ asgi = n => /\ asgi' = 0 /\ conn' = Done(conn, obj[n].raised).conn
                       /\ timer' = Done(conn, obj[n].raised).timer
        /\ asgi # n => UNCHANGED <<conn, asgi, timer>>
        /\ UNCHANGED <<frame, habits>>
    BY <1>10 DEF asgi_done
  <2>5. Keeps(conn, conn)
    BY <1>0 DEF Keeps
  <2> QED
    BY <1>0, <2>2, <2>3, <2>4, <2>5, StillTyped
<1>11. CASE ResponseWritten
  <2> DEFINE k == [conn EXCEPT !.wq = Tail(conn.wq)]
             s == W!Sent(k)
             g == [W!reset_response_body(s) EXCEPT
                     !.state = "CS_RESP_END", !.lastT = TRUE,
                     !.done = @ + 1]
             resumes == asgi = 0 /\ W!Resumes(k) /\ k.chunked # 1
  <2>1. k = Reported
    BY DEF Reported
  <2>2. /\ CASE asgi # 0 ->
                  /\ conn' = W!Drain(AsgiWritten(k, obj[asgi]))
                  /\ SetObj(asgi, Resolved(obj[asgi]))
                  /\ UNCHANGED asgi
             [] resumes -> read_rxbuf_after_send(g, TRUE)
             [] OTHER ->
                  /\ conn' = W!Drain(W!write_cb(k, NoChunk, 0, NoReply, FALSE))
                  /\ UNCHANGED <<asgi, obj>>
        /\ frame' = IF asgi = 0 /\ k.chunked = 1 THEN "over" ELSE frame
        /\ UNCHANGED <<timer, habits>>
    BY <1>11, <2>1 DEF ResponseWritten
  <2>3. conn.wq # <<>>
    BY <1>11 DEF ResponseWritten
  <2>4. Aside(k, conn) /\ k \in W!Conn
    BY <1>0, <2>3, Reporting DEF Aside
  <2>5. frame' \in {"none", "open", "over", "broken"}
    BY <1>0, <2>2
  <2> HIDE DEF k
  <2>6. CASE asgi # 0
    <3> DEFINE o == obj[asgi]
               w == AsgiWritten(k, o)
    <3>1. asgi \in Messages /\ o \in Asgi
      BY <1>0, <2>6
    <3>2. conn' = W!Drain(w) /\ SetObj(asgi, Resolved(o)) /\ asgi' = asgi
      BY <2>2, <2>6
    <3>3. obj' \in [Messages -> Asgi]
      BY <1>0, <3>1, <3>2, AppTyped, Setting
    <3> HIDE DEF o
    <3>4. Keeps(w, k) /\ w \in W!Conn
      BY <2>4, <3>1, WrittenTyped DEF Keeps
    <3> HIDE DEF w
    <3>5. Data(W!Drain(w), w)
      BY <3>4, Draining
    <3>6. Keeps(conn', conn)
      BY <2>4, <3>2, <3>4, <3>5 DEF Aside, Data, Keeps
    <3> QED
      BY <1>0, <2>2, <2>5, <3>2, <3>3, <3>6, StillTyped
  <2>7. CASE resumes
    <3>1. read_rxbuf_after_send(g, TRUE)
      BY <2>2, <2>7
    <3>2. Aside(s, k) /\ s \in W!Conn
      BY <2>4, Adding DEF Aside
    <3> HIDE DEF s
    <3> DEFINE r == W!reset_response_body(s)
               m == r.done + 1
    <3>3. Data(r, [s EXCEPT !.chunked = 0]) /\ r \in W!Conn
      BY <3>2, ResetBody DEF Data
    <3>4. Keeps(r, s)
      BY <3>2, <3>3 DEF Data, Keeps, W!Conn
    <3>5. g = [r EXCEPT !.state = "CS_RESP_END", !.lastT = TRUE, !.done = m]
      OBVIOUS
    <3> HIDE DEF r, g
    <3>6. m \in Nat
      <4>1. r.done \in Nat
        BY <3>3 DEF W!Conn
      <4> QED
        BY <4>1
    <3> HIDE DEF m
    <3>7. Keeps(g, r) /\ g \in W!Conn
      <4>1. [r EXCEPT !.state = "CS_RESP_END", !.lastT = TRUE] \in W!Conn
        BY <3>3 DEF W!Conn, W!ClientState
      <4> QED
        BY <3>3, <3>5, <3>6, <4>1 DEF W!Conn, Keeps
    <3>8. Keeps(g, conn)
      BY <2>4, <3>2, <3>4, <3>7 DEF Aside, Keeps
    <3>9. /\ conn' \in W!Conn /\ Counts(conn')
          /\ asgi' \in Messages \cup {0} /\ obj' \in [Messages -> Asgi]
      BY <3>1, <3>7, <3>8, RestTyped
    <3> QED
      BY <1>0, <2>2, <2>5, <3>9, StillTyped
  <2>8. CASE asgi = 0 /\ ~resumes
    <3> DEFINE w == W!write_cb(k, NoChunk, 0, NoReply, FALSE)
    <3>1. conn' = W!Drain(w) /\ UNCHANGED <<asgi, obj>>
      BY <2>2, <2>8
    <3>2. ~(W!Resumes(k) /\ k.chunked # 1)
      BY <2>8
    <3>3. Keeps(w, k) /\ w \in W!Conn
      BY <2>4, <3>2, WriteTyped DEF Keeps
    <3> HIDE DEF w
    <3>4. Data(W!Drain(w), w)
      BY <3>3, Draining
    <3>5. Keeps(conn', conn)
      BY <2>4, <3>1, <3>3, <3>4 DEF Aside, Data, Keeps
    <3> QED
      BY <1>0, <2>2, <2>5, <3>1, <3>5, StillTyped
  <2> QED
    BY <2>6, <2>7, <2>8
<1>12. CASE WriteFailed
  <2> DEFINE k == [conn EXCEPT !.wq = Tail(conn.wq)]
             p == [k EXCEPT !.pre = 0]
  <2>1. /\ conn' = W!close_connection(p)
        /\ UNCHANGED <<asgi, timer, frame, habits>> /\ conn.wq # <<>>
    BY <1>12 DEF WriteFailed, Reported
  <2>2. Aside(k, conn) /\ k \in W!Conn
    BY <1>0, <2>1, Reporting DEF Aside
  <2> HIDE DEF k
  <2>3. Keeps(p, k) /\ p \in W!Conn
    <3>1. 0 \in Nat
      OBVIOUS
    <3> QED
      BY <2>2, <3>1 DEF W!Conn, Keeps
  <2> HIDE DEF p
  <2>4. Keeps(conn', conn)
    BY <2>1, <2>2, <2>3, CloseEnds DEF Ends, Data, Aside, Keeps
  <2>5. obj' \in [Messages -> Asgi]
    <3>1. CASE asgi = 0
      BY <1>0, <1>12, <3>1 DEF WriteFailed
    <3>2. CASE asgi # 0
      <4>1. asgi \in Messages
        BY <1>0, <3>2
      <4>2. SetObj(asgi, [Resolved(obj[asgi]) EXCEPT
                            !.told = @ \/ obj[asgi].future = "pending"])
        BY <1>12, <3>2 DEF WriteFailed
      <4>3. Resolved(obj[asgi]).told = obj[asgi].told
        BY DEF Resolved
      <4>4. SetObj(asgi, [Resolved(obj[asgi]) EXCEPT !.told =
                            obj[asgi].told \/ obj[asgi].future = "pending"])
        BY <4>2, <4>3
      <4> QED
        BY <1>0, <4>1, <4>4, AppTyped, Setting
    <3> QED
      BY <3>1, <3>2
  <2> QED
    BY <1>0, <2>1, <2>4, <2>5, StillTyped
<1>13. CASE StatusWritten
  <2> DEFINE k == [conn EXCEPT !.wq = Tail(conn.wq)]
             s == W!stream_read_start(k)
  <2>1. /\ conn' \in {W!Drain(s), W!close_connection(k)}
        /\ UNCHANGED <<asgi, timer, obj, frame, habits>> /\ conn.wq # <<>>
    BY <1>13 DEF StatusWritten, Reported
  <2>2. Aside(k, conn) /\ k \in W!Conn
    BY <1>0, <2>1, Reporting DEF Aside
  <2> HIDE DEF k
  <2>3. Data(s, k) /\ s \in W!Conn
    BY <2>2, StartReads DEF Data
  <2> HIDE DEF s
  <2>4. Data(W!Drain(s), s) /\ Data(W!close_connection(k), k)
    BY <2>2, <2>3, Draining, CloseEnds DEF Ends
  <2>5. Keeps(conn', conn)
    BY <2>1, <2>2, <2>3, <2>4 DEF Data, Aside, Keeps
  <2> QED
    BY <1>0, <2>1, <2>5, StillTyped
<1>14. CASE shutdown_cb
  <2>1. Keeps(conn', conn)
    BY <1>0, <1>14, CloseEnds DEF shutdown_cb, Ends, Data, Keeps
  <2> QED
    BY <1>0, <1>14, <2>1, StillTyped DEF shutdown_cb
<1>15. CASE close_cb
  <2> DEFINE r == W!reset_response_body(conn)
             q == [r EXCEPT !.uv = "closed", !.rx = "RXS_RESTING",
                            !.reading = FALSE]
  <2>1. conn' = q /\ obj' = asgi_free /\ asgi' = 0 /\ timer' = FALSE
        /\ UNCHANGED <<frame, habits>>
    BY <1>15 DEF close_cb
  <2>2. Data(r, [conn EXCEPT !.chunked = 0]) /\ r \in W!Conn
    BY <1>0, ResetBody DEF Data
  <2>3. Keeps(r, conn)
    BY <1>0, <2>2 DEF Data, Keeps, W!Conn
  <2> HIDE DEF r
  <2>4. Keeps(q, r)
    BY <2>2 DEF W!Conn, W!RxStatus, Keeps
  <2> HIDE DEF q
  <2>5. Keeps(conn', conn)
    BY <2>1, <2>3, <2>4 DEF Keeps
  <2> QED
    BY <1>0, <2>1, <2>5, Freeing, StillTyped
<1>16. CASE client_aux_check
  <2>1. Keeps(conn', conn)
    BY <1>0, <1>16, StopEnds DEF client_aux_check, Ends, Data, Keeps
  <2> QED
    BY <1>0, <1>16, <2>1, StillTyped DEF client_aux_check
<1> QED
  BY <1>1, <1>2, <1>3, <1>4, <1>5, <1>6, <1>7, <1>8, <1>9, <1>10, <1>11,
     <1>12, <1>13, <1>14, <1>15, <1>16 DEF Next

-----------------------------------------------------------------------------
(* Without 100-continue: the client_t and its object.                      *)

(* The head of the queue, and what is behind it. *)
LEMMA OneInQueue ==
  ASSUME NEW q, q \in {<<>>, <<"resp">>}, q # <<>>
  PROVE  q = <<"resp">> /\ Head(q) = "resp" /\ Tail(q) = <<>>
<1>1. q = <<"resp">>
  OBVIOUS
<1>2. Head(<<"resp">>) = "resp"
  OBVIOUS
<1>3. Tail(<<"resp">>) = <<>>
  <2> DEFINE t == Tail(<<"resp">>)
  <2>1. <<"resp">> \in Seq({"resp"}) /\ Len(<<"resp">>) = 1
    OBVIOUS
  <2>2. t \in Seq({"resp"}) /\ Len(t) = 0
    BY <2>1
  <2> HIDE DEF t
  <2>3. t = <<>>
    BY <2>2
  <2> QED
    BY <2>3 DEF t
<1> QED
  BY <1>1, <1>2, <1>3

(* A step that leaves the objects alone and ends the connection, or closes *)
(* it: read_cb with an action, the timers, shutdown_cb.                    *)
LEMMA EndsQuietly ==
  ASSUME QInv, TInv', conn.uv # "none", Ends(conn', conn), ~conn'.reading,
         conn.wq # <<>> => conn'.uv = "open" \/ conn'.shut,
         UNCHANGED <<asgi, obj>>, timer' \in {timer, FALSE}
  PROVE  QInv'
<1>1. /\ conn'.wq = conn.wq /\ conn'.buf = conn.buf
      /\ conn'.parser = conn.parser /\ conn'.asked = conn.asked
      /\ conn'.state = "CS_DESTROY" /\ ~W!Alive(conn')
      /\ conn'.uv = conn.uv \/ (conn.uv = "open" /\ conn'.uv = "closing")
  BY DEF Ends, Data
<1>2. asgi' = asgi /\ obj' = obj /\ (timer' => timer)
  <2>1. timer' = timer \/ timer' = FALSE
    OBVIOUS
  <2>2. timer' => timer
    BY <2>1, Zenon
  <2> QED
    BY <2>2
<1>3. Writes'
  BY <1>1, <1>2 DEF QInv, Writes
<1>4. Reads'
  BY <1>1, <1>2 DEF QInv, Reads, NoExpect, Uncalled, Alive
<1>5. Timed'
  BY <1>1, <1>2 DEF QInv, Timed
<1>6. Awaits'
  BY <1>1, <1>2 DEF QInv, Awaits
<1>7. Begin'
  BY <1>1 DEF Begin
<1> QED
  BY <1>3, <1>4, <1>5, <1>6, <1>7 DEF QInv

(* A step of a coroutine on its object alone. *)
LEMMA ActsQuietly ==
  ASSUME QInv, TInv', NEW n \in Messages,
         UNCHANGED <<conn, asgi, timer>>,
         obj[n].task \in {"ready", "waiting"},
         obj'[n].task \in {"ready", "waiting", "ended"},
         obj'[n].future = obj[n].future,
         obj'[n].told = obj[n].told,
         obj'[n].told => obj'[n].task \in {"ready", "ended"},
         \A m \in Messages : m # n => obj'[m] = obj[m]
  PROVE  QInv'
<1>0. conn' = conn /\ asgi' = asgi /\ timer' = timer
  OBVIOUS
<1>1. asgi \in Messages \cup {0}
  BY DEF QInv, TInv, TypeOK
<1>2. Writes'
  BY <1>0, <1>1 DEF QInv, Writes
<1>3. Uncalled => Uncalled'
  BY <1>0, <1>1 DEF Uncalled
<1>4. Reads'
  BY <1>0, <1>3 DEF QInv, Reads, Alive
<1>5. Timed'
  BY <1>0, <1>1 DEF QInv, Timed
<1>6. Awaits'
  <2>1. obj[n].future # "pending"
    BY DEF QInv, Awaits
  <2> QED
    BY <1>0, <2>1 DEF QInv, Awaits
<1>7. Begin'
  BY <1>0 DEF QInv, Begin
<1> QED
  BY <1>2, <1>4, <1>5, <1>6, <1>7 DEF QInv

(* What a coroutine that may call finds: nothing is under way, and nothing *)
(* is read.                                                                *)
LEMMA CallerAlone ==
  ASSUME QInv, NEW n \in Messages, asgi = n,
         obj[n].task \in {"ready", "waiting", "ended"}
  PROVE  /\ conn.wq = <<>> /\ ~conn.reading /\ ~Uncalled
         /\ conn.parser = "mid" => conn.uv = "closed"
         /\ conn.uv # "none" /\ asgi # 0 /\ obj[n].future # "pending"
         /\ timer => obj[n].told /\ conn.state = "CS_DESTROY"
         /\ \A m \in Messages : obj[m].task # "sending"
<1>1. asgi # 0
  BY DEF Messages
<1>2. conn.wq = <<>>
  BY <1>1 DEF QInv, Writes
<1>3. ~Uncalled
  BY <1>1 DEF Uncalled
<1> QED
  BY <1>1, <1>2, <1>3 DEF QInv, Reads, Timed, Awaits, Begin

(* A call of send. *)
LEMMA SendsQuietly ==
  ASSUME QInv, TInv', NEW n \in Messages, asgi_send(n)
  PROVE  QInv'
<1>1. /\ Sends(n) /\ asgi = n /\ obj[n].task = "ready" /\ ~obj[n].told
      /\ asgi' = asgi
  BY Sendings DEF MayCall, QInv, TInv
<1>2. /\ conn.wq = <<>> /\ ~conn.reading
      /\ conn.parser = "mid" => conn.uv = "closed"
      /\ conn.uv # "none" /\ asgi # 0 /\ obj[n].future # "pending"
      /\ ~timer
      /\ \A m \in Messages : obj[m].task # "sending"
  BY <1>1, CallerAlone
<1>3. NoExpect(conn) /\ (conn.parser = "error" => ~W!Alive(conn))
  BY DEF QInv, Reads, Alive
<1>4. \A m \in Messages :
        /\ obj[m].future # "pending"
        /\ obj[m].told => obj[m].task \in {"ready", "ended"}
        /\ obj[m].task = "none" => Like(obj[m], create_asgi)
  BY <1>2 DEF QInv, Awaits
<1>5. CASE SendStarted(n) \/ SendIgnored(n)
  <2>0. /\ conn' = conn /\ timer' = timer
        /\ \A m \in Messages : m # n => obj'[m] = obj[m]
    BY <1>5 DEF SendStarted, SendIgnored
  <2>1. /\ obj'[n].task = obj[n].task /\ obj'[n].future = obj[n].future
        /\ obj'[n].told = obj[n].told
    <3>1. obj[n] \in Asgi
      BY DEF QInv, TInv, TypeOK
    <3> QED
      BY <1>5, <3>1 DEF SendStarted, SendIgnored, Like, Asgi
  <2> QED
    BY <1>1, <2>0, <2>1, ActsQuietly
<1>6. CASE SendRefused(n)
  <2>1. /\ Aside(conn', conn) /\ conn'.uv = conn.uv /\ conn'.shut = conn.shut
        /\ conn'.wq = <<>> /\ conn'.state = "CS_DESTROY" /\ ~conn'.reading
        /\ timer' = TRUE
        /\ \A m \in Messages : m # n => obj'[m] = obj[m]
        /\ obj'[n].task = "ready" /\ obj'[n].future = obj[n].future
        /\ obj'[n].told
    BY <1>1, <1>2, <1>6 DEF SendRefused
  <2>2. Writes' /\ Timed' /\ Begin'
    BY <1>1, <1>2, <2>1 DEF Writes, Timed, Begin
  <2>3. Reads'
    BY <1>2, <1>3, <2>1 DEF Reads, Alive, Aside, NoExpect, W!Alive
  <2>4. Awaits'
    BY <1>1, <1>2, <1>4, <2>1 DEF Awaits
  <2> QED
    BY <2>2, <2>3, <2>4 DEF QInv
<1>7. CASE SendSkipped(n)
  <2> DEFINE g == [obj[n] EXCEPT !.bodies = TRUE, !.latest = FALSE]
  <2>1. /\ Aside(conn', conn) /\ conn'.uv = conn.uv /\ conn'.shut = conn.shut
        /\ conn'.wq = <<>> /\ ~conn'.reading
        /\ timer' = timer
        /\ \A m \in Messages : m # n => obj'[m] = obj[m]
        /\ Like(obj'[n], g)
    BY <1>1, <1>2, <1>7 DEF SendSkipped
  <2>2. obj'[n].task = "ready" /\ obj'[n].future = obj[n].future /\ ~obj'[n].told
    <3>1. obj[n] \in Asgi
      BY DEF QInv, TInv, TypeOK
    <3> QED
      BY <1>1, <2>1, <3>1 DEF Like, Asgi
  <2> HIDE DEF g
  <2>3. Writes' /\ Timed' /\ Begin'
    BY <1>1, <1>2, <2>1 DEF Writes, Timed, Begin
  <2>4. Reads'
    BY <1>2, <1>3, <2>1 DEF Reads, Alive, Aside, NoExpect, W!Alive
  <2>5. Awaits'
    BY <1>1, <1>2, <1>4, <2>1, <2>2 DEF Awaits
  <2> QED
    BY <2>3, <2>4, <2>5 DEF QInv
<1>8. CASE SendWritten(n)
  <2>1. PICK more \in BOOLEAN :
          Like(obj'[n], [obj[n] EXCEPT !.bodies = TRUE, !.latest = ~more,
                                       !.start = "none", !.future = "pending",
                                       !.task = "sending"])
    BY <1>8 DEF SendWritten
  <2>2. /\ Aside(conn', conn) /\ conn'.uv = conn.uv /\ conn'.shut = conn.shut
        /\ conn'.wq = Append(<<>>, "resp") /\ ~conn'.reading
        /\ timer' = timer /\ W!Alive(conn)
        /\ \A m \in Messages : m # n => obj'[m] = obj[m]
    BY <1>2, <1>8 DEF SendWritten, Alive
  <2>3. conn'.wq = <<"resp">> /\ conn'.wq # <<>>
    BY <2>2
  <2>4. /\ obj'[n].task = "sending" /\ obj'[n].future = "pending"
        /\ ~obj'[n].told
    <3>1. obj[n] \in Asgi
      BY DEF QInv, TInv, TypeOK
    <3> QED
      BY <1>1, <2>1, <3>1 DEF Like, Asgi
  <2>5. Writes' /\ Timed' /\ Begin'
    BY <1>1, <1>2, <2>2, <2>3, <2>4 DEF Writes, Timed, Begin, W!Alive
  <2>6. Reads'
    BY <1>2, <1>3, <2>2 DEF Reads, Alive, Aside, NoExpect, W!Alive
  <2>7. Awaits'
    BY <1>1, <1>2, <1>4, <2>2, <2>3, <2>4 DEF Awaits
  <2> QED
    BY <2>5, <2>6, <2>7 DEF QInv
<1> QED
  BY <1>1, <1>5, <1>6, <1>7, <1>8 DEF Sends

(* asgi_done: what it hands over can be read or timed. *)
LEMMA DoneQuietly ==
  ASSUME QInv, TInv', NEW n \in Messages, asgi_done(n)
  PROVE  QInv'
<1>0. /\ conn \in W!Conn /\ obj[n] \in Asgi /\ timer \in BOOLEAN /\ TypeOK
  BY DEF QInv, TInv, TypeOK
<1>1. obj[n].task = "ended" /\ SetObj(n, Gone(obj[n]))
  BY DEF asgi_done
<1>2. /\ obj'[n] = Gone(obj[n])
      /\ \A m \in Messages : m # n => obj'[m] = obj[m]
  BY <1>0, <1>1, Going, Setting
<1>3. /\ obj'[n].task = "gone" /\ obj'[n].future = "none" /\ ~obj'[n].told
  BY <1>2 DEF Gone, create_asgi
<1>4. CASE asgi = n
  <2> DEFINE q == Done(conn, obj[n].raised).conn
             t == Done(conn, obj[n].raised).timer
             doomed == obj[n].raised \/ conn.state = "CS_DESTROY"
  <2>1. asgi' = 0 /\ conn' = q /\ timer' = t
    BY <1>4 DEF asgi_done
  <2>2. /\ Data(q, conn) /\ q.shut = conn.shut
        /\ q.uv = conn.uv \/ (conn.uv = "open" /\ q.uv = "closing")
        /\ doomed \/ conn.rx = "RXS_FREEZED" => q.reading = conn.reading
        /\ ~doomed /\ conn.rx # "RXS_FREEZED" => t = timer
    <3>1. obj[n].raised \in BOOLEAN
      BY <1>0 DEF Asgi
    <3> QED
      BY <1>0, <3>1, Finishing
  <2> HIDE DEF q, t
  <2>3. /\ conn.wq = <<>> /\ ~conn.reading
        /\ conn.parser = "mid" => conn.uv = "closed"
        /\ conn.uv # "none"
        /\ timer => conn.state = "CS_DESTROY"
        /\ \A m \in Messages : obj[m].task # "sending"
    BY <1>1, <1>4, CallerAlone
  <2>4. Writes' /\ Begin'
    BY <2>1, <2>2, <2>3 DEF Writes, Begin, Data
  <2>5. Reads'
    BY <2>1, <2>2, <2>3
       DEF QInv, Reads, Uncalled, Alive, W!Alive, NoExpect, Data
  <2>6. Timed'
    BY <2>1, <2>2, <2>3 DEF Timed
  <2>7. Awaits'
    BY <1>2, <1>3, <2>3 DEF QInv, Awaits
  <2> QED
    BY <2>4, <2>5, <2>6, <2>7 DEF QInv
<1>5. CASE asgi # n
  <2>1. conn' = conn /\ asgi' = asgi /\ timer' = timer
    BY <1>5 DEF asgi_done
  <2>2. asgi # 0 => asgi \in Messages /\ obj'[asgi] = obj[asgi]
    BY <1>0, <1>2, <1>5 DEF TypeOK
  <2>3. Writes' /\ Begin' /\ Timed'
    BY <2>1, <2>2 DEF QInv, Writes, Begin, Timed
  <2>4. Reads'
    BY <2>1, <2>2 DEF QInv, Reads, Uncalled, Alive
  <2>5. Awaits'
    BY <1>2, <1>3, <2>1 DEF QInv, Awaits
  <2> QED
    BY <2>3, <2>4, <2>5 DEF QInv
<1> QED
  BY <1>4, <1>5

(* The objects after a parse that nothing stands in the way of.            *)
LEMMA ParsedObjects ==
  ASSUME QInv, Uncalled, conn.wq = <<>>, conn.uv # "closed",
         NEW k \in W!Conn, Counts(k),
         k.parser = conn.parser, k.asked = conn.asked,
         NEW e, Within(k, e), NEW ok \in BOOLEAN, Called(k, e, ok),
         NEW n, n = k.asked + 1
  PROVE  /\ n \in Messages
         /\ \A m \in Messages : obj[m].task # "sending"
         /\ \A m \in Messages : m # n => Like(obj'[m], obj[m])
         /\ k.parser = "error" => asgi' = asgi /\ obj' = obj
         /\ k.parser # "error" =>
              /\ asgi' = n
              /\ ~(Completes(k, e) /\ ok) => Like(obj'[n], create_asgi)
              /\ Completes(k, e) /\ ok =>
                   Like(obj'[n], [create_asgi EXCEPT !.task = "ready"])
<1>1. n \in Messages /\ TypeOK
  BY Numbered DEF QInv, TInv
<1>2. \A m \in Messages : obj[m].task # "sending"
  BY DEF QInv, Awaits
<1>3. /\ asgi' = IF Begins(k) THEN n ELSE asgi
      /\ \A m \in Messages : m # n => Like(obj'[m], obj[m])
      /\ ~Begins(k) /\ ~(Completes(k, e) /\ ok) => obj' = obj
      /\ Begins(k) /\ ~(Completes(k, e) /\ ok) => Like(obj'[n], create_asgi)
      /\ Completes(k, e) /\ ok =>
           Like(obj'[n], [(IF Begins(k) THEN create_asgi ELSE obj[n])
                            EXCEPT !.task = "ready"])
  BY <1>1, Calls
<1>4. k.parser \in {"idle", "mid", "error"}
  BY DEF W!Conn
<1>5. k.parser = "error" => ~Completes(k, e) /\ ~Begins(k)
  BY DEF Completes, W!ParseFails, Begins
<1>6. CASE k.parser = "idle"
  <2>1. Begins(k)
    BY <1>6 DEF Begins
  <2> QED
    BY <1>1, <1>2, <1>3, <1>6, <2>1
<1>7. CASE k.parser = "mid"
  <2>1. ~Begins(k) /\ asgi = n
    BY <1>7 DEF Begins, QInv, Reads
  <2>2. obj[n].task = "none"
    BY <1>1, <2>1 DEF Uncalled, Messages
  <2>3. Like(obj[n], create_asgi) /\ obj[n] \in Asgi
    BY <1>1, <2>2 DEF QInv, Awaits, TypeOK
  <2>4. Like([obj[n] EXCEPT !.task = "ready"],
             [create_asgi EXCEPT !.task = "ready"])
    BY <2>3, NewAsgi DEF Like, Asgi
  <2>5. /\ ~(Completes(k, e) /\ ok) => Like(obj'[n], create_asgi)
        /\ Completes(k, e) /\ ok =>
             Like(obj'[n], [create_asgi EXCEPT !.task = "ready"])
    BY <1>3, <2>1, <2>3, <2>4 DEF Like
  <2> QED
    BY <1>1, <1>2, <1>3, <1>7, <2>1, <2>5
<1>8. CASE k.parser = "error"
  BY <1>1, <1>2, <1>3, <1>5, <1>8
<1> QED
  BY <1>4, <1>6, <1>7, <1>8

(* A step that parses. *)
LEMMA ParsesQuietly ==
  ASSUME QInv, TInv', Uncalled, conn.wq = <<>>,
         conn.uv # "closed", conn.uv # "none", timer' = FALSE,
         NEW k \in W!Conn, Counts(k), NoExpect(k),
         k.parser = conn.parser, k.asked = conn.asked, k.wq = conn.wq,
         k.uv = conn.uv, k.shut = conn.shut,
         NEW e, Within(k, e), NEW ok \in BOOLEAN, Called(k, e, ok),
         conn' = Parsed(k, e, ok)
  PROVE  QInv'
<1> DEFINE n == k.asked + 1
           q == Parsed(k, e, ok)
           ran == Completes(k, e) /\ ok
           started == [create_asgi EXCEPT !.task = "ready"]
<1>1. /\ n \in Messages
      /\ \A m \in Messages : obj[m].task # "sending"
      /\ \A m \in Messages : m # n => Like(obj'[m], obj[m])
      /\ k.parser = "error" => asgi' = asgi /\ obj' = obj
      /\ k.parser # "error" =>
           /\ asgi' = n
           /\ ~ran => Like(obj'[n], create_asgi)
           /\ ran => Like(obj'[n], started)
  BY ParsedObjects
<1>2. /\ started.task = "ready" /\ started.future = "none" /\ ~started.told
      /\ create_asgi.task = "none" /\ create_asgi.future = "none"
      /\ ~create_asgi.told
  BY DEF create_asgi
<1>3. k.parser = "error" => ~ran /\ ~W!Alive(k)
  BY DEF Completes, W!ParseFails, QInv, Reads, Alive, W!Alive
<1>4. Append(<<>>, "resp") = <<"resp">>
  OBVIOUS
<1>5. n # 0 /\ n = k.asked + 1
  BY <1>1 DEF Messages
<1>6. conn' = q
  OBVIOUS
<1> HIDE DEF n, started
<1>7. Awaits'
  <2>1. ASSUME NEW m \in Messages
        PROVE  /\ obj'[m].task # "sending" /\ obj'[m].future # "pending"
               /\ obj'[m].told => obj'[m].task \in {"ready", "ended"}
               /\ obj'[m].task = "none" => Like(obj'[m], create_asgi)
    <3>1. /\ obj[m].future # "pending" /\ obj[m].task # "sending"
          /\ obj[m].told => obj[m].task \in {"ready", "ended"}
          /\ obj[m].task = "none" => Like(obj[m], create_asgi)
      BY <1>1 DEF QInv, Awaits
    <3>2. CASE m # n \/ k.parser = "error"
      <4>1. Like(obj'[m], obj[m])
        BY <1>1, <3>2 DEF Like
      <4> QED
        BY <3>1, <4>1 DEF Like
    <3>3. CASE m = n /\ k.parser # "error" /\ ran
      <4>1. Like(obj'[m], started)
        BY <1>1, <3>3
      <4> QED
        BY <1>2, <4>1 DEF Like
    <3>4. CASE m = n /\ k.parser # "error" /\ ~ran
      <4>1. Like(obj'[m], create_asgi)
        BY <1>1, <3>4
      <4> QED
        BY <1>2, <4>1 DEF Like
    <3> QED
      BY <3>2, <3>3, <3>4
  <2> QED
    BY <2>1 DEF Awaits
<1>8. Timed'
  BY DEF Timed
<1>9. k.parser # "error" /\ ~ran => asgi' = n /\ Uncalled'
  BY <1>1, <1>2 DEF Uncalled, Like
<1>10. CASE W!ParseFails(k, e)
  <2>1. Failed(q, k, e) /\ ~ran
    BY <1>10, FailsIt DEF Completes
  <2> HIDE DEF q
  <2>2. /\ q.buf = k.buf /\ q.parser = "error" /\ ~q.reading /\ ~W!Alive(q)
        /\ q.uv = k.uv \/ (k.uv = "open" /\ q.uv = "closing")
        /\ q.wq = (IF W!Alive(k) THEN <<"resp">> ELSE <<>>)
        /\ q.wq # <<>> => q.uv = "open" \/ q.shut
    BY <1>4, <2>1 DEF Failed, Leaves
  <2>3. Writes'
    <3>1. q.wq # <<>> => k.parser # "error"
      BY <1>3, <2>2
    <3> QED
      BY <1>5, <1>6, <1>9, <2>1, <2>2, <3>1 DEF Writes, Uncalled
  <2>4. Reads' /\ Begin'
    BY <1>6, <2>2 DEF Reads, Begin, NoExpect, Alive, W!Alive
  <2> QED
    BY <1>7, <1>8, <2>3, <2>4 DEF QInv
<1>11. CASE ~W!ParseFails(k, e) /\ k.buf[e] \notin W!Stops
  <2>1. Held(q, k, e) /\ ~ran /\ k.parser # "error"
    BY <1>11, HoldsIt DEF Completes, W!Stops, W!ParseFails
  <2> HIDE DEF q
  <2>2. /\ q.buf = k.buf /\ q.parser = "mid" /\ q.asked = k.asked
        /\ q.uv = k.uv \/ (k.uv = "open" /\ q.uv = "closing")
        /\ q.wq = <<>>
    BY <2>1 DEF Held, Leaves
  <2>3. Writes'
    BY <1>6, <2>2 DEF Writes
  <2>4. Reads' /\ Begin'
    BY <1>5, <1>6, <1>9, <2>1, <2>2 DEF Reads, Begin, NoExpect
  <2> QED
    BY <1>7, <1>8, <2>3, <2>4 DEF QInv
<1>12. CASE \/ ~W!ParseFails(k, e) /\ k.buf[e] = "oversize"
            \/ Completes(k, e) /\ ~ok
  <2>1. Refused(q, k, e) /\ ~ran /\ k.parser # "error"
    BY <1>12, RefusesIt DEF Completes, W!ParseFails
  <2> HIDE DEF q
  <2>2. /\ q.buf = k.buf /\ q.parser = "idle" /\ ~q.reading
        /\ q.uv = k.uv \/ (k.uv = "open" /\ q.uv = "closing")
        /\ q.wq = (IF W!Alive(k) THEN <<"resp">> ELSE <<>>)
        /\ q.wq # <<>> => q.uv = "open" \/ q.shut
    BY <1>4, <2>1 DEF Refused, Leaves
  <2>3. Writes'
    BY <1>5, <1>6, <1>9, <2>1, <2>2 DEF Writes, Uncalled
  <2>4. Reads' /\ Begin'
    BY <1>6, <2>2 DEF Reads, Begin, NoExpect
  <2> QED
    BY <1>7, <1>8, <2>3, <2>4 DEF QInv
<1>13. CASE Completes(k, e) /\ ok
  <2>1. Completed(q, k, e) /\ ~q.reading
    <3>1. ok = TRUE
      BY <1>13
    <3> QED
      BY <1>13, <3>1, RunsIt
  <2> HIDE DEF q
  <2>2. /\ q.buf = k.buf /\ q.parser = "idle" /\ ~q.reading /\ q.wq = <<>>
        /\ q.uv = k.uv \/ (k.uv = "open" /\ q.uv = "closing")
    BY <2>1 DEF Completed
  <2>3. Writes' /\ Reads' /\ Begin'
    BY <1>6, <2>2 DEF Writes, Reads, Begin, NoExpect
  <2> QED
    BY <1>7, <1>8, <2>3 DEF QInv
<1> QED
  BY <1>10, <1>11, <1>12, <1>13, Outcomes

(* What a completed write finds: an object that waits for it, or was never *)
(* called; nothing is read, and no timer runs.                             *)
LEMMA WriteAlone ==
  ASSUME QInv, conn.wq # <<>>
  PROVE  /\ conn.wq = <<"resp">> /\ Head(conn.wq) = "resp" /\ Tail(conn.wq) = <<>>
         /\ asgi \in Messages /\ asgi # 0
         /\ obj[asgi].task \in {"none", "sending"} /\ ~obj[asgi].told
         /\ conn.uv = "open" \/ conn.shut
         /\ conn.uv # "none" /\ ~conn.reading /\ ~timer
         /\ conn.parser = "mid" => conn.uv = "closed"
         /\ \A m \in Messages : m # asgi =>
              obj[m].task # "sending" /\ obj[m].future # "pending"
<1>1. /\ asgi # 0 /\ obj[asgi].task \in {"none", "sending"}
      /\ conn.uv = "open" \/ conn.shut
      /\ conn.wq \in {<<>>, <<"resp">>}
  BY DEF QInv, Writes
<1>2. asgi \in Messages
  BY <1>1 DEF QInv, TInv, TypeOK
<1>3. ~obj[asgi].told
  BY <1>1, <1>2 DEF QInv, Awaits
<1>4. conn.uv # "none" /\ ~conn.reading
      /\ (conn.parser = "mid" => conn.uv = "closed")
  BY <1>1 DEF QInv, Begin, Reads
<1>5. ~timer
  BY <1>1, <1>3 DEF QInv, Timed
<1>6. \A m \in Messages : m # asgi =>
        obj[m].task # "sending" /\ obj[m].future # "pending"
  BY DEF QInv, Awaits
<1> QED
  BY <1>1, <1>2, <1>3, <1>4, <1>5, <1>6, OneInQueue

(* A write is reported: the send that waits for it is answered. *)
LEMMA ReportedQuietly ==
  ASSUME QInv, TInv', conn.wq # <<>>, asgi' = asgi, timer' = timer,
         conn'.buf = conn.buf, conn'.parser = conn.parser, conn'.wq = <<>>,
         conn'.shut = conn.shut, ~conn'.reading,
         conn'.uv = conn.uv \/ (conn.uv = "open" /\ conn'.uv = "closing"),
         \A m \in Messages : m # asgi => obj'[m] = obj[m],
         obj'[asgi].future = "none",
         obj[asgi].task = "sending" => obj'[asgi].task = "ready",
         obj[asgi].task = "none" => Like(obj'[asgi], obj[asgi])
  PROVE  QInv'
<1>1. /\ asgi \in Messages /\ asgi # 0
      /\ obj[asgi].task \in {"none", "sending"}
      /\ conn.uv # "none" /\ ~timer
      /\ conn.parser = "mid" => conn.uv = "closed"
      /\ \A m \in Messages : m # asgi =>
           obj[m].task # "sending" /\ obj[m].future # "pending"
  BY WriteAlone
<1>2. Writes' /\ Timed' /\ Begin'
  BY <1>1 DEF Writes, Timed, Begin
<1>3. Reads'
  BY <1>1 DEF QInv, Reads, NoExpect, Alive, W!Alive
<1>4. Awaits'
  <2>1. ASSUME NEW m \in Messages
        PROVE  /\ obj'[m].task # "sending" /\ obj'[m].future # "pending"
               /\ obj'[m].told => obj'[m].task \in {"ready", "ended"}
               /\ obj'[m].task = "none" => Like(obj'[m], create_asgi)
    <3>0. /\ obj[m].told => obj[m].task \in {"ready", "ended"}
          /\ obj[m].task = "none" => Like(obj[m], create_asgi)
      BY DEF QInv, Awaits
    <3>1. CASE m # asgi
      BY <1>1, <3>0, <3>1
    <3>2. CASE m = asgi /\ obj[asgi].task = "sending"
      BY <3>2
    <3>3. CASE m = asgi /\ obj[asgi].task = "none"
      BY <3>0, <3>3 DEF Like
    <3> QED
      BY <1>1, <3>1, <3>2, <3>3
  <2> QED
    BY <2>1 DEF Awaits
<1> QED
  BY <1>2, <1>3, <1>4 DEF QInv

(* What the answer to a send makes of its object. *)
LEMMA Resolving ==
  ASSUME NEW o \in Asgi
  PROVE  /\ Resolved(o).future = "none" /\ Resolved(o).told = o.told
         /\ Resolved(o).status = o.status /\ Resolved(o).start = o.start
         /\ Resolved(o).bodies = o.bodies /\ Resolved(o).latest = o.latest
         /\ Resolved(o).raised = o.raised
         /\ o.task = "sending" => Resolved(o).task = "ready"
         /\ o.task # "sending" => Resolved(o).task = o.task
  BY DEF Resolved, Asgi

(* write_cb of the response of a coroutine. *)
LEMMA ResponseReported ==
  ASSUME QInv, ResponseWritten
  PROVE  LET k == Reported
             q == AsgiWritten(k, obj[asgi])
         IN /\ conn.wq # <<>> /\ conn' = W!Drain(q)
            /\ Aside(k, conn) /\ k.wq = <<>> /\ k.chunked = conn.chunked
            /\ k.uv = conn.uv /\ k.shut = conn.shut /\ ~k.reading
            /\ asgi' = asgi /\ timer' = timer /\ frame' = frame
            /\ habits' = habits
            /\ obj'[asgi] = Resolved(obj[asgi])
            /\ \A m \in Messages : m # asgi => obj'[m] = obj[m]
<1> DEFINE k == [conn EXCEPT !.wq = Tail(conn.wq)]
<1>1. k = Reported
  BY DEF Reported
<1>2. conn.wq # <<>>
  BY DEF ResponseWritten
<1>3. asgi # 0 /\ asgi \in Messages /\ Tail(conn.wq) = <<>> /\ ~conn.reading
  BY <1>2, WriteAlone
<1>4. conn \in W!Conn /\ TypeOK /\ obj[asgi] \in Asgi
  BY <1>3 DEF QInv, TInv, TypeOK
<1>5. /\ Aside(k, conn) /\ k.wq = <<>> /\ k.chunked = conn.chunked
      /\ k.uv = conn.uv /\ k.shut = conn.shut /\ ~k.reading
  BY <1>2, <1>3, <1>4, Reporting
<1>6. /\ conn' = W!Drain(AsgiWritten(Reported, obj[asgi]))
      /\ SetObj(asgi, Resolved(obj[asgi])) /\ asgi' = asgi
      /\ frame' = frame /\ UNCHANGED <<timer, habits>>
  BY <1>3 DEF ResponseWritten
<1>7. /\ obj'[asgi] = Resolved(obj[asgi])
      /\ \A m \in Messages : m # asgi => obj'[m] = obj[m]
  <2>1. Resolved(obj[asgi]) \in Asgi
    BY <1>3, <1>4, AppTyped
  <2> QED
    BY <1>3, <1>4, <1>6, <2>1, Setting
<1> HIDE DEF k
<1> QED
  BY <1>1, <1>2, <1>5, <1>6, <1>7

(* write_cb with an error. *)
LEMMA FailureReported ==
  ASSUME QInv, WriteFailed
  PROVE  /\ conn.wq # <<>>
         /\ Keeps(conn', conn) /\ conn'.parser = conn.parser
         /\ conn'.wq = <<>> /\ conn'.done = conn.done
         /\ conn'.shut = conn.shut /\ ~conn'.reading
         /\ conn'.uv = conn.uv \/ (conn.uv = "open" /\ conn'.uv = "closing")
         /\ ~W!Alive(conn') /\ conn'.state = "CS_DESTROY"
         /\ asgi' = asgi /\ timer' = timer /\ frame' = frame
         /\ habits' = habits
         /\ obj'[asgi] = [Resolved(obj[asgi]) EXCEPT
                            !.told = obj[asgi].told
                                       \/ obj[asgi].future = "pending"]
         /\ \A m \in Messages : m # asgi => obj'[m] = obj[m]
<1> DEFINE k == [conn EXCEPT !.wq = Tail(conn.wq)]
           p == [k EXCEPT !.pre = 0]
           o == [Resolved(obj[asgi]) EXCEPT
                   !.told = obj[asgi].told \/ obj[asgi].future = "pending"]
<1>1. conn.wq # <<>>
  BY DEF WriteFailed
<1>2. asgi # 0 /\ asgi \in Messages /\ Tail(conn.wq) = <<>> /\ ~conn.reading
  BY <1>1, WriteAlone
<1>3. conn \in W!Conn /\ TypeOK /\ obj[asgi] \in Asgi
  BY <1>2 DEF QInv, TInv, TypeOK
<1>4. /\ Aside(k, conn) /\ k.wq = <<>>
      /\ k.uv = conn.uv /\ k.shut = conn.shut /\ ~k.reading /\ k \in W!Conn
  BY <1>1, <1>2, <1>3, Reporting DEF Aside
<1>5. /\ conn' = W!close_connection(p)
      /\ UNCHANGED <<asgi, timer, frame, habits>>
  BY DEF WriteFailed, Reported
<1>6. SetObj(asgi, o)
  <2>1. SetObj(asgi, [Resolved(obj[asgi]) EXCEPT
                        !.told = @ \/ obj[asgi].future = "pending"])
    BY <1>2 DEF WriteFailed
  <2>2. Resolved(obj[asgi]).told = obj[asgi].told
    BY DEF Resolved
  <2> QED
    BY <2>1, <2>2
<1>7. o \in Asgi
  BY <1>2, <1>3, AppTyped
<1> HIDE DEF k, o
<1>8. /\ obj'[asgi] = o
      /\ \A m \in Messages : m # asgi => obj'[m] = obj[m]
  BY <1>2, <1>3, <1>6, <1>7, Setting
<1>9. /\ Data(p, k) /\ p.uv = k.uv /\ p.shut = k.shut
      /\ p.reading = k.reading /\ p \in W!Conn
  <2>1. 0 \in Nat
    OBVIOUS
  <2> QED
    BY <1>4, <2>1 DEF W!Conn, Data
<1> HIDE DEF p
<1>10. /\ Ends(conn', p) /\ conn'.shut = p.shut
  BY <1>5, <1>9, CloseEnds
<1>11. /\ Keeps(conn', conn) /\ conn'.parser = conn.parser
       /\ conn'.wq = <<>> /\ conn'.done = conn.done
       /\ conn'.shut = conn.shut /\ ~conn'.reading
       /\ conn'.uv = conn.uv \/ (conn.uv = "open" /\ conn'.uv = "closing")
       /\ ~W!Alive(conn') /\ conn'.state = "CS_DESTROY"
  BY <1>4, <1>9, <1>10 DEF Ends, Data, Aside, Keeps
<1> QED
  BY <1>1, <1>5, <1>8, <1>11 DEF o

(* The close of the connection, and what is left of its object. *)
LEMMA Closing ==
  ASSUME TInv, close_cb
  PROVE  /\ conn.uv = "closing" /\ conn.wq = <<>>
         /\ conn'.uv = "closed" /\ ~conn'.reading /\ conn'.wq = <<>>
         /\ conn'.buf = conn.buf /\ conn'.parser = conn.parser
         /\ conn'.state = conn.state /\ conn'.done = conn.done
         /\ conn'.calls = conn.calls
         /\ asgi' = 0 /\ timer' = FALSE /\ frame' = frame /\ habits' = habits
         /\ \A m \in Messages : Like(obj'[m], obj[m])
<1> DEFINE r == W!reset_response_body(conn)
           q == [r EXCEPT !.uv = "closed", !.rx = "RXS_RESTING",
                          !.reading = FALSE]
<1>1. /\ conn' = q /\ obj' = asgi_free /\ asgi' = 0 /\ timer' = FALSE
      /\ UNCHANGED <<frame, habits>>
      /\ conn.uv = "closing" /\ conn.wq = <<>>
  BY DEF close_cb
<1>2. conn \in W!Conn /\ TypeOK
  BY DEF TInv, TypeOK
<1>3. /\ Data(r, [conn EXCEPT !.chunked = 0]) /\ r \in W!Conn
      /\ r.state = conn.state
  BY <1>2, ResetBody DEF Data
<1>4. /\ r.wq = conn.wq /\ r.buf = conn.buf /\ r.parser = conn.parser
      /\ r.done = conn.done /\ r.calls = conn.calls
  BY <1>2, <1>3 DEF Data, W!Conn
<1> HIDE DEF r
<1>5. /\ q.uv = "closed" /\ ~q.reading /\ q.wq = r.wq /\ q.buf = r.buf
      /\ q.parser = r.parser /\ q.state = r.state /\ q.done = r.done
      /\ q.calls = r.calls
  BY <1>3 DEF W!Conn
<1> HIDE DEF q
<1> QED
  BY <1>1, <1>2, <1>3, <1>4, <1>5, Freeing

(* The first step of a connection. *)
LEMMA Connecting ==
  ASSUME QInv, connection_cb
  PROVE  /\ asgi = 0 /\ ~timer /\ UNCHANGED <<asgi, timer, obj, frame, habits>>
         /\ conn'.uv \in {"open", "closing"} /\ conn'.wq = <<>>
         /\ conn'.parser = "idle" /\ NoExpect(conn') /\ ~conn'.shut
         /\ conn'.uv = "closing" =>
              ~conn'.reading /\ conn'.state = "CS_DESTROY"
         /\ conn'.uv = "open" =>
              conn'.reading /\ conn'.reqT /\ conn'.state = "CS_REQ_READ"
         /\ conn = W!Fresh /\ conn'.done = conn.done /\ conn'.calls = conn.calls
         /\ \A m \in Messages :
              obj[m].task # "sending" /\ obj[m].future # "pending"
<1>1. conn.uv = "none"
  BY DEF connection_cb
<1>2. conn = W!Fresh /\ asgi = 0 /\ ~timer
  BY <1>1 DEF QInv, Begin, Timed
<1>3. \A m \in Messages :
        obj[m].task # "sending" /\ obj[m].future # "pending"
  BY <1>2 DEF QInv, Awaits, Messages
<1>4. /\ \/ conn' = [W!Fresh EXCEPT !.uv = "open", !.state = "CS_REQ_READ",
                                    !.reading = TRUE, !.reqT = TRUE]
         \/ conn' = [W!Fresh EXCEPT !.uv = "closing", !.state = "CS_DESTROY"]
      /\ UNCHANGED <<asgi, timer, obj, frame, habits>>
  BY DEF connection_cb
<1>5. /\ conn'.uv \in {"open", "closing"} /\ conn'.wq = <<>>
      /\ conn'.parser = "idle" /\ NoExpect(conn') /\ ~conn'.shut
      /\ conn'.uv = "closing" =>
           ~conn'.reading /\ conn'.state = "CS_DESTROY"
      /\ conn'.uv = "open" =>
           conn'.reading /\ conn'.reqT /\ conn'.state = "CS_REQ_READ"
      /\ conn'.done = W!Fresh.done /\ conn'.calls = W!Fresh.calls
  <2>1. W!Fresh.done = 0 /\ W!Fresh.calls = 0
    BY Accepting
  <2> QED
    BY <1>4, <2>1, Accepting
<1> QED
  BY <1>2, <1>3, <1>4, <1>5

(* A step of a coroutine on its object alone, and what it does to it. *)
Acts(n) ==
  /\ UNCHANGED <<conn, asgi, timer, frame, habits>>
  /\ obj[n].task \in {"ready", "waiting"}
  /\ obj'[n].task \in {"ready", "waiting", "ended"}
  /\ obj'[n].future = obj[n].future /\ obj'[n].told = obj[n].told
  /\ obj'[n].told => obj'[n].task \in {"ready", "ended"}
  /\ obj'[n].status = obj[n].status /\ obj'[n].start = obj[n].start
  /\ obj'[n].bodies = obj[n].bodies /\ obj'[n].latest = obj[n].latest
  /\ obj'[n].task = "ended" =>
       obj'[n].raised \/ obj[n].latest \/ obj[n].told \/ "stops" \in habits
  /\ \A m \in Messages : m # n => obj'[m] = obj[m]

(* receive, the end of a wait and the end of the coroutine are such steps. *)
LEMMA Acting ==
  ASSUME QInv, NEW n \in Messages,
         asgi_receive(n) \/ GiveUp(n) \/ AppEnds(n)
  PROVE  Acts(n)
<1>1. obj[n] \in Asgi /\ TypeOK
  BY DEF QInv, TInv, TypeOK
<1>2. obj[n].told => obj[n].task \in {"ready", "ended"}
  BY DEF QInv, Awaits
<1>3. CASE asgi_receive(n)
  <2>1. /\ UNCHANGED <<conn, asgi, timer, frame, habits>>
        /\ obj[n].task = "ready" /\ ~obj[n].told
        /\ \/ SetObj(n, [obj[n] EXCEPT !.received = TRUE])
           \/ SetObj(n, [obj[n] EXCEPT !.task = "waiting"])
    BY <1>3 DEF asgi_receive, MayCall
  <2>2. CASE SetObj(n, [obj[n] EXCEPT !.received = TRUE])
    <3>1. /\ obj'[n] = [obj[n] EXCEPT !.received = TRUE]
          /\ \A m \in Messages : m # n => obj'[m] = obj[m]
      BY <1>1, <2>2, AppTyped, Setting
    <3> QED
      BY <1>1, <2>1, <3>1 DEF Acts, Asgi
  <2>3. CASE SetObj(n, [obj[n] EXCEPT !.task = "waiting"])
    <3>1. /\ obj'[n] = [obj[n] EXCEPT !.task = "waiting"]
          /\ \A m \in Messages : m # n => obj'[m] = obj[m]
      BY <1>1, <2>3, AppTyped, Setting
    <3> QED
      BY <1>1, <2>1, <3>1 DEF Acts, Asgi
  <2> QED
    BY <2>1, <2>2, <2>3
<1>4. CASE GiveUp(n)
  <2>1. /\ UNCHANGED <<conn, asgi, timer, frame, habits>>
        /\ obj[n].task = "waiting"
        /\ SetObj(n, [obj[n] EXCEPT !.task = "ready"])
    BY <1>4 DEF GiveUp
  <2>2. /\ obj'[n] = [obj[n] EXCEPT !.task = "ready"]
        /\ \A m \in Messages : m # n => obj'[m] = obj[m]
    BY <1>1, <2>1, AppTyped, Setting
  <2> QED
    BY <1>1, <2>1, <2>2 DEF Acts, Asgi
<1>5. CASE AppEnds(n)
  <2>1. PICK raises \in BOOLEAN :
          /\ raises \/ obj[n].latest \/ obj[n].told \/ "stops" \in habits
          /\ SetObj(n, [obj[n] EXCEPT !.task = "ended", !.raised = raises,
                                      !.refs = @ - 2])
    BY <1>5 DEF AppEnds
  <2>2. /\ UNCHANGED <<conn, asgi, timer, frame, habits>>
        /\ obj[n].task = "ready"
    BY <1>5 DEF AppEnds
  <2>3. /\ Like(obj'[n], [obj[n] EXCEPT !.task = "ended", !.raised = raises])
        /\ \A m \in Messages : m # n => obj'[m] = obj[m]
    BY <1>1, <2>1, Ending, Setting
  <2> QED
    BY <1>1, <2>1, <2>2, <2>3 DEF Acts, Asgi, Like
<1> QED
  BY <1>3, <1>4, <1>5

(* What a read, or the end of the peer, finds: nothing is under way. *)
LEMMA ReadAlone ==
  ASSUME QInv, conn.reading
  PROVE  /\ conn.wq = <<>> /\ Uncalled /\ NoExpect(conn)
         /\ conn.uv = "none" => FALSE
         /\ timer = FALSE
<1>1. ~W!Fresh.reading
  BY Accepting
<1>2. timer \in BOOLEAN
  BY DEF QInv, TInv, TypeOK
<1> QED
  BY <1>1, <1>2 DEF QInv, Reads, Begin, Timed

(* Without 100-continue every step keeps what belongs together together.   *)
LEMMA QuietKept ==
  ASSUME QInv, TInv', "expect" \notin habits, [Next]_vars
  PROVE  QInv'
<1>0. conn \in W!Conn /\ TInv /\ NoExpect(conn)
  BY DEF QInv, TInv, TypeOK, Reads
<1>1. CASE UNCHANGED vars
  BY <1>1 DEF vars, QInv, Writes, Reads, Timed, Awaits, Begin, Uncalled, Alive
<1>2. CASE connection_cb
  BY <1>2, Connecting
     DEF QInv, Writes, Reads, Timed, Awaits, Begin, Uncalled
<1>3. CASE read_cb
  <2>1. conn.uv = "open" /\ conn.reading /\ UNCHANGED timer
    BY <1>3 DEF read_cb
  <2>2. conn.wq = <<>> /\ Uncalled /\ timer' = FALSE
    BY <2>1, ReadAlone
  <2>3. PICK toks \in PeerData :
          LET k == W!alloc_cb(conn, toks)
          IN IF conn.rx = "RXS_FREEZED"
             THEN /\ conn' = W!TakeAction(conn, "CA_SHUTDOWN")
                  /\ UNCHANGED <<asgi, obj>>
             ELSE \E e \in 1 .. Len(toks), ok \in BOOLEAN :
                    /\ W!EndsAt(k, e)
                    /\ ok \/ Completes(k, e)
                    /\ conn' = Parsed(k, e, ok)
                    /\ Called(k, e, ok)
    BY <1>3 DEF read_cb
  <2>4. CASE conn.rx = "RXS_FREEZED"
    <3>1. /\ conn' = W!shutdown_connection(W!stream_read_stop(conn))
          /\ UNCHANGED <<asgi, obj>>
      BY <2>3, <2>4 DEF W!TakeAction
    <3>2. Ends(conn', conn) /\ ~conn'.reading
      BY <1>0, <3>1, StopEnds
    <3> QED
      BY <2>1, <2>2, <3>1, <3>2, EndsQuietly
  <2>5. CASE conn.rx # "RXS_FREEZED"
    <3> DEFINE k == W!alloc_cb(conn, toks)
    <3>1. PICK e \in 1 .. Len(toks), ok \in BOOLEAN :
            W!EndsAt(k, e) /\ conn' = Parsed(k, e, ok) /\ Called(k, e, ok)
      BY <2>3, <2>5
    <3>2. /\ k \in W!Conn /\ Counts(k) /\ NoExpect(k)
          /\ k.parser = conn.parser /\ k.asked = conn.asked
          /\ k.wq = conn.wq /\ k.uv = conn.uv /\ k.shut = conn.shut
      BY <1>0, Receiving
    <3> HIDE DEF k
    <3>3. Within(k, e)
      BY <3>1, EndsWithin
    <3> QED
      BY <2>1, <2>2, <3>1, <3>2, <3>3, ParsesQuietly
  <2> QED
    BY <2>4, <2>5
<1>4. CASE PeerCloses
  <2>1. /\ conn.uv = "open" /\ conn.reading
        /\ conn' = W!close_connection(W!stream_read_stop(conn))
        /\ UNCHANGED <<asgi, timer, obj>>
    BY <1>4 DEF PeerCloses, W!TakeAction
  <2>2. conn.wq = <<>>
    BY <2>1, ReadAlone
  <2>3. Ends(conn', conn) /\ ~conn'.reading
    BY <1>0, <2>1, StopEnds
  <2> QED
    BY <2>1, <2>2, <2>3, EndsQuietly
<1>5. CASE read_timer_cb
  <2>1. timer /\ conn.uv # "closed" /\ timer' = FALSE
    BY <1>5 DEF read_timer_cb
  <2>2. /\ conn.uv # "none"
        /\ asgi # 0 => conn.state = "CS_DESTROY"
        /\ conn.wq # <<>> => conn.uv = "open" \/ conn.shut
    BY <2>1 DEF QInv, Timed, Writes
  <2>3. CASE conn.state = "CS_DESTROY"
    <3>1. /\ conn' = W!shutdown_connection(W!stream_read_stop(conn))
          /\ UNCHANGED <<asgi, obj>>
      BY <1>5, <2>3 DEF read_timer_cb
    <3>2. /\ Ends(conn', conn) /\ ~conn'.reading
          /\ (conn.uv = "open" => conn'.shut) /\ (conn.shut => conn'.shut)
      BY <1>0, <3>1, StopEnds
    <3> QED
      BY <2>1, <2>2, <3>1, <3>2, EndsQuietly
  <2>4. CASE conn.state # "CS_DESTROY" /\ conn.rx = "RXS_FREEZED"
    <3>1. asgi = 0 /\ Uncalled /\ conn.wq = <<>>
      BY <2>2, <2>4 DEF Uncalled, QInv, Writes
    <3>2. PICK e \in 1 .. Len(conn.buf), ok \in BOOLEAN :
            /\ W!EndsAt(conn, e) /\ conn' = Parsed(conn, e, ok)
            /\ Called(conn, e, ok)
      BY <1>5, <2>4 DEF read_timer_cb, read_rxbuf_after_send
    <3>3. Within(conn, e) /\ Counts(conn)
      BY <1>0, <3>2, EndsWithin DEF TInv
    <3> QED
      BY <1>0, <2>1, <2>2, <3>1, <3>2, <3>3, ParsesQuietly
  <2>5. CASE conn.state # "CS_DESTROY" /\ conn.rx # "RXS_FREEZED"
    <3>1. conn' = conn /\ asgi' = asgi /\ obj' = obj
      BY <1>5, <2>5 DEF read_timer_cb
    <3> QED
      BY <2>1, <3>1
         DEF QInv, Writes, Reads, Timed, Awaits, Begin, Uncalled, Alive
  <2> QED
    BY <2>3, <2>4, <2>5
<1>6. ASSUME NEW n \in Messages,
             asgi_receive(n) \/ GiveUp(n) \/ AppEnds(n)
      PROVE  QInv'
  BY <1>6, Acting, ActsQuietly DEF Acts
<1>7. ASSUME NEW n \in Messages, asgi_send(n) PROVE QInv'
  BY <1>7, SendsQuietly
<1>8. ASSUME NEW n \in Messages, asgi_done(n) PROVE QInv'
  BY <1>8, DoneQuietly
<1>9. CASE ResponseWritten
  <2> DEFINE k == Reported
             o == obj[asgi]
             q == AsgiWritten(k, o)
  <2>1. /\ conn.wq # <<>> /\ conn' = W!Drain(q)
        /\ Aside(k, conn) /\ k.wq = <<>> /\ k.uv = conn.uv
        /\ k.shut = conn.shut /\ ~k.reading
        /\ asgi' = asgi /\ timer' = timer
        /\ obj'[asgi] = Resolved(o)
        /\ \A m \in Messages : m # asgi => obj'[m] = obj[m]
    BY <1>9, ResponseReported
  <2>2. o \in Asgi /\ k \in W!Conn
    BY <1>0, <2>1, WriteAlone DEF Aside, TInv, TypeOK
  <2> HIDE DEF k, o
  <2>3. /\ Keeps(q, k) /\ q.wq = k.wq /\ q.shut = k.shut
        /\ q.parser = k.parser /\ ~q.reading /\ q \in W!Conn
        /\ q.uv = k.uv \/ (k.uv = "open" /\ q.uv = "closing")
    BY <2>1, <2>2, WrittenTyped DEF Keeps
  <2> HIDE DEF q
  <2>4. /\ Data(conn', q) /\ conn'.shut = q.shut /\ ~conn'.reading
        /\ conn'.uv = q.uv \/ (q.uv = "open" /\ conn'.uv = "closing")
    BY <2>1, <2>3, Draining
  <2>5. /\ Resolved(o).future = "none"
        /\ o.task = "sending" => Resolved(o).task = "ready"
        /\ o.task = "none" => Like(Resolved(o), o)
    <3>1. o.task = "none" => o.future = "none"
      BY <2>1, WriteAlone DEF QInv, Awaits, Like, create_asgi, o
    <3> QED
      BY <2>2, <3>1, Resolving DEF Like
  <2>6. /\ conn'.buf = conn.buf /\ conn'.parser = conn.parser
        /\ conn'.wq = <<>> /\ conn'.shut = conn.shut
        /\ conn'.uv = conn.uv \/ (conn.uv = "open" /\ conn'.uv = "closing")
    BY <2>1, <2>3, <2>4 DEF Data, Keeps, Aside
  <2> QED
    BY <2>1, <2>4, <2>5, <2>6, ReportedQuietly DEF o
<1>10. CASE WriteFailed
  <2> DEFINE o == obj[asgi]
             p == [Resolved(o) EXCEPT !.told = o.told \/ o.future = "pending"]
  <2>1. /\ conn.wq # <<>>
        /\ Keeps(conn', conn) /\ conn'.parser = conn.parser
        /\ conn'.wq = <<>>
        /\ conn'.shut = conn.shut /\ ~conn'.reading
        /\ conn'.uv = conn.uv \/ (conn.uv = "open" /\ conn'.uv = "closing")
        /\ asgi' = asgi /\ timer' = timer
        /\ obj'[asgi] = p
        /\ \A m \in Messages : m # asgi => obj'[m] = obj[m]
    BY <1>10, FailureReported
  <2>2. asgi \in Messages /\ o \in Asgi /\ TypeOK
    BY <1>0, <2>1, WriteAlone DEF TInv, TypeOK
  <2>3. o.task = "none" => o.future = "none" /\ ~o.told
    BY <2>2 DEF QInv, Awaits, Like, create_asgi
  <2> HIDE DEF o
  <2>4. Resolved(o) \in Asgi
    BY <2>2, AppTyped DEF o
  <2>5. /\ p.future = Resolved(o).future /\ p.task = Resolved(o).task
        /\ o.task = "none" => Like(p, Resolved(o))
    <3>1. o.task = "none" => (o.told \/ o.future = "pending") = Resolved(o).told
      BY <2>2, <2>3, Resolving DEF Asgi
    <3> HIDE DEF Resolved
    <3> QED
      BY <2>4, <3>1 DEF Asgi, Like
  <2> HIDE DEF p
  <2>6. /\ p.future = "none"
        /\ o.task = "sending" => p.task = "ready"
        /\ o.task = "none" => Like(p, o)
    BY <2>2, <2>3, <2>5, Resolving DEF Like
  <2> QED
    BY <2>1, <2>6, ReportedQuietly DEF Keeps, o
<1>11. CASE StatusWritten
  <2>1. conn.wq # <<>> /\ Head(conn.wq) = "status"
    BY <1>11 DEF StatusWritten
  <2> QED
    BY <2>1, WriteAlone
<1>12. CASE shutdown_cb
  <2>1. /\ conn.uv = "open" /\ conn.wq = <<>>
        /\ conn' = W!close_connection(conn)
        /\ UNCHANGED <<asgi, timer, obj>>
    BY <1>12 DEF shutdown_cb
  <2>2. Ends(conn', conn) /\ ~conn'.reading
    BY <1>0, <2>1, CloseEnds
  <2> QED
    BY <2>1, <2>2, EndsQuietly
<1>13. CASE close_cb
  <2>1. /\ conn.wq = <<>>
        /\ conn'.uv = "closed" /\ ~conn'.reading /\ conn'.wq = <<>>
        /\ conn'.buf = conn.buf /\ conn'.parser = conn.parser
        /\ asgi' = 0 /\ timer' = FALSE
        /\ \A m \in Messages : Like(obj'[m], obj[m])
    BY <1>0, <1>13, Closing
  <2>2. Writes' /\ Timed' /\ Begin'
    BY <2>1 DEF Writes, Timed, Begin
  <2>3. Reads'
    BY <1>0, <2>1 DEF Reads, NoExpect, Alive, W!Alive
  <2>4. Awaits'
    BY <2>1 DEF QInv, Awaits, Like
  <2> QED
    BY <2>2, <2>3, <2>4 DEF QInv
<1>14. CASE client_aux_check
  <2>1. /\ conn.uv = "open"
        /\ conn' = W!shutdown_connection(W!stream_read_stop(conn))
        /\ UNCHANGED <<asgi, timer, obj>>
    BY <1>14 DEF client_aux_check
  <2>2. /\ Ends(conn', conn) /\ ~conn'.reading /\ conn'.shut
    BY <1>0, <2>1, StopEnds
  <2> QED
    BY <2>1, <2>2, EndsQuietly
<1> QED
  BY <1>1, <1>2, <1>3, <1>4, <1>5, <1>6, <1>7, <1>8, <1>9, <1>10, <1>11,
     <1>12, <1>13, <1>14 DEF Next

-----------------------------------------------------------------------------
(* Without empty bodies either: what is owed can be sent.                  *)

(* What a coroutine that owes a part of its response has. *)
LEMMA OwedLive ==
  ASSUME SInv, NEW n \in Messages, Owes(n)
  PROVE  /\ asgi = n /\ Alive /\ ~conn.reading /\ ~timer
         /\ ~W!Overdue(conn) /\ ~Uncalled
<1>1. asgi = n /\ Alive /\ ~conn.reqT /\ ~conn.lastT /\ n # 0
  BY DEF SInv, Untimed, Messages
<1>2. obj[n].task # "none" /\ ~obj[n].told
  BY DEF Owes, Running
<1>3. ~Uncalled
  BY <1>1, <1>2 DEF Uncalled
<1>4. ~conn.reading /\ ~timer
  BY <1>1, <1>2, <1>3 DEF SInv, QInv, Reads, Timed
<1> QED
  BY <1>1, <1>3, <1>4 DEF W!Overdue

(* A step that ends a connection of which nothing is owed. *)
LEMMA EndsSoundly ==
  ASSUME SInv, QInv', Ends(conn', conn), ~conn'.reading,
         \A n \in Messages : ~Owes(n), UNCHANGED <<asgi, obj, frame>>
  PROVE  SInv'
<1>1. /\ conn'.parser = conn.parser /\ conn'.lastT = conn.lastT
      /\ conn'.chunked = conn.chunked /\ conn'.state = "CS_DESTROY"
      /\ conn'.uv # "closed" => conn.uv # "closed"
      /\ asgi' = asgi /\ obj' = obj /\ frame' = frame
  BY DEF Ends, Data
<1>2. \A n \in Messages : ~Owes(n)'
  BY <1>1 DEF Owes, Running
<1>3. Dying'
  BY <1>1 DEF Dying
<1>4. Untimed'
  BY <1>1, <1>2 DEF SInv, Untimed
<1>5. Streaming'
  BY <1>1, <1>2 DEF SInv, Streaming, Owes, Running
<1> QED
  BY <1>3, <1>4, <1>5 DEF SInv

(* A step that parses. *)
LEMMA ParsesSoundly ==
  ASSUME SInv, QInv', Uncalled, conn.wq = <<>>, Alive, frame' = frame,
         NEW k \in W!Conn, Counts(k),
         k.parser = conn.parser, k.asked = conn.asked,
         k.uv = conn.uv, k.shut = conn.shut,
         k.lastT = conn.lastT, k.chunked = conn.chunked,
         NEW e, Within(k, e), NEW ok \in BOOLEAN, Called(k, e, ok),
         conn' = Parsed(k, e, ok)
  PROVE  SInv'
<1> DEFINE n == k.asked + 1
           q == Parsed(k, e, ok)
           ran == Completes(k, e) /\ ok
           started == [create_asgi EXCEPT !.task = "ready"]
<1>1. QInv /\ conn.uv = "open" /\ W!Alive(k)
  BY DEF SInv, Alive, W!Alive
<1>2. k.parser \in {"idle", "mid"}
  BY <1>1 DEF QInv, Reads, W!Conn
<1>3. /\ n \in Messages
      /\ \A m \in Messages : m # n => Like(obj'[m], obj[m])
      /\ asgi' = n
      /\ ~ran => Like(obj'[n], create_asgi)
      /\ ran => Like(obj'[n], started)
  BY <1>1, <1>2, ParsedObjects
<1>4. /\ started.task = "ready" /\ ~started.told /\ ~started.latest
      /\ ~started.bodies /\ started.status = "unset" /\ started.start = "none"
      /\ create_asgi.task = "none"
  BY DEF create_asgi
<1>5. conn' = q
  OBVIOUS
<1>6. k.parser = "mid" => ~k.lastT /\ k.chunked = 0
  BY <1>1 DEF SInv, Untimed
<1> HIDE DEF n, started
<1>7. \A m \in Messages : Owes(m)' => m = n /\ ran
  <2>1. ASSUME NEW m \in Messages, m # n PROVE ~Owes(m)'
    <3>1. ~Owes(m)
      BY OwedLive
    <3> QED
      BY <1>3, <2>1, <3>1 DEF Owes, Running, Like
  <2>2. ~ran => ~Owes(n)'
    BY <1>3, <1>4 DEF Owes, Running, Like
  <2> QED
    BY <2>1, <2>2
<1>8. ~ran => obj'[n].task = "none"
  BY <1>3, <1>4 DEF Like
<1>9. CASE ~ran
  <2>1. Streaming'
    BY <1>3, <1>8, <1>9 DEF Streaming
  <2>2. CASE W!ParseFails(k, e)
    <3>1. Failed(q, k, e)
      BY <2>2, FailsIt
    <3> HIDE DEF q
    <3>2. q.parser = "error" /\ ~q.reading /\ q.state = "CS_DESTROY"
      BY <3>1 DEF Failed
    <3>3. Dying' /\ Untimed'
      BY <1>5, <1>7, <1>9, <3>2 DEF Dying, Untimed
    <3> QED
      BY <2>1, <3>3 DEF SInv
  <2>3. CASE ~W!ParseFails(k, e) /\ k.buf[e] \notin W!Stops
    <3>1. Held(q, k, e)
      BY <2>3, HoldsIt
    <3> HIDE DEF q
    <3>2. W!Alive(q) /\ ~q.lastT /\ q.chunked = 0
      BY <1>1, <1>2, <1>6, <3>1 DEF Held, Marks
    <3>3. Dying' /\ Untimed'
      BY <1>5, <1>7, <1>9, <3>2 DEF Dying, Untimed, Alive, W!Alive
    <3> QED
      BY <2>1, <3>3 DEF SInv
  <2>4. CASE \/ ~W!ParseFails(k, e) /\ k.buf[e] = "oversize"
             \/ Completes(k, e) /\ ~ok
    <3>1. Refused(q, k, e)
      BY <2>4, RefusesIt
    <3> HIDE DEF q
    <3>2. /\ q.parser = "idle" /\ ~q.reading
          /\ ~W!Alive(q) => q.state = "CS_DESTROY"
      BY <1>1, <3>1 DEF Refused
    <3>3. Dying' /\ Untimed'
      BY <1>5, <1>7, <1>9, <3>2 DEF Dying, Untimed, Alive, W!Alive
    <3> QED
      BY <2>1, <3>3 DEF SInv
  <2> QED
    BY <1>9, <2>2, <2>3, <2>4, Outcomes
<1>10. CASE ran
  <2>1. Completed(q, k, e)
    <3>1. ok = TRUE /\ Completes(k, e)
      BY <1>10
    <3> QED
      BY <3>1, RunsIt
  <2> HIDE DEF q
  <2>2. /\ W!Alive(q) /\ ~q.reqT /\ ~q.lastT /\ q.chunked = 0
        /\ q.parser = "idle"
    BY <1>1, <1>2, <1>6, <2>1 DEF Completed, Marks
  <2>3. Like(obj'[n], started)
    BY <1>3, <1>10
  <2>4. Dying' /\ Untimed'
    BY <1>3, <1>5, <1>7, <2>2 DEF Dying, Untimed, Alive, W!Alive
  <2>5. Streaming'
    BY <1>3, <1>4, <1>5, <2>2, <2>3 DEF Streaming, Like
  <2> QED
    BY <2>4, <2>5 DEF SInv
<1> QED
  BY <1>9, <1>10

(* A step of a coroutine on its object alone. *)
LEMMA ActsSoundly ==
  ASSUME SInv, QInv', NEW n \in Messages, Acts(n)
  PROVE  SInv'
<1>1. conn' = conn /\ asgi' = asgi /\ frame' = frame
  BY DEF Acts
<1>2. \A m \in Messages : Owes(m)' => Owes(m)
  BY DEF Acts, Owes, Running
<1>3. Dying'
  BY <1>1 DEF SInv, Dying, Alive
<1>4. Untimed'
  BY <1>1, <1>2 DEF SInv, Untimed, Alive
<1>5. Streaming'
  <2>1. ASSUME NEW m \in Messages, asgi = m,
               obj'[m].task # "none", ~obj'[m].told
        PROVE  /\ obj[m].task # "none" /\ ~obj[m].told
               /\ obj'[m].bodies = obj[m].bodies
               /\ obj'[m].latest = obj[m].latest
               /\ obj'[m].status = obj[m].status
               /\ obj'[m].start = obj[m].start
               /\ Running(m)' => Running(m)
               /\ obj'[m].task = "sending" => obj[m].task = "sending"
    BY <2>1 DEF Acts, Running
  <2> QED
    BY <1>1, <1>2, <2>1 DEF SInv, Streaming
<1> QED
  BY <1>3, <1>4, <1>5 DEF SInv

(* A call of send by a coroutine that has seen none fail. *)
LEMMA SendsSoundly ==
  ASSUME SInv, QInv', "empty" \notin habits, NEW n \in Messages, asgi_send(n)
  PROVE  SInv'
<1>0. QInv /\ TypeOK /\ obj[n] \in Asgi
  BY DEF SInv, QInv, TInv, TypeOK
<1>1. /\ Sends(n) /\ asgi = n /\ obj[n].task = "ready" /\ ~obj[n].told
      /\ asgi' = asgi
  BY <1>0, Sendings DEF MayCall
<1>2. /\ ~conn.reading /\ (conn.parser = "mid" => conn.uv = "closed")
      /\ conn.uv # "none"
  BY <1>0, <1>1, CallerAlone
<1>3. \A m \in Messages : m # n => ~Owes(m)
  BY <1>1, OwedLive
<1>4. Running(n) /\ (~obj[n].latest => Owes(n))
  BY <1>1 DEF Owes, Running
<1>5. /\ ~obj[n].bodies => ~obj[n].latest /\ conn.chunked = 0
      /\ obj[n].bodies => obj[n].status = "set"
      /\ ~obj[n].latest /\ obj[n].bodies =>
           conn.chunked = 1 /\ obj[n].start # "nobody"
      /\ obj[n].status = "set" /\ obj[n].start = "none" => obj[n].bodies
      /\ obj[n].status # "set" => obj[n].start = "none"
      /\ obj[n].status # "bad"
  BY <1>1, <1>4 DEF SInv, Streaming
<1>6. ~obj[n].latest => Alive /\ ~conn.reqT /\ ~conn.lastT
  BY <1>4 DEF SInv, Untimed
<1>7. obj[n].status \in {"unset", "bad", "set"}
  BY <1>0 DEF Asgi
<1>8. (\A m \in Messages : m # n => obj'[m] = obj[m]) =>
        \A m \in Messages : m # n => ~Owes(m)'
  BY <1>3 DEF Owes, Running
<1>9. CASE SendRefused(n)
  <2>1. /\ Aside(conn', conn) /\ conn'.uv = conn.uv
        /\ conn'.state = "CS_DESTROY" /\ ~conn'.reading
        /\ \A m \in Messages : m # n => obj'[m] = obj[m]
        /\ obj'[n].told
    BY <1>2, <1>9 DEF SendRefused
  <2>2. \A m \in Messages : ~Owes(m)'
    BY <1>8, <2>1 DEF Owes
  <2>3. Dying' /\ Untimed' /\ Streaming'
    BY <1>1, <1>2, <2>1, <2>2 DEF Dying, Untimed, Streaming, Aside
  <2> QED
    BY <2>3 DEF SInv
<1>10. CASE SendStarted(n)
  <2>1. /\ obj[n].status = "unset" /\ conn' = conn
        /\ \A m \in Messages : m # n => obj'[m] = obj[m]
    BY <1>10 DEF SendStarted
  <2>2. PICK kind \in {"body", "nobody", "unnamed"} :
          Like(obj'[n], [obj[n] EXCEPT !.status = "set", !.start = kind])
    BY <1>10 DEF SendStarted
  <2>3. /\ obj'[n].task = "ready" /\ obj'[n].status = "set"
        /\ obj'[n].start # "none" /\ ~obj'[n].bodies /\ ~obj'[n].latest
    BY <1>0, <1>1, <1>5, <2>1, <2>2 DEF Like, Asgi
  <2>4. Alive /\ ~conn.reqT /\ ~conn.lastT /\ conn.chunked = 0
    BY <1>5, <1>6, <2>1
  <2>5. Dying' /\ Untimed'
    BY <1>1, <1>2, <1>8, <2>1, <2>4 DEF Dying, Untimed, Alive
  <2>6. Streaming'
    BY <1>1, <2>1, <2>3, <2>4 DEF Streaming
  <2> QED
    BY <2>5, <2>6 DEF SInv
<1>11. CASE SendIgnored(n)
  <2>1. /\ obj[n].latest /\ conn' = conn /\ frame' = frame
        /\ \A m \in Messages : m # n => obj'[m] = obj[m]
        /\ Like(obj'[n], obj[n])
    BY <1>11 DEF SendIgnored
  <2>2. \A m \in Messages : ~Owes(m)'
    BY <1>8, <2>1 DEF Owes, Like
  <2>3. Dying' /\ Untimed'
    BY <1>1, <1>2, <2>1, <2>2 DEF SInv, Dying, Untimed, Alive
  <2>4. Streaming'
    BY <1>1, <1>5, <2>1, <2>2 DEF Streaming, Like
  <2> QED
    BY <2>3, <2>4 DEF SInv
<1>12. CASE SendSkipped(n)
  <2> DEFINE g == [obj[n] EXCEPT !.bodies = TRUE, !.latest = FALSE]
  <2>1. /\ obj[n].status # "unset" /\ ~obj[n].latest
        /\ Aside(conn', conn) /\ conn'.uv = conn.uv /\ conn'.shut = conn.shut
        /\ conn'.chunked = IF ~obj[n].bodies THEN 1 ELSE conn.chunked
        /\ \A m \in Messages : m # n => obj'[m] = obj[m]
        /\ Like(obj'[n], g)
        /\ Streams(n, 0, TRUE)
    BY <1>12 DEF SendSkipped
  <2>2. /\ obj'[n].task = "ready" /\ obj'[n].status = "set"
        /\ obj'[n].start = obj[n].start /\ obj'[n].bodies /\ ~obj'[n].latest
    BY <1>0, <1>1, <1>5, <1>7, <2>1 DEF Like, Asgi
  <2> HIDE DEF g
  <2>3. obj[n].start # "nobody"
    BY <2>1 DEF Streams
  <2>4. conn'.chunked = 1
    BY <1>0, <1>5, <2>1 DEF Asgi
  <2>5. Alive' /\ ~conn'.reqT /\ ~conn'.lastT
    BY <1>6, <2>1 DEF Aside, Alive, W!Alive
  <2>6. Dying' /\ Untimed'
    BY <1>1, <1>2, <1>8, <2>1, <2>5 DEF Dying, Untimed, Aside
  <2>7. Streaming'
    BY <1>1, <2>2, <2>3, <2>4 DEF Streaming
  <2> QED
    BY <2>6, <2>7 DEF SInv
<1>13. CASE SendWritten(n)
  <2>1. /\ obj[n].status # "unset" /\ ~obj[n].latest
        /\ Aside(conn', conn) /\ conn'.uv = conn.uv /\ conn'.shut = conn.shut
        /\ \A m \in Messages : m # n => obj'[m] = obj[m]
    BY <1>13 DEF SendWritten
  <2>2. PICK size \in 0 .. 1, more \in BOOLEAN :
          /\ Streams(n, size, more)
          /\ Like(obj'[n], [obj[n] EXCEPT !.bodies = TRUE, !.latest = ~more,
                                          !.start = "none",
                                          !.future = "pending",
                                          !.task = "sending"])
          /\ more /\ obj[n].start # "nobody" =>
               conn'.chunked = IF ~obj[n].bodies THEN 1 ELSE conn.chunked
          /\ ~more => \/ obj[n].start = "nobody" /\ frame' = "over"
                      \/ /\ obj[n].start # "nobody"
                         /\ \E k \in W!Conn :
                              /\ frame' = Framed(k, obj[n].start)
                              /\ k.chunked = IF conn.chunked = 0 THEN 0 ELSE 2
                              /\ size = 1 /\ k.chunked # 0 => k.pre # 0
    BY <1>13 DEF SendWritten
  <2>3. /\ obj'[n].task = "sending" /\ obj'[n].status = "set"
        /\ obj'[n].start = "none" /\ obj'[n].bodies
        /\ obj'[n].latest = ~more
    BY <1>0, <1>5, <1>7, <2>1, <2>2 DEF Like, Asgi
  <2>4. more => conn'.chunked = 1
    <3>1. more => obj[n].start # "nobody"
      BY <2>2 DEF Streams
    <3> QED
      BY <1>0, <1>5, <2>1, <2>2, <3>1 DEF Asgi
  <2>5. ~more => frame' = "over"
    <3>1. SUFFICES ASSUME ~more, obj[n].start # "nobody",
                          NEW k \in W!Conn, frame' = Framed(k, obj[n].start),
                          k.chunked = IF conn.chunked = 0 THEN 0 ELSE 2,
                          size = 1 /\ k.chunked # 0 => k.pre # 0
                   PROVE  frame' = "over"
      BY <2>2
    <3>2. CASE ~obj[n].bodies
      <4>1. k.chunked = 0 /\ obj[n].start # "none"
        BY <1>5, <1>7, <2>1, <3>1, <3>2
      <4> QED
        BY <3>1, <4>1 DEF Framed
    <3>3. CASE obj[n].bodies
      <4>1. k.chunked = 2
        BY <1>5, <2>1, <3>1, <3>3
      <4>2. obj[n].start = "body" => k.pre # 0
        <5>1. obj[n].start = "body" => size # 0
          BY <2>2, <3>1, <3>3 DEF Streams
        <5> QED
          BY <3>1, <4>1, <5>1
      <4> QED
        BY <3>1, <4>1, <4>2 DEF Framed
    <3> QED
      BY <1>0, <3>2, <3>3 DEF Asgi
  <2>6. Alive' /\ ~conn'.reqT /\ ~conn'.lastT
    BY <1>6, <2>1 DEF Aside, Alive, W!Alive
  <2>7. Dying' /\ Untimed'
    BY <1>1, <1>2, <1>8, <2>1, <2>6 DEF Dying, Untimed, Aside
  <2>8. Owes(n)' => more
    BY <2>3 DEF Owes
  <2>9. Streaming'
    BY <1>1, <2>3, <2>4, <2>5, <2>8 DEF Streaming
  <2> QED
    BY <2>7, <2>9 DEF SInv
<1> QED
  BY <1>1, <1>9, <1>10, <1>11, <1>12, <1>13 DEF Sends

(* asgi_done owes nothing. *)
LEMMA DoneSoundly ==
  ASSUME SInv, QInv', NEW n \in Messages, asgi_done(n)
  PROVE  SInv'
<1>0. /\ QInv /\ conn \in W!Conn /\ obj[n] \in Asgi /\ timer \in BOOLEAN
      /\ TypeOK
  BY DEF SInv, QInv, TInv, TypeOK
<1>1. /\ obj[n].task = "ended" /\ SetObj(n, Gone(obj[n])) /\ frame' = frame
  BY DEF asgi_done
<1>2. /\ obj'[n] = Gone(obj[n])
      /\ \A m \in Messages : m # n => obj'[m] = obj[m]
  BY <1>0, <1>1, Going, Setting
<1>3. obj'[n].task = "gone"
  BY <1>2 DEF Gone, create_asgi
<1>4. \A m \in Messages : Owes(m)' => m # n /\ Owes(m)
  BY <1>2, <1>3 DEF Owes, Running
<1>5. CASE asgi = n
  <2> DEFINE q == Done(conn, obj[n].raised).conn
             doomed == obj[n].raised \/ conn.state = "CS_DESTROY"
  <2>1. asgi' = 0 /\ conn' = q
    BY <1>5 DEF asgi_done
  <2>2. /\ Data(q, conn) /\ (W!Alive(conn) => W!Alive(q))
        /\ q.uv = conn.uv \/ (conn.uv = "open" /\ q.uv = "closing")
        /\ doomed => q.reading = conn.reading /\ q.state = "CS_DESTROY"
    <3>1. obj[n].raised \in BOOLEAN
      BY <1>0 DEF Asgi
    <3> QED
      BY <1>0, <3>1, Finishing
  <2>3. /\ ~conn.reading /\ (conn.parser = "mid" => conn.uv = "closed")
        /\ conn.uv # "none"
    BY <1>0, <1>1, <1>5, CallerAlone
  <2>4. ~W!Alive(q) => doomed
    BY <2>2, <2>3 DEF SInv, Dying, Alive
  <2> HIDE DEF q, doomed
  <2>5. \A m \in Messages : ~Owes(m)'
    BY <1>4, <1>5, OwedLive
  <2>6. Dying'
    BY <2>1, <2>2, <2>3, <2>4 DEF Dying, Alive
  <2>7. Untimed' /\ Streaming'
    BY <2>1, <2>2, <2>3, <2>5 DEF Untimed, Streaming, Data, Messages
  <2> QED
    BY <2>6, <2>7 DEF SInv
<1>6. CASE asgi # n
  <2>1. conn' = conn /\ asgi' = asgi
    BY <1>6 DEF asgi_done
  <2>2. Dying' /\ Untimed'
    BY <1>4, <2>1 DEF SInv, Dying, Untimed, Alive
  <2>3. Streaming'
    BY <1>1, <1>2, <1>6, <2>1 DEF SInv, Streaming, Owes, Running
  <2> QED
    BY <2>2, <2>3 DEF SInv
<1> QED
  BY <1>5, <1>6

(* write_cb of the response of a coroutine. *)
LEMMA WritesSoundly ==
  ASSUME SInv, QInv', ResponseWritten
  PROVE  SInv'
<1> DEFINE k == Reported
           o == obj[asgi]
           q == AsgiWritten(k, o)
           p == Resolved(o)
<1>0. QInv
  BY DEF SInv
<1>1. /\ conn.wq # <<>> /\ conn' = W!Drain(q)
      /\ Aside(k, conn) /\ k.wq = <<>> /\ k.chunked = conn.chunked
      /\ k.uv = conn.uv /\ k.shut = conn.shut /\ ~k.reading
      /\ asgi' = asgi /\ frame' = frame
      /\ obj'[asgi] = p
      /\ \A m \in Messages : m # asgi => obj'[m] = obj[m]
  BY <1>0, ResponseReported
<1>2. /\ asgi \in Messages /\ o.task \in {"none", "sending"} /\ ~o.told
      /\ conn.uv = "open" \/ conn.shut
      /\ conn.uv # "none" /\ (conn.parser = "mid" => conn.uv = "closed")
  BY <1>0, <1>1, WriteAlone
<1>3. /\ o \in Asgi /\ k \in W!Conn
      /\ o.task = "sending" <=> o.future = "pending"
  BY <1>0, <1>1, <1>2 DEF Aside, QInv, TInv, TypeOK, Awaits
<1>4. o.task = "sending" =>
        /\ o.bodies /\ o.status = "set"
        /\ ~o.latest => /\ conn.chunked = 1 /\ o.start # "nobody"
                        /\ Alive /\ ~conn.reqT /\ ~conn.lastT
  BY <1>2 DEF SInv, Streaming, Untimed, Owes, Running
<1> HIDE DEF k, o
<1>5. /\ Keeps(q, k) /\ q.wq = k.wq /\ q.shut = k.shut
      /\ q.parser = k.parser /\ q.reqT = k.reqT
      /\ ~k.reading => ~q.reading
      /\ q.uv = k.uv \/ (k.uv = "open" /\ q.uv = "closing")
      /\ ~W!Alive(q) => ~W!Alive(k) \/ q.state = "CS_DESTROY"
      /\ o.future = "pending" /\ ~o.latest =>
           /\ q.uv = k.uv /\ q.chunked = k.chunked
           /\ k.chunked = 1 => q.lastT = k.lastT
  BY <1>3, WrittenTyped
<1> HIDE DEF q
<1>6. q \in W!Conn
  BY <1>5 DEF Keeps
<1>7. /\ Data(conn', q) /\ ~conn'.reading
      /\ conn'.uv = q.uv \/ (q.uv = "open" /\ conn'.uv = "closing")
      /\ W!Alive(q) => conn' = q
      /\ q.shut /\ q.wq = <<>> => conn'.state = "CS_DESTROY"
      /\ conn'.state \in {q.state, "CS_DESTROY"}
  BY <1>1, <1>5, <1>6, Draining
<1>8. /\ p.told = o.told /\ p.status = o.status /\ p.start = o.start
      /\ p.bodies = o.bodies /\ p.latest = o.latest
      /\ o.task = "sending" => p.task = "ready"
      /\ o.task # "sending" => p.task = o.task
  BY <1>3, Resolving
<1> HIDE DEF p
<1>9. Dying'
  <2>1. SUFFICES ASSUME ~Alive' PROVE conn'.state = "CS_DESTROY"
    BY <1>7 DEF Dying
  <2>2. ~W!Alive(q)
    BY <1>7, <2>1 DEF Alive
  <2>3. CASE q.state = "CS_DESTROY"
    BY <1>7, <2>3
  <2>4. CASE ~W!Alive(k)
    BY <1>1, <1>2, <1>5, <1>7, <2>4 DEF W!Alive
  <2> QED
    BY <1>5, <2>2, <2>3, <2>4
<1>10. ASSUME NEW m \in Messages, Owes(m)'
       PROVE  /\ m = asgi /\ o.task = "sending" /\ ~o.latest
              /\ conn' = q /\ Alive' /\ ~conn'.reqT /\ ~conn'.lastT
              /\ conn'.chunked = 1
  <2>1. m = asgi
    <3>1. m # asgi => Owes(m)
      BY <1>1, <1>10 DEF Owes, Running
    <3> QED
      BY <3>1, OwedLive
  <2>2. o.task = "sending" /\ ~o.latest
    BY <1>1, <1>2, <1>8, <1>10, <2>1 DEF Owes, Running
  <2>3. /\ conn.chunked = 1 /\ Alive /\ ~conn.reqT /\ ~conn.lastT
    BY <1>4, <2>2
  <2>4. W!Alive(q) /\ ~q.reqT /\ ~q.lastT /\ q.chunked = 1
    BY <1>1, <1>3, <1>5, <2>2, <2>3 DEF Aside, Alive, W!Alive
  <2> QED
    BY <1>7, <2>1, <2>2, <2>4 DEF Alive
<1>11. Untimed'
  <2>1. conn'.parser = "mid" => conn'.uv = "closed"
    BY <1>1, <1>2, <1>5, <1>7 DEF Data, Aside
  <2> QED
    BY <1>1, <1>10, <2>1 DEF Untimed
<1>12. Streaming'
  <2>1. ASSUME NEW m \in Messages, asgi' = m, obj'[m].task # "none"
        PROVE  /\ m = asgi /\ obj'[m] = p /\ o.task = "sending"
               /\ p.task = "ready" /\ p.bodies /\ p.status = "set"
               /\ Owes(m)' => conn'.chunked = 1 /\ p.start # "nobody"
    <3>1. m = asgi /\ obj'[m] = p /\ o.task = "sending"
      BY <1>1, <1>2, <1>8, <2>1
    <3>2. Owes(m)' => conn'.chunked = 1 /\ ~o.latest
      BY <1>10
    <3> QED
      BY <1>4, <1>8, <3>1, <3>2
  <2> QED
    BY <2>1 DEF Streaming
<1> QED
  BY <1>9, <1>11, <1>12 DEF SInv

(* write_cb with an error: the coroutine is told. *)
LEMMA FailsSoundly ==
  ASSUME SInv, QInv', WriteFailed
  PROVE  SInv'
<1> DEFINE o == obj[asgi]
           p == [Resolved(o) EXCEPT !.told = o.told \/ o.future = "pending"]
<1>0. QInv
  BY DEF SInv
<1>1. /\ conn.wq # <<>> /\ conn'.parser = conn.parser /\ ~conn'.reading
      /\ conn'.uv = conn.uv \/ (conn.uv = "open" /\ conn'.uv = "closing")
      /\ conn'.state = "CS_DESTROY" /\ asgi' = asgi
      /\ obj'[asgi] = p
      /\ \A m \in Messages : m # asgi => obj'[m] = obj[m]
  BY <1>0, FailureReported
<1>2. /\ asgi \in Messages /\ o.task \in {"none", "sending"}
      /\ conn.parser = "mid" => conn.uv = "closed"
  BY <1>0, <1>1, WriteAlone
<1>3. o \in Asgi /\ TypeOK /\ (o.task = "sending" <=> o.future = "pending")
  BY <1>0, <1>2 DEF QInv, TInv, TypeOK, Awaits
<1>4. Resolved(o) \in Asgi
  BY <1>2, <1>3, AppTyped
<1>5. o.task = "sending" => p.told
  BY <1>3, <1>4 DEF Asgi
<1>6. o.task = "none" => p.task = "none"
  <2>1. p.task = Resolved(o).task
    BY <1>4 DEF Asgi
  <2> QED
    BY <1>3, <2>1, Resolving
<1> HIDE DEF o, p
<1>7. \A m \in Messages : ~Owes(m)'
  <2>1. ASSUME NEW m \in Messages, m # asgi PROVE ~Owes(m)'
    <3>1. ~Owes(m)
      BY <2>1, OwedLive
    <3> QED
      BY <1>1, <2>1, <3>1 DEF Owes, Running
  <2>2. ~Owes(asgi)'
    BY <1>1, <1>2, <1>5, <1>6 DEF Owes, Running
  <2> QED
    BY <1>1, <2>1, <2>2
<1>8. Dying' /\ Untimed' /\ Streaming'
  BY <1>1, <1>2, <1>5, <1>6, <1>7 DEF Dying, Untimed, Streaming
<1> QED
  BY <1>8 DEF SInv

(* Of an application that may break off, but streams no empty body, every  *)
(* step keeps what is owed sendable.                                       *)
LEMMA SoundKept ==
  ASSUME SInv, QInv', habits \subseteq {"stops"}, [Next]_vars
  PROVE  SInv'
<1>0. /\ QInv /\ conn \in W!Conn /\ TInv /\ "empty" \notin habits
  BY DEF SInv, QInv, TInv, TypeOK
<1>1. CASE UNCHANGED vars
  BY <1>1 DEF vars, SInv, Dying, Untimed, Streaming, Owes, Running, Alive
<1>2. CASE connection_cb
  <2>1. /\ asgi' = 0 /\ asgi = 0 /\ obj' = obj
        /\ conn'.parser = "idle" /\ ~conn'.shut
        /\ conn'.uv \in {"open", "closing"}
        /\ conn'.uv = "closing" => ~conn'.reading /\ conn'.state = "CS_DESTROY"
    BY <1>0, <1>2, Connecting
  <2>2. \A n \in Messages : ~Owes(n)'
    <3>1. \A n \in Messages : ~Owes(n)
      BY <2>1, OwedLive DEF Messages
    <3> QED
      BY <2>1, <3>1 DEF Owes, Running
  <2>3. Dying' /\ Untimed' /\ Streaming'
    BY <2>1, <2>2 DEF Dying, Untimed, Streaming, Alive, W!Alive, Messages
  <2> QED
    BY <2>3 DEF SInv
<1>3. CASE read_cb
  <2>1. conn.uv = "open" /\ conn.reading /\ frame' = frame
    BY <1>3 DEF read_cb
  <2>2. conn.wq = <<>> /\ Uncalled /\ Alive
    BY <1>0, <2>1, ReadAlone DEF SInv, Dying
  <2>3. PICK toks \in PeerData :
          LET k == W!alloc_cb(conn, toks)
          IN IF conn.rx = "RXS_FREEZED"
             THEN /\ conn' = W!TakeAction(conn, "CA_SHUTDOWN")
                  /\ UNCHANGED <<asgi, obj>>
             ELSE \E e \in 1 .. Len(toks), ok \in BOOLEAN :
                    /\ W!EndsAt(k, e)
                    /\ ok \/ Completes(k, e)
                    /\ conn' = Parsed(k, e, ok)
                    /\ Called(k, e, ok)
    BY <1>3 DEF read_cb
  <2>4. CASE conn.rx = "RXS_FREEZED"
    <3>1. /\ conn' = W!shutdown_connection(W!stream_read_stop(conn))
          /\ UNCHANGED <<asgi, obj>>
      BY <2>3, <2>4 DEF W!TakeAction
    <3>2. Ends(conn', conn) /\ ~conn'.reading
      BY <1>0, <3>1, StopEnds
    <3>3. \A n \in Messages : ~Owes(n)
      BY <2>1, OwedLive
    <3> QED
      BY <2>1, <3>1, <3>2, <3>3, EndsSoundly
  <2>5. CASE conn.rx # "RXS_FREEZED"
    <3> DEFINE k == W!alloc_cb(conn, toks)
    <3>1. PICK e \in 1 .. Len(toks), ok \in BOOLEAN :
            W!EndsAt(k, e) /\ conn' = Parsed(k, e, ok) /\ Called(k, e, ok)
      BY <2>3, <2>5
    <3>2. /\ k \in W!Conn /\ Counts(k)
          /\ k.parser = conn.parser /\ k.asked = conn.asked
          /\ k.uv = conn.uv /\ k.shut = conn.shut
          /\ k.lastT = conn.lastT /\ k.chunked = conn.chunked
      BY <1>0, Receiving
    <3> HIDE DEF k
    <3>3. Within(k, e)
      BY <3>1, EndsWithin
    <3> QED
      BY <2>1, <2>2, <3>1, <3>2, <3>3, ParsesSoundly
  <2> QED
    BY <2>4, <2>5
<1>4. CASE PeerCloses
  <2>1. /\ conn.reading
        /\ conn' = W!close_connection(W!stream_read_stop(conn))
        /\ UNCHANGED <<asgi, obj, frame>>
    BY <1>4 DEF PeerCloses, W!TakeAction
  <2>2. Ends(conn', conn) /\ ~conn'.reading
    BY <1>0, <2>1, StopEnds
  <2>3. \A n \in Messages : ~Owes(n)
    BY <2>1, OwedLive
  <2> QED
    BY <2>1, <2>2, <2>3, EndsSoundly
<1>5. CASE read_timer_cb
  <2>1. timer /\ conn.uv # "closed" /\ frame' = frame
    BY <1>5 DEF read_timer_cb
  <2>2. /\ conn.uv # "none"
        /\ asgi # 0 => conn.state = "CS_DESTROY"
    BY <1>0, <2>1 DEF QInv, Timed
  <2>3. \A n \in Messages : ~Owes(n)
    BY <2>1, OwedLive
  <2>4. CASE conn.state = "CS_DESTROY"
    <3>1. /\ conn' = W!shutdown_connection(W!stream_read_stop(conn))
          /\ UNCHANGED <<asgi, obj>>
      BY <1>5, <2>4 DEF read_timer_cb
    <3>2. Ends(conn', conn) /\ ~conn'.reading
      BY <1>0, <3>1, StopEnds
    <3> QED
      BY <2>1, <2>3, <3>1, <3>2, EndsSoundly
  <2>5. CASE conn.state # "CS_DESTROY" /\ conn.rx = "RXS_FREEZED"
    <3>1. asgi = 0 /\ Uncalled /\ conn.wq = <<>> /\ Alive
      BY <1>0, <2>2, <2>5 DEF Uncalled, QInv, Writes, SInv, Dying
    <3>2. PICK e \in 1 .. Len(conn.buf), ok \in BOOLEAN :
            /\ W!EndsAt(conn, e) /\ conn' = Parsed(conn, e, ok)
            /\ Called(conn, e, ok)
      BY <1>5, <2>5 DEF read_timer_cb, read_rxbuf_after_send
    <3>3. Within(conn, e) /\ Counts(conn)
      BY <1>0, <3>2, EndsWithin DEF TInv
    <3> QED
      BY <1>0, <2>1, <3>1, <3>2, <3>3, ParsesSoundly
  <2>6. CASE conn.state # "CS_DESTROY" /\ conn.rx # "RXS_FREEZED"
    <3>1. conn' = conn /\ asgi' = asgi /\ obj' = obj
      BY <1>5, <2>6 DEF read_timer_cb
    <3> QED
      BY <2>1, <3>1 DEF SInv, Dying, Untimed, Streaming, Owes, Running, Alive
  <2> QED
    BY <2>4, <2>5, <2>6
<1>6. ASSUME NEW n \in Messages,
             asgi_receive(n) \/ GiveUp(n) \/ AppEnds(n)
      PROVE  SInv'
  BY <1>0, <1>6, Acting, ActsSoundly
<1>7. ASSUME NEW n \in Messages, asgi_send(n) PROVE SInv'
  BY <1>0, <1>7, SendsSoundly
<1>8. ASSUME NEW n \in Messages, asgi_done(n) PROVE SInv'
  BY <1>8, DoneSoundly
<1>9. CASE ResponseWritten
  BY <1>9, WritesSoundly
<1>10. CASE WriteFailed
  BY <1>10, FailsSoundly
<1>11. CASE StatusWritten
  <2>1. conn.wq # <<>> /\ Head(conn.wq) = "status"
    BY <1>11 DEF StatusWritten
  <2> QED
    BY <1>0, <2>1, WriteAlone
<1>12. CASE shutdown_cb
  <2>1. /\ conn.uv = "open" /\ conn.shut
        /\ conn' = W!close_connection(conn)
        /\ UNCHANGED <<asgi, obj, frame>>
    BY <1>12 DEF shutdown_cb
  <2>2. Ends(conn', conn) /\ ~conn'.reading
    BY <1>0, <2>1, CloseEnds
  <2>3. \A n \in Messages : ~Owes(n)
    BY <2>1, OwedLive DEF Alive, W!Alive
  <2> QED
    BY <2>1, <2>2, <2>3, EndsSoundly
<1>13. CASE close_cb
  <2>1. /\ conn.uv = "closing" /\ conn'.uv = "closed" /\ ~conn'.reading
        /\ conn'.state = conn.state /\ asgi' = 0
        /\ \A m \in Messages : Like(obj'[m], obj[m])
    BY <1>0, <1>13, Closing
  <2>2. conn.state = "CS_DESTROY"
    BY <2>1 DEF SInv, Dying, Alive, W!Alive
  <2>3. \A n \in Messages : ~Owes(n)'
    <3>1. \A n \in Messages : ~Owes(n)
      BY <2>1, OwedLive DEF Alive, W!Alive
    <3> QED
      BY <2>1, <3>1 DEF Owes, Running, Like
  <2>4. Dying' /\ Untimed' /\ Streaming'
    BY <2>1, <2>2, <2>3 DEF Dying, Untimed, Streaming, Messages
  <2> QED
    BY <2>4 DEF SInv
<1>14. CASE client_aux_check
  <2>1. /\ W!Overdue(conn)
        /\ conn' = W!shutdown_connection(W!stream_read_stop(conn))
        /\ UNCHANGED <<asgi, obj, frame>>
    BY <1>14 DEF client_aux_check
  <2>2. Ends(conn', conn) /\ ~conn'.reading
    BY <1>0, <2>1, StopEnds
  <2>3. \A n \in Messages : ~Owes(n)
    BY <2>1, OwedLive
  <2> QED
    BY <2>1, <2>2, <2>3, EndsSoundly
<1> QED
  BY <1>1, <1>2, <1>3, <1>4, <1>5, <1>6, <1>7, <1>8, <1>9, <1>10, <1>11,
     <1>12, <1>13, <1>14 DEF Next

-----------------------------------------------------------------------------
(* The theorems.                                                           *)

(* The invariant holds in the beginning. *)
LEMMA Initial == Init => IInv
<1> SUFFICES ASSUME Init PROVE IInv
  OBVIOUS
<1>1. TInv /\ conn = W!Fresh /\ asgi = 0 /\ ~timer
  BY StartTyped DEF Init
<1>2. /\ conn.uv = "none" /\ ~conn.reading /\ conn.wq = <<>>
      /\ conn.parser = "idle" /\ NoExpect(conn)
  BY <1>1, Accepting
<1>3. \A n \in Messages :
        obj[n].task = "none" /\ obj[n].future = "none" /\ ~obj[n].told
          /\ Like(obj[n], create_asgi)
  <2>1. Like(Unborn, create_asgi) /\ Unborn.task = "none"
          /\ Unborn.future = "none" /\ ~Unborn.told
    BY DEF Unborn, create_asgi, Like
  <2> QED
    BY <2>1 DEF Init
<1>4. QInv
  BY <1>1, <1>2, <1>3 DEF QInv, Writes, Reads, Timed, Awaits, Begin
<1>5. \A n \in Messages : ~Owes(n)
  BY <1>3 DEF Owes, Running
<1>6. Dying /\ Untimed /\ Streaming
  BY <1>1, <1>2, <1>5 DEF Dying, Untimed, Streaming, Messages
<1> QED
  BY <1>1, <1>4, <1>6 DEF IInv, SInv

(* What an application and a peer may do does not change on the way. *)
LEMMA HabitsStay == [Next]_vars => habits' = habits
  BY DEF Next, vars, connection_cb, read_cb, PeerCloses, read_timer_cb,
     asgi_receive, asgi_send, GiveUp, AppEnds, asgi_done, ResponseWritten,
     WriteFailed, StatusWritten, shutdown_cb, close_cb, client_aux_check

(* Every step keeps the invariant. *)
LEMMA Inductive == IInv /\ [Next]_vars => IInv'
<1> SUFFICES ASSUME IInv, [Next]_vars PROVE IInv'
  OBVIOUS
<1>1. habits' = habits
  BY HabitsStay
<1>2. TInv'
  BY TypesKept DEF IInv
<1>3. "expect" \notin habits => QInv'
  BY <1>2, QuietKept DEF IInv
<1>4. habits \subseteq {"stops"} => SInv'
  BY <1>3, SoundKept DEF IInv
<1> QED
  BY <1>1, <1>2, <1>3, <1>4 DEF IInv

(* The invariant holds in every reachable state.                           *)
THEOREM Invariance == Spec => []IInv
<1> QED
  BY Initial, Inductive, PTL DEF Spec

(* client_t, asgi_t and the read timer keep the shape of their C           *)
(* declarations (server.h, asgi.h), whatever the peer and the application  *)
(* do, 100-continue included.                                              *)
THEOREM Typed == Spec => []TypeOK
<1>1. IInv => TypeOK
  BY DEF IInv, TInv
<1> QED
  BY <1>1, Invariance, PTL

(* Without 100-continue the one write_req of a client is not handed to     *)
(* uv_write while libuv owns it, although asgi_send has overwritten        *)
(* CS_RESP_SEND by the time stream_write checks it (asgi.c:710,            *)
(* server.c:360).                                                          *)
THEOREM OneWrite == Spec => []OneWriteInFlight
<1>1. IInv => OneWriteInFlight
  <2> SUFFICES ASSUME IInv, "expect" \notin habits,
                      NEW i \in InFlight, NEW j \in InFlight
               PROVE  i = j
    BY DEF OneWriteInFlight
  <2>1. conn.wq \in {<<>>, <<"resp">>}
    BY DEF IInv, QInv, Writes
  <2>2. i \in 1 .. 1 /\ j \in 1 .. 1
    BY <2>1 DEF InFlight
  <2> QED
    BY <2>2
<1> QED
  BY <1>1, Invariance, PTL

(* Without 100-continue a coroutine that awaits a send waits for a write   *)
(* that libuv will report and for the future that write_cb resolves        *)
(* (asgi.c:800-811, server.c:299-318).                                     *)
THEOREM Awaited == Spec => []AwaitedSendIsUnderWay
<1>1. IInv => AwaitedSendIsUnderWay
  <2> SUFFICES ASSUME IInv, "expect" \notin habits,
                      NEW n \in Messages, obj[n].task = "sending"
               PROVE  /\ asgi = n /\ obj[n].future = "pending"
                      /\ InFlight # {}
    BY DEF AwaitedSendIsUnderWay
  <2>1. asgi = n /\ obj[n].future = "pending" /\ conn.wq = <<"resp">>
    BY DEF IInv, QInv, Writes, Awaits
  <2>2. 1 \in InFlight
    BY <2>1 DEF InFlight
  <2> QED
    BY <2>1, <2>2
<1> QED
  BY <1>1, Invariance, PTL

(* receive and send follow the client_t without a check (asgi.c:625, 680): *)
(* for a coroutine that owes a part of its response, and has seen no send  *)
(* fail, it is there.                                                      *)
THEOREM Untold == Spec => []NeverOrphanedUntold
<1>1. IInv => NeverOrphanedUntold
  BY DEF IInv, SInv, Untimed, Owes, NeverOrphanedUntold
<1> QED
  BY <1>1, Invariance, PTL

(* A response that is counted as complete is that of a coroutine whose     *)
(* last chunk made it whole.                                               *)
LEMMA CompletesWhole ==
  ASSUME SInv, habits \subseteq {"stops"}, Next, conn'.done # conn.done
  PROVE  frame' = "over"
<1>0. /\ QInv /\ TInv /\ conn \in W!Conn /\ TypeOK /\ timer \in BOOLEAN
  BY DEF SInv, QInv, TInv, TypeOK
<1>1. CASE connection_cb
  BY <1>0, <1>1, Connecting
<1>2. CASE read_cb
  <2>1. PICK toks \in PeerData :
          LET k == W!alloc_cb(conn, toks)
          IN IF conn.rx = "RXS_FREEZED"
             THEN /\ conn' = W!TakeAction(conn, "CA_SHUTDOWN")
                  /\ UNCHANGED <<asgi, obj>>
             ELSE \E e \in 1 .. Len(toks), ok \in BOOLEAN :
                    /\ W!EndsAt(k, e)
                    /\ ok \/ Completes(k, e)
                    /\ conn' = Parsed(k, e, ok)
                    /\ Called(k, e, ok)
    BY <1>2 DEF read_cb
  <2>2. CASE conn.rx = "RXS_FREEZED"
    <3>1. conn' = W!shutdown_connection(W!stream_read_stop(conn))
      BY <2>1, <2>2 DEF W!TakeAction
    <3> QED
      BY <1>0, <3>1, StopEnds DEF Ends, Data
  <2>3. CASE conn.rx # "RXS_FREEZED"
    <3> DEFINE k == W!alloc_cb(conn, toks)
    <3>1. PICK e \in 1 .. Len(toks), ok \in BOOLEAN :
            W!EndsAt(k, e) /\ conn' = Parsed(k, e, ok)
      BY <2>1, <2>3
    <3>2. k \in W!Conn /\ k.done = conn.done
      BY <1>0, Receiving
    <3> HIDE DEF k
    <3>3. Leaves(conn', k, e)
      BY <3>1, <3>2, EndsWithin, ParsesAny
    <3> QED
      BY <3>2, <3>3 DEF Leaves
  <2> QED
    BY <2>2, <2>3
<1>3. CASE PeerCloses
  BY <1>0, <1>3, StopEnds DEF PeerCloses, W!TakeAction, Ends, Data
<1>4. CASE read_timer_cb
  <2>1. CASE conn.state = "CS_DESTROY"
    <3>1. conn' = W!shutdown_connection(W!stream_read_stop(conn))
      BY <1>4, <2>1 DEF read_timer_cb
    <3> QED
      BY <1>0, <3>1, StopEnds DEF Ends, Data
  <2>2. CASE conn.state # "CS_DESTROY" /\ conn.rx = "RXS_FREEZED"
    <3>1. PICK e \in 1 .. Len(conn.buf), ok \in BOOLEAN :
            W!EndsAt(conn, e) /\ conn' = Parsed(conn, e, ok)
      BY <1>4, <2>2 DEF read_timer_cb, read_rxbuf_after_send
    <3>2. Leaves(conn', conn, e)
      BY <1>0, <3>1, EndsWithin, ParsesAny
    <3> QED
      BY <3>2 DEF Leaves
  <2>3. CASE conn.state # "CS_DESTROY" /\ conn.rx # "RXS_FREEZED"
    BY <1>4, <2>3 DEF read_timer_cb
  <2> QED
    BY <2>1, <2>2, <2>3
<1>5. ASSUME NEW n \in Messages,
             asgi_receive(n) \/ GiveUp(n) \/ AppEnds(n)
      PROVE  frame' = "over"
  BY <1>0, <1>5, Acting DEF Acts
<1>6. ASSUME NEW n \in Messages, asgi_send(n) PROVE frame' = "over"
  <2>1. Sends(n)
    BY <1>0, <1>6, Sendings
  <2>2. Aside(conn', conn) \/ conn' = conn
    BY <2>1 DEF Sends, SendRefused, SendStarted, SendIgnored, SendSkipped,
       SendWritten
  <2> QED
    BY <2>2 DEF Aside
<1>7. ASSUME NEW n \in Messages, asgi_done(n) PROVE frame' = "over"
  <2>1. conn' = conn \/ conn' = Done(conn, obj[n].raised).conn
    BY <1>7 DEF asgi_done
  <2>2. obj[n].raised \in BOOLEAN
    BY <1>0 DEF TypeOK, Asgi
  <2>3. Data(Done(conn, obj[n].raised).conn, conn)
    BY <1>0, <2>2, Finishing
  <2> QED
    BY <2>1, <2>3 DEF Data
<1>8. CASE ResponseWritten
  <2> DEFINE k == Reported
             o == obj[asgi]
             q == AsgiWritten(k, o)
  <2>1. /\ conn.wq # <<>> /\ conn' = W!Drain(q) /\ Aside(k, conn)
        /\ frame' = frame
    BY <1>0, <1>8, ResponseReported
  <2>2. asgi \in Messages /\ ~o.told /\ o \in Asgi /\ k \in W!Conn
    BY <1>0, <2>1, WriteAlone DEF TypeOK, Aside
  <2>3. o.future = "pending" => o.task = "sending"
    BY <1>0, <2>2 DEF QInv, Awaits
  <2>4. o.task = "sending" /\ o.latest => frame = "over"
    BY <2>2 DEF SInv, Streaming
  <2> HIDE DEF k, o
  <2>5. Keeps(q, k) /\ (q.done # k.done => o.future = "pending" /\ o.latest)
    BY <2>2, WrittenTyped
  <2> HIDE DEF q
  <2>6. conn'.done = q.done /\ k.done = conn.done
    BY <2>1, <2>5, Draining DEF Keeps, Data, Aside
  <2> QED
    BY <2>1, <2>3, <2>4, <2>5, <2>6
<1>9. CASE WriteFailed
  BY <1>0, <1>9, FailureReported
<1>10. CASE StatusWritten
  <2>1. conn.wq # <<>> /\ Head(conn.wq) = "status"
    BY <1>10 DEF StatusWritten
  <2> QED
    BY <1>0, <2>1, WriteAlone
<1>11. CASE shutdown_cb
  BY <1>0, <1>11, CloseEnds DEF shutdown_cb, Ends, Data
<1>12. CASE close_cb
  BY <1>0, <1>12, Closing
<1>13. CASE client_aux_check
  BY <1>0, <1>13, StopEnds DEF client_aux_check, Ends, Data
<1> QED
  BY <1>1, <1>2, <1>3, <1>4, <1>5, <1>6, <1>7, <1>8, <1>9, <1>10, <1>11,
     <1>12, <1>13 DEF Next

(* Of an application that streams no empty body, what was written when a   *)
(* response counts as complete is one whole HTTP message, whether it was   *)
(* streamed or not and whatever its status allows (asgi.c:745-799,         *)
(* request.c:1043).                                                        *)
THEOREM FramesWhole == Spec => FramedWhole
<1>1. IInv /\ [Next]_vars =>
        [habits \subseteq {"stops"} =>
           (conn'.done # conn.done => frame' = "over")]_vars
  BY CompletesWhole DEF IInv
<1> QED
  BY <1>1, Invariance, PTL DEF Spec, FramedWhole

-----------------------------------------------------------------------------
(***************************************************************************)
(* TLAPS proofs about AsgiConnection without 100-continue: a connection    *)
(* that lives is never left to itself, and with a plain application every  *)
(* step is a step of HttpExchange, for any amount of request data and any  *)
(* number of sends.                                                        *)
(*                                                                         *)
(* The invariant of AsgiConnectionProofs says who may write and who is     *)
(* waited for.  NInv adds who is to act next: the read timer, a coroutine  *)
(* or the socket.                                                          *)
(***************************************************************************)

-----------------------------------------------------------------------------
(* Who is to act next.                                                     *)

(* A live connection that is to end, and the read timer.                   *)
Doomed == Alive /\ conn.state = "CS_DESTROY" => timer
Handed ==
  timer /\ Alive => conn.state = "CS_DESTROY" \/ conn.rx = "RXS_FREEZED"

(* A coroutine that was told has lost its connection.                      *)
Told == asgi # 0 /\ obj[asgi].told => conn.state = "CS_DESTROY"

Buried == conn.uv = "closed" => conn.wq = <<>> /\ asgi = 0

(* After the last chunk the time of the response is set, and the state is  *)
(* not that of a write.                                                    *)
Latest ==
  /\ asgi # 0 /\ obj[asgi].latest /\ ~obj[asgi].told
  /\ obj[asgi].task \in {"ready", "waiting", "ended"}
  => conn.lastT /\ (Alive => conn.state # "CS_RESP_SEND")

(* Who does not break off returns after the last chunk or a failed send.   *)
Ended ==
  "stops" \notin habits =>
    \A n \in Messages : obj[n].task = "ended" =>
      obj[n].raised \/ obj[n].latest \/ obj[n].told

(* The time of a request runs from its first byte to its last.             *)
Mid == conn.parser = "mid" /\ conn.uv # "closed" => conn.reqT

Listens ==
  "stops" \notin habits =>
    /\ Alive /\ conn.wq = <<>> /\ ~timer /\ Uncalled => conn.reading
    /\ Alive /\ conn.reading => conn.reqT \/ conn.lastT

NInv ==
  Doomed /\ Handed /\ Told /\ Buried /\ Latest /\ Ended /\ Mid /\ Listens

KInv == IInv /\ ("expect" \notin habits => NInv)

-----------------------------------------------------------------------------
(* The steps, by what they do.                                             *)

(* The connection ends, and nothing else changes. *)
EndsStep ==
  /\ conn.uv \notin {"none", "closed"}
  /\ Ends(conn', conn) /\ ~conn'.reading
  /\ UNCHANGED <<asgi, obj>> /\ timer' \in {timer, FALSE}

(* Request data is parsed while no coroutine runs and nothing is written.  *)
ParsesFrom(k, e, ok) ==
  /\ Counts(k) /\ NoExpect(k) /\ k.parser = conn.parser
  /\ k.asked = conn.asked /\ k.wq = conn.wq /\ k.uv = conn.uv
  /\ k.shut = conn.shut /\ k.reqT = conn.reqT /\ k.done = conn.done
  /\ k.calls = conn.calls /\ (k.reading \/ k.rx = "RXS_FREEZED")
  /\ Within(k, e) /\ Called(k, e, ok) /\ conn' = Parsed(k, e, ok)

ParseStep ==
  /\ Uncalled /\ conn.wq = <<>> /\ conn.uv \notin {"none", "closed"}
  /\ timer' = FALSE
  /\ (conn.reading /\ ~timer) \/ conn.state # "CS_DESTROY"
  /\ \E k \in W!Conn : \E e : \E ok \in BOOLEAN : ParsesFrom(k, e, ok)

(* The read timer finds neither work nor an end to bring about. *)
WaitStep ==
  /\ timer /\ timer' = FALSE /\ UNCHANGED <<conn, asgi, obj>>
  /\ conn.state # "CS_DESTROY" /\ conn.rx # "RXS_FREEZED"

Steps ==
  \/ connection_cb \/ EndsStep \/ ParseStep \/ WaitStep
  \/ \E n \in Messages : Acts(n) \/ asgi_send(n) \/ asgi_done(n)
  \/ ResponseWritten \/ WriteFailed \/ close_cb

(* A read, or the read timer with a frozen buffer. *)
LEMMA ReadSteps ==
  ASSUME QInv, "expect" \notin habits, read_cb \/ read_timer_cb
  PROVE  EndsStep \/ ParseStep \/ WaitStep
<1>0. conn \in W!Conn /\ TInv /\ NoExpect(conn) /\ timer \in BOOLEAN
  BY DEF QInv, TInv, TypeOK, Reads
<1>1. CASE read_cb
  <2>1. conn.uv = "open" /\ conn.reading /\ UNCHANGED timer
    BY <1>1 DEF read_cb
  <2>2. conn.wq = <<>> /\ Uncalled /\ timer = FALSE /\ timer' = FALSE
    BY <2>1, ReadAlone
  <2>3. PICK toks \in PeerData :
          LET k == W!alloc_cb(conn, toks)
          IN IF conn.rx = "RXS_FREEZED"
             THEN /\ conn' = W!TakeAction(conn, "CA_SHUTDOWN")
                  /\ UNCHANGED <<asgi, obj>>
             ELSE \E e \in 1 .. Len(toks), ok \in BOOLEAN :
                    /\ W!EndsAt(k, e)
                    /\ ok \/ Completes(k, e)
                    /\ conn' = Parsed(k, e, ok)
                    /\ Called(k, e, ok)
    BY <1>1 DEF read_cb
  <2>4. CASE conn.rx = "RXS_FREEZED"
    <3>1. /\ conn' = W!shutdown_connection(W!stream_read_stop(conn))
          /\ UNCHANGED <<asgi, obj>>
      BY <2>3, <2>4 DEF W!TakeAction
    <3>2. Ends(conn', conn) /\ ~conn'.reading
      BY <1>0, <3>1, StopEnds
    <3> QED
      BY <2>1, <2>2, <3>1, <3>2 DEF EndsStep
  <2>5. CASE conn.rx # "RXS_FREEZED"
    <3> DEFINE k == W!alloc_cb(conn, toks)
    <3>1. PICK e \in 1 .. Len(toks), ok \in BOOLEAN :
            W!EndsAt(k, e) /\ conn' = Parsed(k, e, ok) /\ Called(k, e, ok)
      BY <2>3, <2>5
    <3>2. /\ k \in W!Conn /\ Counts(k) /\ NoExpect(k)
          /\ k.parser = conn.parser /\ k.asked = conn.asked
          /\ k.wq = conn.wq /\ k.uv = conn.uv /\ k.shut = conn.shut
          /\ k.reqT = conn.reqT /\ k.done = conn.done
          /\ k.calls = conn.calls /\ k.reading = conn.reading
      BY <1>0, Receiving
    <3> HIDE DEF k
    <3>3. Within(k, e)
      BY <3>1, EndsWithin
    <3>4. ParsesFrom(k, e, ok)
      BY <2>1, <3>1, <3>2, <3>3 DEF ParsesFrom
    <3>5. conn.uv \notin {"none", "closed"} /\ conn.reading /\ ~timer
      BY <2>1, <2>2
    <3> QED
      BY <2>2, <3>2, <3>4, <3>5 DEF ParseStep
  <2> QED
    BY <2>4, <2>5
<1>2. CASE read_timer_cb
  <2>1. timer /\ conn.uv # "closed" /\ timer' = FALSE
    BY <1>2 DEF read_timer_cb
  <2>2. /\ conn.uv # "none"
        /\ asgi # 0 => conn.state = "CS_DESTROY"
    BY <2>1 DEF QInv, Timed
  <2>3. CASE conn.state = "CS_DESTROY"
    <3>1. /\ conn' = W!shutdown_connection(W!stream_read_stop(conn))
          /\ UNCHANGED <<asgi, obj>>
      BY <1>2, <2>3 DEF read_timer_cb
    <3>2. Ends(conn', conn) /\ ~conn'.reading
      BY <1>0, <3>1, StopEnds
    <3> QED
      BY <2>1, <2>2, <3>1, <3>2 DEF EndsStep
  <2>4. CASE conn.state # "CS_DESTROY" /\ conn.rx = "RXS_FREEZED"
    <3>1. Uncalled /\ conn.wq = <<>>
      BY <2>2, <2>4 DEF Uncalled, QInv, Writes
    <3>2. PICK e \in 1 .. Len(conn.buf), ok \in BOOLEAN :
            /\ W!EndsAt(conn, e) /\ conn' = Parsed(conn, e, ok)
            /\ Called(conn, e, ok)
      BY <1>2, <2>4 DEF read_timer_cb, read_rxbuf_after_send
    <3>3. Within(conn, e) /\ Counts(conn)
      BY <1>0, <3>2, EndsWithin DEF TInv
    <3>4. ParsesFrom(conn, e, ok)
      BY <1>0, <2>4, <3>2, <3>3 DEF ParsesFrom
    <3>5. conn.uv \notin {"none", "closed"}
      BY <2>1, <2>2
    <3> QED
      BY <1>0, <2>1, <2>4, <3>1, <3>4, <3>5 DEF ParseStep
  <2>5. CASE conn.state # "CS_DESTROY" /\ conn.rx # "RXS_FREEZED"
    <3>1. UNCHANGED <<conn, asgi, obj>>
      BY <1>2, <2>5 DEF read_timer_cb
    <3> QED
      BY <2>1, <2>5, <3>1 DEF WaitStep
  <2> QED
    BY <2>3, <2>4, <2>5
<1> QED
  BY <1>1, <1>2

(* Every step is one of those. *)
LEMMA Stepping ==
  ASSUME QInv, "expect" \notin habits, Next
  PROVE  Steps
<1>0. conn \in W!Conn
  BY DEF QInv, TInv, TypeOK
<1>1. CASE connection_cb \/ ResponseWritten \/ WriteFailed \/ close_cb
  BY <1>1 DEF Steps
<1>2. CASE read_cb \/ read_timer_cb
  BY <1>2, ReadSteps DEF Steps
<1>3. CASE PeerCloses
  <2>1. /\ conn.uv = "open"
        /\ conn' = W!close_connection(W!stream_read_stop(conn))
        /\ UNCHANGED <<asgi, timer, obj>>
    BY <1>3 DEF PeerCloses, W!TakeAction
  <2>2. Ends(conn', conn) /\ ~conn'.reading
    BY <1>0, <2>1, StopEnds
  <2>3. EndsStep
    BY <2>1, <2>2 DEF EndsStep
  <2> QED
    BY <2>3 DEF Steps
<1>4. ASSUME NEW n \in Messages,
             \/ asgi_receive(n) \/ asgi_send(n) \/ GiveUp(n) \/ AppEnds(n)
             \/ asgi_done(n)
      PROVE  Steps
  <2>1. CASE asgi_send(n) \/ asgi_done(n)
    BY <2>1 DEF Steps
  <2>2. CASE asgi_receive(n) \/ GiveUp(n) \/ AppEnds(n)
    BY <2>2, Acting DEF Steps
  <2> QED
    BY <1>4, <2>1, <2>2
<1>5. CASE StatusWritten
  <2>1. conn.wq # <<>> /\ Head(conn.wq) = "status"
    BY <1>5 DEF StatusWritten
  <2> QED
    BY <2>1, WriteAlone
<1>6. CASE shutdown_cb
  <2>1. /\ conn.uv = "open"
        /\ conn' = W!close_connection(conn)
        /\ UNCHANGED <<asgi, timer, obj>>
    BY <1>6 DEF shutdown_cb
  <2>2. Ends(conn', conn) /\ ~conn'.reading
    BY <1>0, <2>1, CloseEnds
  <2>3. EndsStep
    BY <2>1, <2>2 DEF EndsStep
  <2> QED
    BY <2>3 DEF Steps
<1>7. CASE client_aux_check
  <2>1. /\ conn.uv = "open"
        /\ conn' = W!shutdown_connection(W!stream_read_stop(conn))
        /\ UNCHANGED <<asgi, timer, obj>>
    BY <1>7 DEF client_aux_check
  <2>2. Ends(conn', conn) /\ ~conn'.reading
    BY <1>0, <2>1, StopEnds
  <2>3. EndsStep
    BY <2>1, <2>2 DEF EndsStep
  <2> QED
    BY <2>3 DEF Steps
<1> QED
  BY <1>1, <1>2, <1>3, <1>4, <1>5, <1>6, <1>7 DEF Next

(* What a parse leaves: a message that waits for the rest, an error answer *)
(* or the end of the connection, or a coroutine that starts.               *)
Waits ==
  /\ conn.parser # "error" /\ conn'.parser = "mid" /\ conn'.wq = <<>>
  /\ conn'.calls = conn.calls
  /\ conn.parser = "idle" \/ conn.reqT => conn'.reqT
  /\ conn.uv = "open" => conn'.reading
  /\ W!Alive(conn') => conn'.state # "CS_DESTROY"
  /\ W!Alive(conn) => W!Alive(conn')
  /\ Uncalled'

Answers ==
  /\ conn'.parser # "mid" /\ ~conn'.reading
  /\ W!Alive(conn) => conn'.wq # <<>>
  /\ W!Alive(conn') => W!Alive(conn) /\ conn'.state = "CS_RESP_SEND"
  /\ W!Alive(conn) /\ ~W!Alive(conn') => conn'.state = "CS_DESTROY"
  /\ Uncalled'

Runs ==
  /\ conn'.parser # "mid" /\ ~conn'.reading /\ conn'.wq = <<>>
  /\ conn'.calls = conn.calls + 1 /\ conn'.state = "CS_RESP_BILD"
  /\ W!Alive(conn) => W!Alive(conn')
  /\ asgi' \in Messages /\ obj'[asgi'].task = "ready" /\ ~obj'[asgi'].latest

ParseLeaves ==
  /\ conn'.uv = conn.uv \/ (conn.uv = "open" /\ conn'.uv = "closing")
  /\ conn'.done = conn.done /\ conn'.calls \in {conn.calls, conn.calls + 1}
  /\ asgi' # 0 => ~obj'[asgi'].told
  /\ \A m \in Messages :
       obj'[m].task = "ended" => m # asgi' /\ Like(obj'[m], obj[m])
  /\ Waits \/ Answers \/ Runs

(* An object that was not called, or was just called. *)
LEMMA Newborn ==
  /\ create_asgi.task = "none" /\ ~create_asgi.told /\ ~create_asgi.latest
  /\ LET o == [create_asgi EXCEPT !.task = "ready"]
     IN o.task = "ready" /\ ~o.told /\ ~o.latest
  BY DEF create_asgi

LEMMA ParsesTo == ASSUME QInv, ParseStep PROVE ParseLeaves
<1>1. /\ Uncalled /\ conn.wq = <<>> /\ conn.uv \notin {"none", "closed"}
      /\ timer' = FALSE
  BY DEF ParseStep
<1>2. PICK k \in W!Conn : \E e : \E ok \in BOOLEAN : ParsesFrom(k, e, ok)
  BY DEF ParseStep
<1>a. PICK e : \E ok \in BOOLEAN : ParsesFrom(k, e, ok)
  BY <1>2
<1>3. PICK ok \in BOOLEAN : ParsesFrom(k, e, ok)
  BY <1>a
<1> DEFINE n == k.asked + 1
           q == Parsed(k, e, ok)
           started == [create_asgi EXCEPT !.task = "ready"]
<1>4. /\ Counts(k) /\ NoExpect(k) /\ k.parser = conn.parser
      /\ k.asked = conn.asked /\ k.wq = <<>> /\ k.uv = conn.uv
      /\ k.shut = conn.shut /\ k.reqT = conn.reqT /\ k.done = conn.done
      /\ k.calls = conn.calls /\ (k.reading \/ k.rx = "RXS_FREEZED")
      /\ Within(k, e) /\ Called(k, e, ok) /\ conn' = q
  BY <1>1, <1>3 DEF ParsesFrom
<1>5. /\ n \in Messages
      /\ \A m \in Messages : m # n => Like(obj'[m], obj[m])
      /\ k.parser = "error" => asgi' = asgi /\ obj' = obj
      /\ k.parser # "error" =>
           /\ asgi' = n
           /\ ~(Completes(k, e) /\ ok) => Like(obj'[n], create_asgi)
           /\ Completes(k, e) /\ ok => Like(obj'[n], started)
  BY <1>1, <1>4, ParsedObjects
<1>6. /\ create_asgi.task = "none" /\ ~create_asgi.told
      /\ ~create_asgi.latest
      /\ started.task = "ready" /\ ~started.told /\ ~started.latest
  BY Newborn
<1>7. W!Alive(k) <=> W!Alive(conn)
  BY <1>4 DEF W!Alive
<1>8. asgi \in Messages \cup {0} /\ 0 \notin Messages
  BY DEF QInv, TInv, TypeOK, Messages
<1> HIDE DEF n, q, started
<1>9. Leaves(q, k, e)
  BY <1>4, ParsesAny DEF q
<1>10. /\ conn'.uv = conn.uv \/ (conn.uv = "open" /\ conn'.uv = "closing")
       /\ conn'.done = conn.done
       /\ conn'.calls \in {conn.calls, conn.calls + 1}
  BY <1>4, <1>9 DEF Leaves
<1>11. ASSUME ~(Completes(k, e) /\ ok)
       PROVE  /\ Uncalled' /\ (asgi' # 0 => ~obj'[asgi'].told)
              /\ \A m \in Messages :
                   obj'[m].task = "ended" => m # asgi' /\ Like(obj'[m], obj[m])
  <2>1. CASE k.parser = "error"
    <3>1. asgi' = asgi /\ obj' = obj
      BY <1>5, <2>1
    <3>2. asgi # 0 => obj[asgi].task = "none" /\ Like(obj[asgi], create_asgi)
      BY <1>1, <1>8 DEF Uncalled, QInv, Awaits
    <3>3. asgi # 0 => ~obj[asgi].told
      BY <1>6, <3>2 DEF Like
    <3> QED
      BY <1>8, <3>1, <3>2, <3>3 DEF Uncalled, Like
  <2>2. CASE k.parser # "error"
    <3>1. asgi' = n /\ Like(obj'[n], create_asgi)
      BY <1>5, <1>11, <2>2
    <3>2. obj'[n].task = "none" /\ ~obj'[n].told
      BY <1>6, <3>1 DEF Like
    <3> QED
      BY <1>5, <3>1, <3>2 DEF Uncalled
  <2> QED
    BY <2>1, <2>2
<1>12. CASE W!ParseFails(k, e)
  <2>1. Failed(q, k, e)
    BY <1>4, <1>12, FailsIt DEF q
  <2>2. ~Completes(k, e)
    BY <1>12 DEF Completes
  <2>3. /\ conn'.parser = "error" /\ ~conn'.reading /\ ~W!Alive(conn')
        /\ conn'.state = "CS_DESTROY"
        /\ W!Alive(conn) => conn'.wq = Append(<<>>, "resp")
    BY <1>4, <1>7, <2>1 DEF Failed
  <2>4. Append(<<>>, "resp") # <<>>
    OBVIOUS
  <2>5. Answers
    BY <1>11, <2>2, <2>3, <2>4 DEF Answers
  <2> QED
    BY <1>10, <1>11, <2>2, <2>5 DEF ParseLeaves
<1>13. CASE ~W!ParseFails(k, e) /\ k.buf[e] \notin W!Stops
  <2>1. Held(q, k, e)
    BY <1>4, <1>13, HoldsIt DEF q
  <2>2. ~Completes(k, e) /\ conn.parser # "error"
    BY <1>4, <1>13 DEF Completes, W!Stops, W!ParseFails
  <2>3. /\ conn'.parser = "mid" /\ conn'.wq = <<>>
        /\ conn'.calls = conn.calls
        /\ conn.parser = "idle" \/ conn.reqT => conn'.reqT
        /\ conn.uv = "open" => conn'.reading
        /\ W!Alive(conn') => conn'.state # "CS_DESTROY"
        /\ W!Alive(conn) => W!Alive(conn')
    BY <1>4, <1>7, <2>1 DEF Held
  <2>4. Waits
    BY <1>11, <2>2, <2>3 DEF Waits
  <2> QED
    BY <1>10, <1>11, <2>2, <2>4 DEF ParseLeaves
<1>14. CASE \/ ~W!ParseFails(k, e) /\ k.buf[e] = "oversize"
            \/ Completes(k, e) /\ ~ok
  <2>1. Refused(q, k, e)
    BY <1>4, <1>14, RefusesIt DEF q
  <2>2. ~(Completes(k, e) /\ ok)
    BY <1>14 DEF Completes
  <2>3. /\ conn'.parser = "idle" /\ ~conn'.reading
        /\ W!Alive(conn) => conn'.wq = Append(<<>>, "resp")
        /\ W!Alive(conn') => W!Alive(conn) /\ conn'.state = "CS_RESP_SEND"
        /\ W!Alive(conn) /\ ~W!Alive(conn') => conn'.state = "CS_DESTROY"
    BY <1>4, <1>7, <2>1 DEF Refused
  <2>4. Append(<<>>, "resp") # <<>>
    OBVIOUS
  <2>5. Answers
    BY <1>11, <2>2, <2>3, <2>4 DEF Answers
  <2> QED
    BY <1>10, <1>11, <2>2, <2>5 DEF ParseLeaves
<1>15. CASE Completes(k, e) /\ ok
  <2>1. /\ Completed(q, k, e) /\ ~q.reading
        /\ q.state = "CS_RESP_BILD" /\ q.calls = k.calls + 1
    <3>1. q = Parsed(k, e, TRUE)
      BY <1>15 DEF q
    <3> QED
      BY <1>4, <1>15, <3>1, RunsIt
  <2>2. k.parser # "error"
    BY <1>15 DEF Completes, W!ParseFails
  <2>3. asgi' = n /\ Like(obj'[n], started)
    BY <1>5, <1>15, <2>2
  <2>4. obj'[n].task = "ready" /\ ~obj'[n].told /\ ~obj'[n].latest
    BY <1>6, <2>3 DEF Like
  <2>5. /\ conn'.parser = "idle" /\ ~conn'.reading /\ conn'.wq = <<>>
        /\ conn'.calls = conn.calls + 1 /\ conn'.state = "CS_RESP_BILD"
        /\ W!Alive(conn) => W!Alive(conn')
    BY <1>4, <1>7, <2>1 DEF Completed
  <2>6. Runs
    BY <1>5, <2>3, <2>4, <2>5 DEF Runs
  <2>7. /\ asgi' # 0 => ~obj'[asgi'].told
        /\ \A m \in Messages :
             obj'[m].task = "ended" => m # asgi' /\ Like(obj'[m], obj[m])
    BY <1>5, <2>3, <2>4
  <2> QED
    BY <1>10, <2>6, <2>7 DEF ParseLeaves
<1> QED
  BY <1>4, <1>12, <1>13, <1>14, <1>15, Outcomes

-----------------------------------------------------------------------------
(* NInv is kept by every step.                                             *)

(* A step that ends the connection. *)
LEMMA EndsListening ==
  ASSUME QInv, NInv, EndsStep, habits' = habits PROVE NInv'
<1>1. /\ conn'.wq = conn.wq /\ conn'.parser = conn.parser
      /\ conn'.reqT = conn.reqT /\ conn'.lastT = conn.lastT
      /\ conn'.state = "CS_DESTROY" /\ ~W!Alive(conn')
      /\ conn'.uv # "closed" /\ conn.uv # "closed"
      /\ asgi' = asgi /\ obj' = obj
  BY DEF EndsStep, Ends, Data
<1>2. ~Alive'
  BY <1>1 DEF Alive
<1>3. Doomed' /\ Handed' /\ Listens'
  BY <1>2 DEF Doomed, Handed, Listens
<1>4. Told' /\ Buried'
  BY <1>1 DEF Told, Buried
<1>5. Latest' /\ Ended' /\ Mid'
  BY <1>1, <1>2 DEF NInv, Latest, Ended, Mid
<1> QED
  BY <1>3, <1>4, <1>5 DEF NInv

(* A step that parses. *)
LEMMA ParsesListening ==
  ASSUME QInv, NInv, ParseStep, habits' = habits PROVE NInv'
<1>1. /\ Uncalled /\ conn.wq = <<>> /\ conn.uv \notin {"none", "closed"}
      /\ timer' = FALSE
  BY DEF ParseStep
<1>2. /\ conn'.uv = conn.uv \/ (conn.uv = "open" /\ conn'.uv = "closing")
      /\ asgi' # 0 => ~obj'[asgi'].told
      /\ \A m \in Messages :
           obj'[m].task = "ended" => m # asgi' /\ Like(obj'[m], obj[m])
      /\ Waits \/ Answers \/ Runs
  BY ParsesTo DEF ParseLeaves
<1>3. conn'.uv # "closed"
  BY <1>1, <1>2
<1>4. Told' /\ Buried' /\ Handed'
  BY <1>1, <1>2, <1>3 DEF Told, Buried, Handed
<1>5. Ended'
  BY <1>2 DEF NInv, Ended, Like
<1>6. conn.parser \in {"idle", "mid", "error"} /\ 0 \notin Messages
  BY DEF QInv, TInv, TypeOK, W!Conn, Messages
<1>7. CASE Waits
  <2>1. conn'.reqT
    BY <1>1, <1>6, <1>7 DEF Waits, NInv, Mid
  <2>2. Alive' => conn'.reading /\ conn'.state # "CS_DESTROY"
    BY <1>2, <1>7 DEF Waits, Alive, W!Alive
  <2>3. Latest'
    BY <1>7 DEF Waits, Latest, Uncalled
  <2>4. Doomed' /\ Mid' /\ Listens'
    BY <2>1, <2>2 DEF Doomed, Mid, Listens
  <2> QED
    BY <1>4, <1>5, <2>3, <2>4 DEF NInv
<1>8. CASE Answers
  <2>1. /\ Alive' => conn'.wq # <<>> /\ conn'.state = "CS_RESP_SEND"
        /\ ~conn'.reading /\ conn'.parser # "mid"
    BY <1>8 DEF Answers, Alive
  <2>2. Latest'
    BY <1>8 DEF Answers, Latest, Uncalled
  <2>3. Doomed' /\ Mid' /\ Listens'
    BY <2>1 DEF Doomed, Mid, Listens
  <2> QED
    BY <1>4, <1>5, <2>2, <2>3 DEF NInv
<1>9. CASE Runs
  <2>1. /\ conn'.state = "CS_RESP_BILD" /\ ~conn'.reading
        /\ conn'.parser # "mid" /\ asgi' # 0
        /\ obj'[asgi'].task = "ready" /\ ~obj'[asgi'].latest
    BY <1>6, <1>9 DEF Runs
  <2>2. Latest'
    BY <2>1 DEF Latest
  <2>3. Doomed' /\ Mid' /\ Listens'
    BY <2>1 DEF Doomed, Mid, Listens, Uncalled
  <2> QED
    BY <1>4, <1>5, <2>2, <2>3 DEF NInv
<1> QED
  BY <1>2, <1>7, <1>8, <1>9

(* A step of a coroutine on its object. *)
LEMMA ActsListening ==
  ASSUME QInv, NInv, NEW n \in Messages, Acts(n) PROVE NInv'
<1>1. /\ conn' = conn /\ asgi' = asgi /\ timer' = timer /\ habits' = habits
      /\ obj[n].task \in {"ready", "waiting"}
      /\ obj'[n].task \in {"ready", "waiting", "ended"}
      /\ obj'[n].told = obj[n].told /\ obj'[n].latest = obj[n].latest
      /\ obj'[n].task = "ended" =>
           obj'[n].raised \/ obj[n].latest \/ obj[n].told \/ "stops" \in habits
      /\ \A m \in Messages : m # n => obj'[m] = obj[m]
  BY DEF Acts
<1>2. asgi \in Messages \cup {0}
  BY DEF QInv, TInv, TypeOK
<1>3. Uncalled' => Uncalled
  BY <1>1, <1>2 DEF Uncalled
<1>4. Doomed' /\ Handed' /\ Buried' /\ Mid'
  BY <1>1 DEF NInv, Doomed, Handed, Buried, Mid, Alive
<1>5. Told' /\ Latest'
  BY <1>1, <1>2 DEF NInv, Told, Latest, Alive
<1>6. Ended'
  BY <1>1 DEF NInv, Ended
<1>7. Listens'
  BY <1>1, <1>3 DEF NInv, Listens, Alive
<1> QED
  BY <1>4, <1>5, <1>6, <1>7 DEF NInv

(* A call of send. *)
LEMMA SendsListening ==
  ASSUME QInv, NInv, NEW n \in Messages, asgi_send(n) PROVE NInv'
<1>1. /\ Sends(n) /\ asgi = n /\ obj[n].task = "ready" /\ ~obj[n].told
      /\ asgi' = asgi /\ habits' = habits
  BY Sendings DEF MayCall, QInv, TInv
<1>2. /\ conn.wq = <<>> /\ ~conn.reading /\ ~timer /\ asgi # 0
      /\ conn.parser = "mid" => conn.uv = "closed"
  BY <1>1, CallerAlone
<1>3. conn.uv # "closed" /\ conn.parser # "mid"
  BY <1>2 DEF NInv, Buried
<1>4. obj[n] \in Asgi
  BY DEF QInv, TInv, TypeOK
<1>5. CASE SendStarted(n) \/ SendIgnored(n)
  <2>1. /\ conn' = conn /\ timer' = timer
        /\ \A m \in Messages : m # n => obj'[m] = obj[m]
    BY <1>5 DEF SendStarted, SendIgnored
  <2>2. /\ obj'[n].task = obj[n].task /\ obj'[n].told = obj[n].told
        /\ obj'[n].latest = obj[n].latest
    BY <1>4, <1>5 DEF SendStarted, SendIgnored, Like, Asgi
  <2>3. Doomed' /\ Handed' /\ Buried' /\ Mid'
    BY <1>1, <2>1 DEF NInv, Doomed, Handed, Buried, Mid, Alive
  <2>4. Told' /\ Latest' /\ Ended'
    BY <1>1, <2>1, <2>2 DEF NInv, Told, Latest, Ended, Alive
  <2>5. Listens'
    BY <1>1, <1>2, <2>1, <2>2 DEF Listens, Uncalled
  <2> QED
    BY <2>3, <2>4, <2>5 DEF NInv
<1>6. CASE SendRefused(n)
  <2>1. /\ conn'.uv = conn.uv /\ conn'.parser = conn.parser
        /\ conn'.state = "CS_DESTROY" /\ ~conn'.reading
        /\ timer' = TRUE
        /\ \A m \in Messages : m # n => obj'[m] = obj[m]
        /\ obj'[n].task = "ready" /\ obj'[n].told
    BY <1>1, <1>2, <1>6 DEF SendRefused, Aside
  <2>2. Doomed' /\ Handed' /\ Buried' /\ Mid' /\ Listens' /\ Told'
    BY <1>3, <2>1 DEF Doomed, Handed, Buried, Mid, Listens, Told
  <2>3. Latest' /\ Ended'
    BY <1>1, <2>1 DEF NInv, Latest, Ended
  <2> QED
    BY <2>2, <2>3 DEF NInv
<1>7. CASE SendSkipped(n)
  <2> DEFINE g == [obj[n] EXCEPT !.bodies = TRUE, !.latest = FALSE]
  <2>1. /\ conn'.uv = conn.uv /\ conn'.parser = conn.parser
        /\ conn'.state = "CS_RESP_BILD" /\ ~conn'.reading
        /\ timer' = timer
        /\ \A m \in Messages : m # n => obj'[m] = obj[m]
        /\ Like(obj'[n], g)
    BY <1>2, <1>7 DEF SendSkipped, Aside
  <2>2. obj'[n].task = "ready" /\ ~obj'[n].told /\ ~obj'[n].latest
    BY <1>1, <1>4, <2>1 DEF Like, Asgi
  <2> HIDE DEF g
  <2>3. Doomed' /\ Handed' /\ Buried' /\ Mid' /\ Told'
    BY <1>1, <1>2, <1>3, <2>1, <2>2 DEF Doomed, Handed, Buried, Mid, Told
  <2>4. Latest' /\ Ended' /\ Listens'
    BY <1>1, <1>2, <2>1, <2>2 DEF NInv, Latest, Ended, Listens, Uncalled
  <2> QED
    BY <2>3, <2>4 DEF NInv
<1>8. CASE SendWritten(n)
  <2>1. PICK more \in BOOLEAN :
          Like(obj'[n], [obj[n] EXCEPT !.bodies = TRUE, !.latest = ~more,
                                       !.start = "none", !.future = "pending",
                                       !.task = "sending"])
    BY <1>8 DEF SendWritten
  <2>2. /\ conn'.uv = conn.uv /\ conn'.parser = conn.parser
        /\ conn'.state = "CS_RESP_SEND" /\ ~conn'.reading
        /\ timer' = timer
        /\ \A m \in Messages : m # n => obj'[m] = obj[m]
    BY <1>8 DEF SendWritten, Aside
  <2>3. obj'[n].task = "sending" /\ ~obj'[n].told
    BY <1>1, <1>4, <2>1 DEF Like, Asgi
  <2>4. Doomed' /\ Handed' /\ Buried' /\ Mid' /\ Told'
    BY <1>1, <1>2, <1>3, <2>2, <2>3 DEF Doomed, Handed, Buried, Mid, Told
  <2>5. Latest' /\ Ended' /\ Listens'
    BY <1>1, <1>2, <2>2, <2>3 DEF NInv, Latest, Ended, Listens, Uncalled
  <2> QED
    BY <2>4, <2>5 DEF NInv
<1> QED
  BY <1>1, <1>5, <1>6, <1>7, <1>8 DEF Sends

(* The objects around asgi_done. *)
LEMMA GoesAway ==
  ASSUME TypeOK, NEW n \in Messages, asgi_done(n)
  PROVE  /\ obj[n].task = "ended" /\ obj'[n].task = "gone"
         /\ \A m \in Messages : m # n => obj'[m] = obj[m]
         /\ asgi # n => conn' = conn /\ asgi' = asgi /\ timer' = timer
         /\ habits' = habits
<1>1. obj[n].task = "ended" /\ SetObj(n, Gone(obj[n])) /\ habits' = habits
  BY DEF asgi_done
<1>2. obj[n] \in Asgi
  BY DEF TypeOK
<1>3. /\ obj'[n] = Gone(obj[n])
      /\ \A m \in Messages : m # n => obj'[m] = obj[m]
  BY <1>1, <1>2, Going, Setting
<1>4. obj'[n].task = "gone"
  BY <1>3 DEF Gone, create_asgi
<1>5. asgi # n => conn' = conn /\ asgi' = asgi /\ timer' = timer
  BY DEF asgi_done
<1> QED
  BY <1>1, <1>3, <1>4, <1>5

(* What asgi_done hands the connection of its object over to. *)
LEMMA HandsOver ==
  ASSUME QInv, NInv, NEW n \in Messages, asgi_done(n), asgi = n
  PROVE  LET doomed == obj[n].raised \/ conn.state = "CS_DESTROY"
         IN /\ asgi' = 0 /\ Data(conn', conn) /\ conn'.wq = <<>>
            /\ conn.wq = <<>> /\ conn.parser # "mid"
            /\ conn.uv \notin {"none", "closed"}
            /\ conn'.uv \notin {"none", "closed"}
            /\ W!Alive(conn') => conn.uv = "open" /\ W!Alive(conn)
            /\ doomed => conn'.state = "CS_DESTROY"
            /\ doomed \/ conn.rx = "RXS_FREEZED" => timer' /\ ~conn'.reading
            /\ ~doomed /\ conn.rx = "RXS_FREEZED" => conn' = conn
            /\ ~doomed /\ conn.rx # "RXS_FREEZED" =>
                 ~timer' /\ conn' = W!stream_read_start(conn)
            /\ obj[n].future # "pending"
<1> DEFINE q == Done(conn, obj[n].raised).conn
           t == Done(conn, obj[n].raised).timer
           doomed == obj[n].raised \/ conn.state = "CS_DESTROY"
<1>0. /\ conn \in W!Conn /\ timer \in BOOLEAN /\ obj[n].raised \in BOOLEAN
      /\ obj[n].task = "ended"
  BY DEF QInv, TInv, TypeOK, Asgi, asgi_done
<1>1. asgi' = 0 /\ conn' = q /\ timer' = t
  BY DEF asgi_done
<1>2. /\ Data(q, conn) /\ q.shut = conn.shut
      /\ q.uv = conn.uv \/ (conn.uv = "open" /\ q.uv = "closing")
      /\ doomed \/ conn.rx = "RXS_FREEZED" =>
           t = TRUE /\ q.reading = conn.reading /\ q.uv = conn.uv
      /\ doomed => q.state = "CS_DESTROY"
      /\ ~doomed /\ conn.rx = "RXS_FREEZED" => q = conn
      /\ ~doomed /\ conn.rx # "RXS_FREEZED" =>
           t = timer /\ q = W!stream_read_start(conn)
  BY <1>0, Finishing
<1> HIDE DEF q, t
<1>3. /\ conn.wq = <<>> /\ ~conn.reading /\ asgi # 0
      /\ conn.parser = "mid" => conn.uv = "closed"
      /\ conn.uv # "none" /\ obj[n].future # "pending"
      /\ timer => conn.state = "CS_DESTROY"
  BY <1>0, CallerAlone
<1>4. conn.uv # "closed"
  BY <1>3 DEF NInv, Buried
<1>5. conn'.wq = <<>>
  BY <1>1, <1>2, <1>3 DEF Data
<1>6. W!Alive(conn') => conn.uv = "open" /\ W!Alive(conn)
  BY <1>1, <1>2 DEF W!Alive
<1>7. doomed \/ conn.rx = "RXS_FREEZED" => timer' /\ ~conn'.reading
  BY <1>1, <1>2, <1>3
<1>8. ~doomed /\ conn.rx # "RXS_FREEZED" =>
        ~timer' /\ conn' = W!stream_read_start(conn)
  BY <1>1, <1>2, <1>3
<1>9. conn'.uv \notin {"none", "closed"}
  BY <1>1, <1>2, <1>3, <1>4
<1> QED
  BY <1>1, <1>2, <1>3, <1>4, <1>5, <1>6, <1>7, <1>8, <1>9

(* The callback of a task. *)
LEMMA DoneListening ==
  ASSUME QInv, NInv, NEW n \in Messages, asgi_done(n) PROVE NInv'
<1>0. conn \in W!Conn /\ TypeOK /\ asgi \in Messages \cup {0}
  BY DEF QInv, TInv, TypeOK
<1>1. /\ obj[n].task = "ended" /\ obj'[n].task = "gone"
      /\ \A m \in Messages : m # n => obj'[m] = obj[m]
      /\ asgi # n => conn' = conn /\ asgi' = asgi /\ timer' = timer
      /\ habits' = habits
  BY <1>0, GoesAway
<1>2. Ended'
  BY <1>1 DEF NInv, Ended
<1>3. CASE asgi # n
  <2>1. asgi # 0 => asgi \in Messages /\ obj'[asgi] = obj[asgi]
    BY <1>0, <1>1, <1>3
  <2>2. Doomed' /\ Handed' /\ Buried' /\ Mid'
    BY <1>1, <1>3 DEF NInv, Doomed, Handed, Buried, Mid, Alive
  <2>3. Told' /\ Latest'
    BY <1>1, <1>3, <2>1 DEF NInv, Told, Latest, Alive
  <2>4. Uncalled' => Uncalled
    BY <1>1, <1>3, <2>1 DEF Uncalled
  <2>5. Listens'
    BY <1>1, <1>3, <2>4 DEF NInv, Listens, Alive
  <2> QED
    BY <1>2, <2>2, <2>3, <2>5 DEF NInv
<1>4. CASE asgi = n
  <2> DEFINE doomed == obj[n].raised \/ conn.state = "CS_DESTROY"
             start == W!stream_read_start(conn)
  <2>1. /\ asgi' = 0 /\ Data(conn', conn) /\ conn'.wq = <<>>
        /\ conn.wq = <<>> /\ conn.parser # "mid"
        /\ conn'.uv \notin {"none", "closed"}
        /\ W!Alive(conn') => conn.uv = "open" /\ W!Alive(conn)
        /\ doomed => conn'.state = "CS_DESTROY"
        /\ doomed \/ conn.rx = "RXS_FREEZED" => timer' /\ ~conn'.reading
        /\ ~doomed /\ conn.rx = "RXS_FREEZED" => conn' = conn
        /\ ~doomed /\ conn.rx # "RXS_FREEZED" => ~timer' /\ conn' = start
    BY <1>4, HandsOver
  <2>2. /\ conn.state = "CS_RESP_SEND" \/ conn.rx = "RXS_FREEZED" =>
             start = conn
        /\ /\ conn.state # "CS_RESP_SEND" /\ conn.rx # "RXS_FREEZED"
           /\ conn.uv = "open"
           => start.reading /\ start.state = "CS_REQ_READ"
    BY <1>0, StartReads
  <2> HIDE DEF start
  <2>3. conn'.parser = conn.parser /\ conn'.lastT = conn.lastT
          /\ conn'.rx = conn.rx
    BY <2>1 DEF Data
  <2>4. ~doomed /\ Alive' => conn'.state # "CS_DESTROY"
    BY <2>1, <2>2 DEF Alive
  <2>5. Doomed'
    BY <2>1, <2>4 DEF Doomed
  <2>6. Handed'
    BY <2>1, <2>3 DEF Handed
  <2>7. Told' /\ Latest' /\ Buried' /\ Mid'
    BY <2>1, <2>3 DEF Told, Latest, Buried, Mid
  <2>8. ASSUME "stops" \notin habits, ~doomed
        PROVE  conn.lastT /\ (W!Alive(conn) => conn.state # "CS_RESP_SEND")
    <3>1. obj[n].latest \/ obj[n].told
      BY <1>1, <2>8 DEF NInv, Ended
    <3>2. ~obj[n].told
      BY <1>0, <1>4, <2>8 DEF NInv, Told, Messages
    <3> QED
      BY <1>1, <1>4, <3>1, <3>2 DEF NInv, Latest, Alive, Messages
  <2>9. ASSUME "stops" \notin habits, Alive'
        PROVE  /\ ~timer' => conn'.reading
               /\ conn'.reading => conn'.lastT
    <3>1. CASE doomed \/ conn.rx = "RXS_FREEZED"
      BY <2>1, <3>1
    <3>2. CASE ~doomed /\ conn.rx # "RXS_FREEZED"
      <4>1. W!Alive(conn) /\ conn.uv = "open"
        BY <2>1, <2>9 DEF Alive
      <4>2. conn.lastT /\ conn.state # "CS_RESP_SEND"
        BY <2>8, <2>9, <3>2, <4>1
      <4> QED
        BY <2>1, <2>2, <2>3, <3>2, <4>1, <4>2
    <3> QED
      BY <3>1, <3>2
  <2>10. Listens'
    BY <1>1, <2>9 DEF Listens
  <2> QED
    BY <1>2, <2>5, <2>6, <2>7, <2>10 DEF NInv
<1> QED
  BY <1>3, <1>4

(* What the report of a response leaves, by what waited for it: nobody, or *)
(* a send of the last chunk or of another one.                             *)
Reports(o) ==
  /\ conn.wq # <<>> /\ conn'.wq = <<>> /\ ~conn'.reading
  /\ conn'.parser = conn.parser /\ conn'.calls = conn.calls
  /\ conn'.shut = conn.shut
  /\ conn'.uv = conn.uv \/ (conn.uv = "open" /\ conn'.uv = "closing")
  /\ o.future # "pending" => ~W!Alive(conn') /\ conn'.done = conn.done
  /\ o.future = "pending" /\ o.latest =>
       /\ conn'.done = conn.done + 1 /\ conn'.lastT
       /\ W!Alive(conn') => conn'.state = "CS_RESP_END"
  /\ o.future = "pending" /\ ~o.latest =>
       /\ conn'.done = conn.done
       /\ W!Alive(conn) => conn'.uv = "open" /\ conn'.state = "CS_RESP_SEND"
       /\ W!Alive(conn') => conn'.state = "CS_RESP_SEND"

LEMMA ReportsTo ==
  ASSUME QInv, ResponseWritten PROVE Reports(obj[asgi])
<1> DEFINE k == Reported
           o == obj[asgi]
           q == AsgiWritten(k, o)
<1>1. /\ conn.wq # <<>> /\ conn' = W!Drain(q)
      /\ Aside(k, conn) /\ k.wq = <<>> /\ k.uv = conn.uv
      /\ k.shut = conn.shut /\ ~k.reading
  BY ResponseReported
<1>2. o \in Asgi /\ k \in W!Conn
  BY <1>1, WriteAlone DEF Aside, QInv, TInv, TypeOK
<1> HIDE DEF k, o
<1>3. /\ Keeps(q, k) /\ q.wq = k.wq /\ q.shut = k.shut
      /\ q.parser = k.parser /\ ~q.reading /\ q \in W!Conn
      /\ q.uv = k.uv \/ (k.uv = "open" /\ q.uv = "closing")
      /\ q.done # k.done => o.future = "pending" /\ o.latest
      /\ o.future # "pending" => ~W!Alive(q)
      /\ o.future = "pending" /\ o.latest =>
           /\ q.done = k.done + 1 /\ q.lastT
           /\ W!Alive(q) => q.state = "CS_RESP_END"
      /\ o.future = "pending" /\ ~o.latest =>
           q.uv = k.uv /\ q.done = k.done /\ q.state = "CS_RESP_SEND"
  BY <1>1, <1>2, WrittenTyped DEF Keeps
<1> HIDE DEF q
<1>4. /\ Data(conn', q) /\ conn'.shut = q.shut /\ ~conn'.reading
      /\ conn'.uv = q.uv \/ (q.uv = "open" /\ conn'.uv = "closing")
      /\ W!Alive(q) => conn' = q
      /\ ~W!Alive(q) => ~W!Alive(conn')
  BY <1>1, <1>3, Draining
<1>5. /\ conn'.wq = <<>> /\ conn'.parser = conn.parser
      /\ conn'.calls = conn.calls /\ conn'.shut = conn.shut
      /\ conn'.uv = conn.uv \/ (conn.uv = "open" /\ conn'.uv = "closing")
      /\ conn'.done = q.done /\ (q.lastT => conn'.lastT)
      /\ k.done = conn.done
  BY <1>1, <1>3, <1>4 DEF Data, Keeps, Aside
<1>6. o.future # "pending" => ~W!Alive(conn') /\ conn'.done = conn.done
  BY <1>3, <1>4, <1>5
<1>7. o.future = "pending" /\ o.latest =>
        /\ conn'.done = conn.done + 1 /\ conn'.lastT
        /\ W!Alive(conn') => conn'.state = "CS_RESP_END"
  BY <1>3, <1>4, <1>5
<1>8. o.future = "pending" /\ ~o.latest =>
        /\ conn'.done = conn.done
        /\ W!Alive(conn) => conn'.uv = "open" /\ conn'.state = "CS_RESP_SEND"
        /\ W!Alive(conn') => conn'.state = "CS_RESP_SEND"
  BY <1>1, <1>3, <1>4, <1>5 DEF W!Alive
<1> QED
  BY <1>1, <1>4, <1>5, <1>6, <1>7, <1>8 DEF Reports, o

(* The object whose response is reported: it waits for it, or was not      *)
(* called.                                                                 *)
LEMMA Reporters ==
  ASSUME QInv, NInv, conn.wq # <<>>
  PROVE  /\ asgi \in Messages /\ asgi # 0 /\ obj[asgi] \in Asgi
         /\ ~obj[asgi].told /\ ~timer /\ ~conn.reading
         /\ conn.uv \notin {"none", "closed"} /\ conn.parser # "mid"
         /\ obj[asgi].future = "pending" => obj[asgi].task = "sending"
         /\ obj[asgi].future # "pending" => obj[asgi].task = "none"
<1>1. /\ asgi \in Messages /\ asgi # 0
      /\ obj[asgi].task \in {"none", "sending"} /\ ~obj[asgi].told
      /\ conn.uv # "none" /\ ~conn.reading /\ ~timer
      /\ conn.parser = "mid" => conn.uv = "closed"
  BY WriteAlone
<1>2. conn.uv # "closed"
  BY DEF NInv, Buried
<1>3. obj[asgi].task = "sending" <=> obj[asgi].future = "pending"
  BY <1>1 DEF QInv, Awaits
<1>4. obj[asgi] \in Asgi
  BY <1>1 DEF QInv, TInv, TypeOK
<1> QED
  BY <1>1, <1>2, <1>3, <1>4

(* A response is reported. *)
LEMMA ReportsListening ==
  ASSUME QInv, NInv, ResponseWritten PROVE NInv'
<1> DEFINE o == obj[asgi]
<1>1. /\ asgi' = asgi /\ timer' = timer /\ habits' = habits
      /\ obj'[asgi] = Resolved(o)
      /\ \A m \in Messages : m # asgi => obj'[m] = obj[m]
      /\ conn.wq # <<>>
  BY ResponseReported
<1>2. /\ asgi \in Messages /\ asgi # 0 /\ o \in Asgi /\ ~o.told /\ ~timer
      /\ conn.uv \notin {"none", "closed"} /\ conn.parser # "mid"
      /\ o.future = "pending" => o.task = "sending"
      /\ o.future # "pending" => o.task = "none"
  BY <1>1, Reporters
<1>3. Reports(o)
  BY ReportsTo
<1> HIDE DEF o
<1>4. /\ obj'[asgi].told = o.told /\ obj'[asgi].latest = o.latest
      /\ o.task = "sending" => obj'[asgi].task = "ready"
      /\ o.task = "none" => obj'[asgi].task = "none"
  BY <1>1, <1>2, Resolving
<1>5. conn'.uv # "closed" /\ conn'.parser # "mid" /\ ~conn'.reading
  BY <1>2, <1>3 DEF Reports
<1>6. Handed' /\ Told' /\ Buried' /\ Mid'
  BY <1>1, <1>2, <1>4, <1>5 DEF Handed, Told, Buried, Mid
<1>7. Alive' => o.future = "pending"
  BY <1>3 DEF Reports, Alive
<1>8. Alive' => conn'.state \in {"CS_RESP_END", "CS_RESP_SEND"}
  BY <1>3, <1>7 DEF Reports, Alive
<1>9. Doomed' /\ Listens'
  BY <1>1, <1>2, <1>4, <1>5, <1>7, <1>8 DEF Doomed, Listens, Uncalled
<1>10. Latest'
  <2>1. CASE o.future = "pending" /\ o.latest
    BY <1>3, <2>1 DEF Reports, Latest, Alive
  <2>2. CASE ~(o.future = "pending" /\ o.latest)
    BY <1>1, <1>2, <1>4, <2>2 DEF Latest
  <2> QED
    BY <2>1, <2>2
<1>11. Ended'
  BY <1>1, <1>2, <1>4 DEF NInv, Ended
<1> QED
  BY <1>6, <1>9, <1>10, <1>11 DEF NInv

(* What a failed write leaves. *)
LEMMA FailsTo ==
  ASSUME QInv, NInv, WriteFailed
  PROVE  /\ conn.wq # <<>> /\ conn'.wq = <<>> /\ ~conn'.reading
         /\ conn'.parser = conn.parser /\ conn'.done = conn.done
         /\ conn'.calls = conn.calls
         /\ conn'.uv = conn.uv \/ (conn.uv = "open" /\ conn'.uv = "closing")
         /\ ~W!Alive(conn') /\ conn'.state = "CS_DESTROY"
         /\ asgi' = asgi /\ timer' = timer /\ habits' = habits
         /\ obj'[asgi].task \in {"ready", "none"}
         /\ obj'[asgi].task = "ready" => obj'[asgi].told
         /\ \A m \in Messages : m # asgi => obj'[m] = obj[m]
<1> DEFINE o == obj[asgi]
           t == o.told \/ o.future = "pending"
           p == [Resolved(o) EXCEPT !.told = t]
<1>1. /\ conn.wq # <<>>
      /\ Keeps(conn', conn) /\ conn'.parser = conn.parser
      /\ conn'.wq = <<>> /\ conn'.done = conn.done /\ ~conn'.reading
      /\ conn'.uv = conn.uv \/ (conn.uv = "open" /\ conn'.uv = "closing")
      /\ ~W!Alive(conn') /\ conn'.state = "CS_DESTROY"
      /\ asgi' = asgi /\ timer' = timer /\ habits' = habits
      /\ obj'[asgi] = p
      /\ \A m \in Messages : m # asgi => obj'[m] = obj[m]
  BY FailureReported
<1>2. /\ asgi \in Messages /\ o \in Asgi
      /\ o.future = "pending" => o.task = "sending"
      /\ o.future # "pending" => o.task = "none"
  BY <1>1, Reporters
<1> HIDE DEF o
<1>3. /\ o.task = "sending" => Resolved(o).task = "ready"
      /\ o.task # "sending" => Resolved(o).task = o.task
  BY <1>2, Resolving
<1>4. Resolved(o) \in Asgi
  BY <1>2, AppTyped DEF o, QInv, TInv
<1>5. p.task = Resolved(o).task /\ (p.told <=> t)
  BY <1>4 DEF Asgi
<1> HIDE DEF p
<1>6. p.task \in {"ready", "none"} /\ (p.task = "ready" => p.told)
  BY <1>2, <1>3, <1>5
<1>7. conn'.calls = conn.calls
  BY <1>1 DEF Keeps
<1> QED
  BY <1>1, <1>6, <1>7

LEMMA FailsListening ==
  ASSUME QInv, NInv, WriteFailed PROVE NInv'
<1>1. /\ conn.wq # <<>> /\ conn'.wq = <<>> /\ ~conn'.reading
      /\ conn'.parser = conn.parser
      /\ conn'.uv = conn.uv \/ (conn.uv = "open" /\ conn'.uv = "closing")
      /\ ~W!Alive(conn') /\ conn'.state = "CS_DESTROY"
      /\ asgi' = asgi /\ timer' = timer /\ habits' = habits
      /\ obj'[asgi].task \in {"ready", "none"}
      /\ obj'[asgi].task = "ready" => obj'[asgi].told
      /\ \A m \in Messages : m # asgi => obj'[m] = obj[m]
  BY FailsTo
<1>2. conn.uv \notin {"none", "closed"} /\ conn.parser # "mid"
  BY <1>1, Reporters
<1>3. ~Alive' /\ conn'.uv # "closed"
  BY <1>1, <1>2 DEF Alive
<1>4. Doomed' /\ Handed' /\ Told' /\ Buried' /\ Mid' /\ Listens' /\ Latest'
  BY <1>1, <1>2, <1>3
     DEF Doomed, Handed, Told, Buried, Mid, Listens, Latest
<1>5. Ended'
  BY <1>1 DEF NInv, Ended
<1> QED
  BY <1>4, <1>5 DEF NInv

(* The connection is accepted, or closed. *)
LEMMA OpensListening ==
  ASSUME QInv, NInv, connection_cb \/ close_cb PROVE NInv'
<1>1. CASE connection_cb
  <2>1. /\ asgi = 0 /\ ~timer /\ UNCHANGED <<asgi, timer, obj, frame, habits>>
        /\ conn'.uv \in {"open", "closing"} /\ conn'.wq = <<>>
        /\ conn'.parser = "idle"
        /\ conn'.uv = "open" =>
             conn'.reading /\ conn'.reqT /\ conn'.state = "CS_REQ_READ"
    BY <1>1, Connecting
  <2>2. Alive' => conn'.reading /\ conn'.reqT /\ conn'.state = "CS_REQ_READ"
    BY <2>1 DEF Alive, W!Alive
  <2>3. Doomed' /\ Handed' /\ Told' /\ Buried' /\ Latest' /\ Mid' /\ Listens'
    BY <2>1, <2>2 DEF Doomed, Handed, Told, Buried, Latest, Mid, Listens
  <2>4. Ended'
    BY <2>1 DEF NInv, Ended
  <2> QED
    BY <2>3, <2>4 DEF NInv
<1>2. CASE close_cb
  <2>1. /\ conn'.uv = "closed" /\ ~conn'.reading /\ conn'.wq = <<>>
        /\ asgi' = 0 /\ timer' = FALSE /\ habits' = habits
        /\ \A m \in Messages : Like(obj'[m], obj[m])
    BY <1>2, Closing DEF QInv
  <2>2. ~Alive'
    BY <2>1 DEF Alive, W!Alive
  <2>3. Doomed' /\ Handed' /\ Told' /\ Buried' /\ Latest' /\ Mid' /\ Listens'
    BY <2>1, <2>2 DEF Doomed, Handed, Told, Buried, Latest, Mid, Listens
  <2>4. Ended'
    BY <2>1 DEF NInv, Ended, Like
  <2> QED
    BY <2>3, <2>4 DEF NInv
<1> QED
  BY <1>1, <1>2

(* The read timer finds nothing to do. *)
LEMMA WaitsListening ==
  ASSUME NInv, WaitStep, habits' = habits PROVE NInv'
<1>1. /\ timer /\ timer' = FALSE /\ conn' = conn /\ asgi' = asgi /\ obj' = obj
      /\ conn.state # "CS_DESTROY" /\ conn.rx # "RXS_FREEZED"
  BY DEF WaitStep
<1>2. ~Alive
  BY <1>1 DEF NInv, Handed
<1>3. ~Alive'
  BY <1>1, <1>2 DEF Alive
<1> QED
  BY <1>1, <1>3 DEF NInv, Doomed, Handed, Told, Buried, Latest, Ended, Mid,
     Listens

(* Every step keeps the invariant. *)
LEMMA ListeningKept ==
  ASSUME QInv, NInv, "expect" \notin habits, [Next]_vars PROVE NInv'
<1>1. habits' = habits
  BY HabitsStay
<1>2. CASE UNCHANGED vars
  BY <1>2 DEF vars, NInv, Doomed, Handed, Told, Buried, Latest, Ended, Mid,
     Listens, Alive, Uncalled
<1>3. CASE Next
  <2>1. Steps
    BY <1>3, Stepping
  <2>2. ASSUME NEW n \in Messages, Acts(n) \/ asgi_send(n) \/ asgi_done(n)
        PROVE  NInv'
    BY <2>2, ActsListening, SendsListening, DoneListening
  <2> QED
    BY <1>1, <2>1, <2>2, EndsListening, ParsesListening, WaitsListening,
       ReportsListening, FailsListening, OpensListening DEF Steps
<1> QED
  BY <1>2, <1>3

LEMMA Listening == Spec => []KInv
<1>1. Init => KInv
  <2> SUFFICES ASSUME Init PROVE KInv
    OBVIOUS
  <2>1. IInv
    BY Initial
  <2>2. /\ conn.uv = "none" /\ conn.wq = <<>> /\ conn.parser = "idle"
        /\ asgi = 0 /\ ~timer
    BY Accepting DEF Init
  <2>3. \A n \in Messages : obj[n].task = "none"
    BY DEF Init, Unborn, create_asgi
  <2>4. ~Alive
    BY <2>2 DEF Alive, W!Alive
  <2>5. NInv
    BY <2>2, <2>3, <2>4 DEF NInv, Doomed, Handed, Told, Buried, Latest, Ended,
       Mid, Listens
  <2> QED
    BY <2>1, <2>5 DEF KInv
<1>2. KInv /\ [Next]_vars => KInv'
  <2> SUFFICES ASSUME KInv, [Next]_vars PROVE KInv'
    OBVIOUS
  <2>1. IInv' /\ habits' = habits
    BY Inductive, HabitsStay DEF KInv
  <2>2. "expect" \notin habits => NInv'
    BY ListeningKept DEF KInv, IInv
  <2> QED
    BY <2>1, <2>2 DEF KInv
<1> QED
  BY <1>1, <1>2, PTL DEF Spec

(* Whether a write is under way is all that the invariant needs to know of *)
(* the queue.                                                              *)
LEMMA Flying == ASSUME Writes PROVE InFlight # {} <=> conn.wq # <<>>
<1>1. CASE conn.wq = <<>>
  BY <1>1 DEF InFlight
<1>2. CASE conn.wq = <<"resp">>
  <2>1. 1 \in InFlight
    BY <1>2 DEF InFlight
  <2> QED
    BY <1>2, <2>1
<1> QED
  BY <1>1, <1>2 DEF Writes

LEMMA FlyingNext == ASSUME Writes' PROVE InFlight' # {} <=> conn'.wq # <<>>
<1>1. CASE conn'.wq = <<>>
  BY <1>1 DEF InFlight
<1>2. CASE conn'.wq = <<"resp">>
  <2>1. 1 \in InFlight'
    BY <1>2 DEF InFlight
  <2> QED
    BY <1>2, <2>1
<1> QED
  BY <1>1, <1>2 DEF Writes

(* Without 100-continue a live connection that no coroutine, no write and  *)
(* no read timer will move on reads from its socket, and after plain       *)
(* exchanges client_aux_check has a time to compare, whichever way         *)
(* asgi_done and write_cb hand it over (asgi.c:853-864, server.c:296-346). *)
THEOREM NeverLeftAlone == Spec => []("expect" \notin habits => NeverStuck)
<1>1. KInv => ("expect" \notin habits => NeverStuck)
  <2> SUFFICES ASSUME KInv, "expect" \notin habits, "stops" \notin habits,
                      Alive, InFlight = {}, ~timer,
                      asgi = 0 \/ obj[asgi].task = "none"
               PROVE  conn.reading /\ (habits = {} => conn.reqT \/ conn.lastT)
    BY DEF NeverStuck
  <2>1. QInv /\ NInv /\ Uncalled
    BY DEF KInv, IInv, Uncalled
  <2>2. conn.wq = <<>>
    BY <2>1, Flying DEF QInv
  <2> QED
    BY <2>1, <2>2 DEF NInv, Listens
<1> QED
  BY <1>1, Listening, PTL

-----------------------------------------------------------------------------
(* Plain exchanges.                                                        *)

Busy == InFlight # {} \/ Attended
Served == IF Attended /\ Answered THEN conn.done - 1 ELSE conn.done

(* The phase by the handle and, while there is one, by the state. *)
LEMMA Phasing ==
  ASSUME SInv
  PROVE  /\ conn.uv = "none" => Phase = "free"
         /\ conn.uv = "closed" => Phase = "closed"
         /\ conn.uv \notin {"none", "closed"} /\ conn.state = "CS_DESTROY" =>
              Phase = "dying"
         /\ conn.uv \notin {"none", "closed"} /\ conn.state # "CS_DESTROY" =>
              Phase = "live" /\ Alive
<1>1. Alive => conn.uv # "none" /\ conn.uv # "closed"
  BY DEF Alive, W!Alive
<1>2. /\ conn.uv \notin {"none", "closed"} /\ conn.state # "CS_DESTROY"
      => Alive
  BY DEF SInv, Dying
<1>3. conn.uv = "closed" => conn.uv # "none"
  OBVIOUS
<1> QED
  BY <1>1, <1>2, <1>3, Zenon DEF Phase

LEMMA PhasingNext ==
  ASSUME SInv'
  PROVE  /\ conn'.uv = "none" => Phase' = "free"
         /\ conn'.uv = "closed" => Phase' = "closed"
         /\ conn'.uv \notin {"none", "closed"} /\ conn'.state = "CS_DESTROY" =>
              Phase' = "dying"
         /\ conn'.uv \notin {"none", "closed"} /\ conn'.state # "CS_DESTROY" =>
              Phase' = "live" /\ Alive'
<1>1. Alive' => conn'.uv # "none" /\ conn'.uv # "closed"
  BY DEF Alive, W!Alive
<1>2. /\ conn'.uv \notin {"none", "closed"} /\ conn'.state # "CS_DESTROY"
      => Alive'
  BY DEF SInv, Dying
<1>3. conn'.uv = "closed" => conn'.uv # "none"
  OBVIOUS
<1> QED
  BY <1>1, <1>2, <1>3, Zenon DEF Phase

(* The step of HttpExchange that a change of the mapped state is. *)
LEMMA Opened ==
  ASSUME Phase = "free", Phase' \in {"live", "dying"}, Busy' <=> Busy,
         Served' = Served, conn'.calls = conn.calls
  PROVE  X!Next
  BY DEF X!Next, X!Open, Busy, Served

LEMMA Began ==
  ASSUME Phase = "live", ~Busy, Phase' \in {"live", "dying"}, Busy',
         Served' = Served, conn'.calls \in {conn.calls, conn.calls + 1}
  PROVE  X!Next
  BY DEF X!Next, X!Serve, X!Begin, Busy, Served

LEMMA Finished ==
  ASSUME Busy, ~Busy', Served' = Served + 1, Phase' \in {Phase, "dying"},
         conn'.calls = conn.calls
  PROVE  X!Next
  BY DEF X!Next, X!Finish, Busy, Served

LEMMA Broken ==
  ASSUME Busy, ~Busy', Served' = Served, Phase' = "dying",
         conn'.calls = conn.calls
  PROVE  X!Next
  BY DEF X!Next, X!Fail, Busy, Served

LEMMA Quit ==
  ASSUME Phase = "live", Phase' = "dying", Busy' <=> Busy, Served' = Served,
         conn'.calls = conn.calls
  PROVE  X!Next
  BY DEF X!Next, X!End, Busy, Served

LEMMA Closed ==
  ASSUME Phase = "dying", Phase' = "closed", ~Busy, ~Busy', Served' = Served,
         conn'.calls = conn.calls
  PROVE  X!Next
  BY DEF X!Next, X!Close, Busy, Served

LEMMA Stuttered ==
  ASSUME Phase' = Phase, Busy' <=> Busy, Served' = Served,
         conn'.calls = conn.calls
  PROVE  UNCHANGED X!vars
  BY DEF X!vars, Busy, Served

Simulates == [X!Next]_(X!vars)

(* A connection that is dying has nobody who attends it. *)
LEMMA Dies ==
  ASSUME SInv', conn'.uv \notin {"none", "closed"},
         conn'.state = "CS_DESTROY"
  PROVE  /\ Phase' = "dying" /\ ~Attended' /\ Served' = conn'.done
         /\ Busy' <=> conn'.wq # <<>>
<1>1. Phase' = "dying" /\ Writes'
  BY PhasingNext DEF SInv, QInv
<1>2. ~Attended'
  BY <1>1 DEF Attended
<1> QED
  BY <1>1, <1>2, FlyingNext DEF Served, Busy

LEMMA Died ==
  ASSUME SInv, conn.uv \notin {"none", "closed"}, conn.state = "CS_DESTROY"
  PROVE  /\ Phase = "dying" /\ ~Attended /\ Served = conn.done
         /\ Busy <=> conn.wq # <<>>
<1>1. Phase = "dying" /\ Writes
  BY Phasing DEF SInv, QInv
<1>2. ~Attended
  BY <1>1 DEF Attended
<1> QED
  BY <1>1, <1>2, Flying DEF Served, Busy

(* One that lives is attended by the coroutine of its object. *)
LEMMA Lives ==
  ASSUME SInv, conn.uv \notin {"none", "closed"}, conn.state # "CS_DESTROY"
  PROVE  /\ Phase = "live" /\ Alive
         /\ Attended <=> asgi # 0 /\ obj[asgi].task # "none"
         /\ Busy <=> conn.wq # <<>> \/ Attended
<1>1. Phase = "live" /\ Alive /\ Writes
  BY Phasing DEF SInv, QInv
<1> QED
  BY <1>1, Flying DEF Attended, Busy

LEMMA LivesNext ==
  ASSUME SInv', conn'.uv \notin {"none", "closed"},
         conn'.state # "CS_DESTROY"
  PROVE  /\ Phase' = "live" /\ Alive'
         /\ Attended' <=> asgi' # 0 /\ obj'[asgi'].task # "none"
         /\ Busy' <=> conn'.wq # <<>> \/ Attended'
<1>1. Phase' = "live" /\ Alive' /\ Writes'
  BY PhasingNext DEF SInv, QInv
<1> QED
  BY <1>1, FlyingNext DEF Attended, Busy

(* The responses that are out, for a connection that lives. *)
LEMMA Counted ==
  /\ Attended /\ Answered => Served = conn.done - 1
  /\ ~(Attended /\ Answered) => Served = conn.done
  /\ Attended' /\ Answered' => Served' = conn'.done - 1
  /\ ~(Attended' /\ Answered') => Served' = conn'.done
  BY DEF Served

(* The phases of a connection that was accepted. *)
LEMMA Accepted ==
  ASSUME SInv', conn'.uv \notin {"none", "closed"}
  PROVE  /\ Phase' \in {"live", "dying"}
         /\ Busy' <=> conn'.wq # <<>> \/ Attended'
  BY Dies, LivesNext

(* A step that ends the connection, with the exchange it stood in. *)
LEMMA EndsMapped ==
  ASSUME SInv, SInv', EndsStep PROVE Simulates
<1>0. /\ conn \in W!Conn /\ QInv /\ conn.done \in Nat
      /\ conn.uv \notin {"none", "closed"}
  BY DEF SInv, QInv, TInv, TypeOK, W!Conn, EndsStep
<1>1. /\ conn'.wq = conn.wq /\ conn'.done = conn.done
      /\ conn'.calls = conn.calls /\ conn'.state = "CS_DESTROY"
      /\ conn'.uv \notin {"none", "closed"}
  BY DEF EndsStep, Ends, Data
<1>2. /\ Phase' = "dying" /\ ~Attended' /\ Served' = conn.done
      /\ Busy' <=> conn.wq # <<>>
  BY <1>1, Dies
<1>3. CASE conn.state = "CS_DESTROY"
  BY <1>0, <1>1, <1>2, <1>3, Died, Stuttered DEF Simulates
<1>4. CASE conn.state # "CS_DESTROY"
  <2>1. /\ Phase = "live"
        /\ Attended <=> asgi # 0 /\ obj[asgi].task # "none"
        /\ Busy <=> conn.wq # <<>> \/ Attended
    BY <1>0, <1>4, Lives
  <2>2. CASE ~Attended
    <3>1. Served = conn.done
      BY <2>2, Counted
    <3> QED
      BY <1>1, <1>2, <2>1, <2>2, <3>1, Quit DEF Simulates
  <2>3. CASE Attended /\ conn.wq # <<>>
    <3>1. asgi \in Messages /\ obj[asgi].task = "sending"
      BY <1>0, <2>1, <2>3, WriteAlone
    <3>2. obj[asgi].future = "pending"
      BY <1>0, <3>1 DEF QInv, Awaits
    <3>3. Served = conn.done
      BY <3>2, Counted DEF Answered
    <3> QED
      BY <1>1, <1>2, <2>1, <2>3, <3>3, Quit DEF Simulates
  <2>4. CASE Attended /\ conn.wq = <<>> /\ Answered
    <3>1. Served = conn.done - 1
      BY <2>4, Counted
    <3>2. Served' = Served + 1
      BY <1>0, <1>2, <3>1
    <3> QED
      BY <1>1, <1>2, <2>1, <2>4, <3>2, Finished DEF Simulates
  <2>5. CASE Attended /\ conn.wq = <<>> /\ ~Answered
    <3>1. Served = conn.done
      BY <2>5, Counted
    <3> QED
      BY <1>1, <1>2, <2>1, <2>5, <3>1, Broken DEF Simulates
  <2> QED
    BY <2>2, <2>3, <2>4, <2>5
<1> QED
  BY <1>3, <1>4

(* A step that parses begins an exchange, or waits for the rest. *)
LEMMA ParsesMapped ==
  ASSUME SInv, SInv', NInv, ParseStep PROVE Simulates
<1>1. /\ Uncalled /\ conn.wq = <<>> /\ conn.uv \notin {"none", "closed"}
      /\ (conn.reading /\ ~timer) \/ conn.state # "CS_DESTROY"
  BY DEF ParseStep
<1>2. /\ conn'.uv = conn.uv \/ (conn.uv = "open" /\ conn'.uv = "closing")
      /\ conn'.done = conn.done /\ conn'.calls \in {conn.calls, conn.calls + 1}
      /\ Waits \/ Answers \/ Runs
  BY ParsesTo DEF ParseLeaves, SInv
<1>3. conn.state # "CS_DESTROY"
  BY <1>1 DEF SInv, Dying, NInv, Doomed
<1>4. /\ Phase = "live" /\ Alive /\ ~Attended /\ ~Busy
  BY <1>1, <1>3, Lives DEF Uncalled
<1>5. Served = conn.done
  BY <1>4, Counted
<1>6. conn'.uv \notin {"none", "closed"} /\ W!Alive(conn)
  BY <1>1, <1>2, <1>4 DEF Alive
<1>7. CASE Waits
  <2>1. /\ conn'.wq = <<>> /\ conn'.calls = conn.calls
        /\ conn'.state # "CS_DESTROY" /\ Uncalled'
    BY <1>6, <1>7 DEF Waits
  <2>2. Phase' = "live" /\ ~Attended' /\ ~Busy'
    BY <1>6, <2>1, LivesNext DEF Uncalled
  <2>3. Served' = conn.done
    BY <1>2, <2>2, Counted
  <2> QED
    BY <1>4, <1>5, <2>1, <2>2, <2>3, Stuttered DEF Simulates
<1>8. CASE Answers
  <2>1. conn'.wq # <<>> /\ Uncalled'
    BY <1>6, <1>8 DEF Answers
  <2>2. /\ Phase' \in {"live", "dying"} /\ Busy' /\ ~Attended'
    BY <1>6, <2>1, Accepted DEF Uncalled, Attended
  <2>3. Served' = conn.done
    BY <1>2, <2>2, Counted
  <2> QED
    BY <1>2, <1>4, <1>5, <2>2, <2>3, Began DEF Simulates
<1>9. CASE Runs
  <2>1. /\ conn'.state # "CS_DESTROY" /\ asgi' # 0
        /\ obj'[asgi'].task # "none" /\ ~obj'[asgi'].latest
    BY <1>9 DEF Runs, Messages
  <2>2. Phase' = "live" /\ Attended' /\ Busy'
    BY <1>6, <2>1, LivesNext
  <2>3. Served' = conn.done
    BY <1>2, <2>1, Counted DEF Answered
  <2> QED
    BY <1>2, <1>4, <1>5, <2>2, <2>3, Began DEF Simulates
<1> QED
  BY <1>2, <1>7, <1>8, <1>9

(* What changes neither the connection nor what the exchange reads of its  *)
(* object is no step of the exchange.                                      *)
LEMMA Idles ==
  ASSUME SInv, conn' = conn, asgi' = asgi,
         asgi # 0 => /\ obj'[asgi].task = "none" <=> obj[asgi].task = "none"
                     /\ obj'[asgi].latest = obj[asgi].latest
                     /\ obj'[asgi].future = obj[asgi].future
  PROVE  Simulates
<1>1. Phase' = Phase /\ InFlight' = InFlight
  BY DEF Phase, InFlight, Alive
<1>2. Attended' <=> Attended
  BY <1>1 DEF Attended
<1>3. Attended => (Answered' <=> Answered)
  BY DEF Attended, Answered
<1>4. Served' = Served
  BY <1>2, <1>3 DEF Served
<1>5. Busy' <=> Busy
  BY <1>1, <1>2 DEF Busy
<1> QED
  BY <1>1, <1>4, <1>5, Stuttered DEF Simulates

(* The first step and the last one. *)
LEMMA OpensMapped ==
  ASSUME SInv, SInv', connection_cb \/ close_cb PROVE Simulates
<1>1. QInv /\ TInv
  BY DEF SInv, QInv
<1>2. CASE connection_cb
  <2>1. /\ asgi = 0 /\ asgi' = 0 /\ conn = W!Fresh
        /\ conn'.uv \in {"open", "closing"} /\ conn'.wq = <<>>
        /\ conn'.done = conn.done /\ conn'.calls = conn.calls
    BY <1>1, <1>2, Connecting
  <2>2. conn.uv = "none" /\ conn.wq = <<>>
    BY <2>1, Accepting
  <2>3. ~Attended /\ ~Attended'
    BY <2>1 DEF Attended
  <2>4. Phase = "free" /\ ~Busy
    BY <1>1, <2>2, <2>3, Phasing, Flying DEF Busy, QInv
  <2>5. Phase' \in {"live", "dying"} /\ ~Busy'
    BY <2>1, <2>3, Accepted
  <2>6. Served' = Served
    BY <2>1, <2>3, Counted
  <2> QED
    BY <2>1, <2>4, <2>5, <2>6, Opened DEF Simulates
<1>3. CASE close_cb
  <2>1. /\ conn.uv = "closing" /\ conn.wq = <<>>
        /\ conn'.uv = "closed" /\ conn'.wq = <<>> /\ asgi' = 0
        /\ conn'.done = conn.done /\ conn'.calls = conn.calls
    BY <1>1, <1>3, Closing
  <2>2. conn.state = "CS_DESTROY"
    BY <2>1 DEF SInv, Dying, Alive, W!Alive
  <2>3. Phase = "dying" /\ ~Attended /\ Served = conn.done /\ ~Busy
    BY <2>1, <2>2, Died
  <2>4. Phase' = "closed" /\ ~Attended'
    BY <2>1, PhasingNext DEF Attended
  <2>5. ~Busy' /\ Served' = conn.done
    BY <2>1, <2>4, FlyingNext, Counted DEF Busy, SInv, QInv
  <2> QED
    BY <2>1, <2>3, <2>4, <2>5, Closed DEF Simulates
<1> QED
  BY <1>2, <1>3

(* A write fails, and with it the exchange. *)
LEMMA FailsMapped ==
  ASSUME SInv, SInv', NInv, WriteFailed PROVE Simulates
<1>1. /\ conn.wq # <<>> /\ conn'.wq = <<>> /\ conn'.done = conn.done
      /\ conn'.calls = conn.calls /\ conn'.state = "CS_DESTROY"
      /\ conn'.uv = conn.uv \/ (conn.uv = "open" /\ conn'.uv = "closing")
  BY FailsTo DEF SInv
<1>2. /\ conn.uv \notin {"none", "closed"}
      /\ obj[asgi].future # "pending" => obj[asgi].task = "none"
  BY <1>1, Reporters DEF SInv
<1>3. conn'.uv \notin {"none", "closed"}
  BY <1>1, <1>2
<1>4. Phase' = "dying" /\ Served' = conn.done /\ ~Busy'
  BY <1>1, <1>3, Dies
<1>5. Busy
  BY <1>1, Flying DEF Busy, SInv, QInv
<1>6. ~(Attended /\ Answered)
  BY <1>2 DEF Attended, Answered
<1>7. Served = conn.done
  BY <1>6, Counted
<1> QED
  BY <1>1, <1>4, <1>5, <1>7, Broken DEF Simulates

(* A response, or a part of it, is reported. *)
LEMMA ReportsMapped ==
  ASSUME SInv, SInv', NInv, ResponseWritten PROVE Simulates
<1> DEFINE o == obj[asgi]
<1>0. conn \in W!Conn /\ QInv /\ Writes /\ conn.done \in Nat
  BY DEF SInv, QInv, TInv, TypeOK, W!Conn
<1>1. /\ asgi' = asgi /\ obj'[asgi] = Resolved(o) /\ conn.wq # <<>>
  BY <1>0, ResponseReported
<1>2. /\ asgi \in Messages /\ asgi # 0 /\ o \in Asgi /\ ~o.told /\ ~timer
      /\ conn.uv \notin {"none", "closed"}
      /\ o.future = "pending" => o.task = "sending"
      /\ o.future # "pending" => o.task = "none"
  BY <1>0, <1>1, Reporters
<1>3. Reports(o)
  BY <1>0, ReportsTo
<1>4. /\ obj'[asgi].latest = o.latest /\ obj'[asgi].future = "none"
      /\ o.task = "sending" => obj'[asgi].task = "ready"
  BY <1>1, <1>2, Resolving
<1>5. Busy
  BY <1>0, <1>1, Flying DEF Busy
<1>6. ~(Attended /\ Answered)
  BY <1>2 DEF Attended, Answered, o
<1>7. Served = conn.done
  BY <1>6, Counted
<1> HIDE DEF o
<1>8. /\ conn'.wq = <<>> /\ conn'.calls = conn.calls
      /\ conn'.uv \notin {"none", "closed"}
  BY <1>2, <1>3 DEF Reports
<1>9. ~Alive' => conn'.state = "CS_DESTROY"
  BY <1>8 DEF SInv, Dying
<1>10. conn'.state = "CS_DESTROY" =>
         Phase' = "dying" /\ ~Busy' /\ Served' = conn'.done
  BY <1>8, Dies
<1>11. CASE o.future # "pending"
  <2>1. conn'.state = "CS_DESTROY" /\ conn'.done = conn.done
    BY <1>3, <1>9, <1>11 DEF Reports, Alive
  <2> QED
    BY <1>5, <1>7, <1>8, <1>10, <2>1, Broken DEF Simulates
<1>12. CASE o.future = "pending" /\ ~o.latest
  <2>1. Owes(asgi)
    BY <1>2, <1>12 DEF Owes, Running, o
  <2>2. Alive /\ conn.state # "CS_DESTROY"
    BY <1>2, <2>1, OwedLive DEF NInv, Doomed
  <2>3. Phase = "live"
    BY <1>2, <2>2, Lives
  <2>4. conn'.state = "CS_RESP_SEND" /\ conn'.done = conn.done
    BY <1>3, <1>12, <2>2 DEF Reports, Alive
  <2>5. Phase' = "live" /\ Attended' /\ Busy'
    BY <1>1, <1>2, <1>4, <1>8, <1>12, <2>4, LivesNext
  <2>6. Served' = Served
    BY <1>1, <1>4, <1>7, <1>12, <2>4, Counted DEF Answered
  <2> QED
    BY <1>5, <1>8, <2>3, <2>5, <2>6, Stuttered DEF Simulates
<1>13. CASE o.future = "pending" /\ o.latest
  <2>1. conn'.done = conn.done + 1
    BY <1>3, <1>13 DEF Reports
  <2>2. CASE conn'.state = "CS_DESTROY"
    BY <1>5, <1>7, <1>8, <1>10, <2>1, <2>2, Finished DEF Simulates
  <2>3. CASE conn'.state # "CS_DESTROY"
    <3>1. Phase' = "live" /\ Attended' /\ Busy'
      BY <1>1, <1>2, <1>4, <1>8, <1>13, <2>3, LivesNext
    <3>2. Answered'
      BY <1>1, <1>4, <1>13 DEF Answered
    <3>3. Served' = Served
      BY <1>0, <1>7, <2>1, <3>1, <3>2, Counted
    <3>4. Alive
      BY <1>3, <1>9, <2>3 DEF Reports, Alive, W!Alive
    <3>5. Phase = "live"
      BY <1>2, <3>4, Lives DEF NInv, Doomed
    <3> QED
      BY <1>5, <1>8, <3>1, <3>3, <3>5, Stuttered DEF Simulates
  <2> QED
    BY <2>2, <2>3
<1> QED
  BY <1>11, <1>12, <1>13

(* A call of send begins or ends no exchange, unless it fails. *)
LEMMA SendsMapped ==
  ASSUME SInv, SInv', NInv, NEW n \in Messages, asgi_send(n) PROVE Simulates
<1>0. QInv /\ TypeOK /\ obj[n] \in Asgi /\ conn.done \in Nat
  BY DEF SInv, QInv, TInv, TypeOK, W!Conn
<1>1. /\ Sends(n) /\ asgi = n /\ obj[n].task = "ready" /\ ~obj[n].told
      /\ asgi' = asgi
  BY <1>0, Sendings DEF MayCall
<1>2. /\ conn.wq = <<>> /\ conn.uv # "none" /\ ~timer /\ asgi # 0
      /\ obj[n].future = "none"
  BY <1>0, <1>1, CallerAlone DEF Asgi
<1>3. conn.uv \notin {"none", "closed"}
  BY <1>2 DEF NInv, Buried
<1>4. CASE SendStarted(n) \/ SendIgnored(n)
  <2>1. conn' = conn
    BY <1>4 DEF SendStarted, SendIgnored
  <2>2. /\ obj'[n].task = obj[n].task /\ obj'[n].latest = obj[n].latest
        /\ obj'[n].future = obj[n].future
    BY <1>0, <1>4 DEF SendStarted, SendIgnored, Like, Asgi
  <2> QED
    BY <1>1, <2>1, <2>2, Idles
<1>5. CASE SendRefused(n)
  <2>1. /\ conn'.uv = conn.uv /\ conn'.state = "CS_DESTROY"
        /\ conn'.wq = <<>> /\ conn'.done = conn.done
        /\ conn'.calls = conn.calls
    BY <1>2, <1>5 DEF SendRefused, Aside
  <2>2. Phase' = "dying" /\ ~Busy' /\ Served' = conn.done
    BY <1>3, <2>1, Dies
  <2>3. CASE conn.state = "CS_DESTROY"
    <3>1. Phase = "dying" /\ ~Busy /\ Served = conn.done
      BY <1>2, <1>3, <2>3, Died
    <3> QED
      BY <2>1, <2>2, <3>1, Stuttered DEF Simulates
  <2>4. CASE conn.state # "CS_DESTROY"
    <3>1. Attended /\ Busy
      BY <1>1, <1>2, <1>3, <2>4, Lives
    <3>2. CASE obj[n].latest
      <4>1. Answered
        BY <1>1, <1>2, <3>2 DEF Answered
      <4>2. Served' = Served + 1
        BY <1>0, <2>2, <3>1, <4>1, Counted
      <4> QED
        BY <2>1, <2>2, <3>1, <4>2, Finished DEF Simulates
    <3>3. CASE ~obj[n].latest
      <4>1. Served = conn.done
        BY <1>1, <3>3, Counted DEF Answered
      <4> QED
        BY <2>1, <2>2, <3>1, <4>1, Broken DEF Simulates
    <3> QED
      BY <3>2, <3>3
  <2> QED
    BY <2>3, <2>4
<1>6. CASE SendSkipped(n) \/ SendWritten(n)
  <2>1. ~obj[n].latest
    BY <1>6 DEF SendSkipped, SendWritten
  <2>2. Owes(n)
    BY <1>1, <2>1 DEF Owes, Running
  <2>3. conn.state # "CS_DESTROY"
    BY <2>2, OwedLive DEF NInv, Doomed
  <2>4. Phase = "live" /\ Attended /\ Busy
    BY <1>1, <1>2, <1>3, <2>3, Lives
  <2>5. Served = conn.done
    BY <1>1, <2>1, Counted DEF Answered
  <2>6. /\ conn'.uv = conn.uv /\ conn'.done = conn.done
        /\ conn'.calls = conn.calls
        /\ conn'.state \in {"CS_RESP_BILD", "CS_RESP_SEND"}
    BY <1>6 DEF SendSkipped, SendWritten, Aside
  <2>7. obj'[n].task # "none" /\ ~(obj'[n].latest /\ obj'[n].future = "none")
    <3>1. CASE SendSkipped(n)
      <4>1. Like(obj'[n], [obj[n] EXCEPT !.bodies = TRUE, !.latest = FALSE])
        BY <3>1 DEF SendSkipped
      <4> QED
        BY <1>0, <1>1, <4>1 DEF Like, Asgi
    <3>2. CASE SendWritten(n)
      <4>1. PICK more \in BOOLEAN :
              Like(obj'[n],
                   [obj[n] EXCEPT !.bodies = TRUE, !.latest = ~more,
                                  !.start = "none", !.future = "pending",
                                  !.task = "sending"])
        BY <3>2 DEF SendWritten
      <4> QED
        BY <1>0, <4>1 DEF Like, Asgi
    <3> QED
      BY <1>6, <3>1, <3>2
  <2>8. Phase' = "live" /\ Attended' /\ Busy'
    BY <1>1, <1>2, <1>3, <2>6, <2>7, LivesNext
  <2>9. Served' = conn.done
    BY <1>1, <2>6, <2>7, Counted DEF Answered
  <2> QED
    BY <2>4, <2>5, <2>6, <2>8, <2>9, Stuttered DEF Simulates
<1> QED
  BY <1>1, <1>4, <1>5, <1>6 DEF Sends

(* The callback of a task ends the exchange of its object. *)
LEMMA DoneMapped ==
  ASSUME SInv, SInv', NInv, "stops" \notin habits,
         NEW n \in Messages, asgi_done(n)
  PROVE  Simulates
<1>0. /\ QInv /\ TypeOK /\ conn \in W!Conn /\ conn.done \in Nat
      /\ asgi \in Messages \cup {0} /\ obj[n] \in Asgi
  BY DEF SInv, QInv, TInv, TypeOK, W!Conn
<1>1. /\ obj[n].task = "ended"
      /\ \A m \in Messages : m # n => obj'[m] = obj[m]
      /\ asgi # n => conn' = conn /\ asgi' = asgi
  BY <1>0, GoesAway
<1>2. CASE asgi # n
  BY <1>0, <1>1, <1>2, Idles
<1>3. CASE asgi = n
  <2>1. /\ asgi' = 0 /\ Data(conn', conn) /\ conn'.wq = <<>> /\ conn.wq = <<>>
        /\ conn.uv \notin {"none", "closed"}
        /\ conn'.uv \notin {"none", "closed"}
        /\ obj[n].raised \/ conn.state = "CS_DESTROY" =>
             conn'.state = "CS_DESTROY"
        /\ obj[n].future = "none"
    BY <1>0, <1>3, HandsOver DEF Asgi
  <2>2. conn'.done = conn.done /\ conn'.calls = conn.calls
    BY <2>1 DEF Data
  <2>3. ~Attended' /\ Phase' \in {"live", "dying"} /\ ~Busy'
    BY <2>1, Accepted DEF Attended
  <2>4. Served' = conn.done
    BY <2>2, <2>3, Counted
  <2>5. conn'.state = "CS_DESTROY" => Phase' = "dying"
    BY <2>1, Dies
  <2>6. CASE conn.state = "CS_DESTROY"
    <3>1. Phase = "dying" /\ ~Busy /\ Served = conn.done
      BY <2>1, <2>6, Died
    <3> QED
      BY <2>1, <2>2, <2>3, <2>4, <2>5, <2>6, <3>1, Stuttered DEF Simulates
  <2>7. CASE conn.state # "CS_DESTROY"
    <3>1. Phase = "live" /\ Attended /\ Busy
      BY <1>1, <1>3, <2>1, <2>7, Lives DEF Messages
    <3>2. CASE obj[n].latest
      <4>1. Answered
        BY <1>3, <2>1, <3>2 DEF Answered
      <4>2. Served' = Served + 1
        BY <1>0, <2>4, <3>1, <4>1, Counted
      <4>3. Phase' \in {Phase, "dying"}
        BY <2>3, <3>1
      <4> QED
        BY <2>2, <2>3, <3>1, <4>2, <4>3, Finished DEF Simulates
    <3>3. CASE ~obj[n].latest
      <4>1. ~obj[n].told
        BY <1>3, <2>7 DEF NInv, Told, Messages
      <4>2. obj[n].raised
        BY <1>1, <3>3, <4>1 DEF NInv, Ended
      <4>3. Served = conn.done
        BY <1>3, <3>3, Counted DEF Answered
      <4> QED
        BY <2>1, <2>2, <2>3, <2>4, <2>5, <3>1, <4>2, <4>3, Broken
           DEF Simulates
    <3> QED
      BY <3>2, <3>3
  <2> QED
    BY <2>6, <2>7
<1> QED
  BY <1>2, <1>3

(* A step of a coroutine on its object is no step of the exchange. *)
LEMMA ActsMapped ==
  ASSUME SInv, NEW n \in Messages, Acts(n) PROVE Simulates
<1>1. asgi \in Messages \cup {0}
  BY DEF SInv, QInv, TInv, TypeOK
<1>2. /\ conn' = conn /\ asgi' = asgi
      /\ obj[n].task # "none" /\ obj'[n].task # "none"
      /\ obj'[n].latest = obj[n].latest /\ obj'[n].future = obj[n].future
      /\ \A m \in Messages : m # n => obj'[m] = obj[m]
  BY DEF Acts
<1> QED
  BY <1>1, <1>2, Idles

(* Every step of a plain application is one of HttpExchange. *)
LEMMA Simulated ==
  ASSUME SInv, SInv', NInv, habits = {}, [Next]_vars PROVE Simulates
<1>1. CASE UNCHANGED vars
  BY <1>1, Idles DEF vars
<1>2. CASE Next
  <2>1. Steps
    BY <1>2, Stepping DEF SInv
  <2>2. CASE WaitStep
    BY <2>2, Idles DEF WaitStep
  <2>3. ASSUME NEW n \in Messages, Acts(n) \/ asgi_send(n) \/ asgi_done(n)
        PROVE  Simulates
    BY <2>3, ActsMapped, SendsMapped, DoneMapped
  <2> QED
    BY <2>1, <2>2, <2>3, EndsMapped, ParsesMapped, ReportsMapped,
       FailsMapped, OpensMapped DEF Steps
<1> QED
  BY <1>1, <1>2

(* A step of a plain application is one of HttpExchange. *)
LEMMA PlainStep ==
  KInv /\ KInv' /\ habits = {} /\ [Next]_vars => [X!Next]_(X!vars)
<1> SUFFICES ASSUME KInv, KInv', habits = {}, [Next]_vars
             PROVE  [X!Next]_(X!vars)
  OBVIOUS
<1>1. habits' = habits
  BY HabitsStay
<1>2. SInv /\ SInv' /\ NInv
  BY <1>1 DEF KInv, IInv
<1> QED
  BY <1>2, Simulated DEF Simulates

(* With a plain application every step is a step of HttpExchange: one      *)
(* exchange at a time, each finished, or the connection ends, for any      *)
(* number of messages and sends (read_cb, asgi_send, write_cb, asgi_done,  *)
(* shutdown_connection, close_cb).                                         *)
THEOREM PlainExchanges == Spec => KeepsExchanges
<1>1. KInv /\ KInv' /\ [Next]_vars => [habits = {} => [X!Next]_(X!vars)]_vars
  BY PlainStep
<1> QED
  BY <1>1, Listening, PTL DEF Spec, KeepsExchanges

(* A server with a plain application implements HttpExchange, from the     *)
(* slot that is free and has served nothing (connection_cb) to the one     *)
(* that is closed (close_cb).                                              *)
THEOREM ImplementsExchange == Spec /\ habits = {} => X!Spec
<1>1. Init /\ habits = {} => X!Init
  <2> SUFFICES ASSUME Init, habits = {} PROVE X!Init
    OBVIOUS
  <2>1. SInv
    BY Initial DEF IInv
  <2>2. /\ conn.uv = "none" /\ conn.wq = <<>> /\ asgi = 0
        /\ conn.done = 0 /\ conn.calls = 0
    BY Accepting DEF Init
  <2>3. Phase = "free" /\ ~Attended
    BY <2>1, <2>2, Phasing DEF Attended
  <2>4. InFlight = {} /\ ~Busy
    BY <2>1, <2>2, <2>3, Flying DEF SInv, QInv, Busy
  <2>5. Served = 0
    BY <2>2, <2>3, Counted
  <2> QED
    BY <2>2, <2>3, <2>4, <2>5 DEF X!Init, Busy, Served
<1>2. habits = {} /\ [Next]_vars => (habits = {})'
  BY HabitsStay
<1> QED
  BY <1>1, <1>2, PlainStep, Listening, PTL DEF Spec, X!Spec

=============================================================================
