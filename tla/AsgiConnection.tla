--------------------------- MODULE AsgiConnection ---------------------------
(***************************************************************************)
(* A connection of a fastpysgi server that runs an ASGI application: the   *)
(* asgi_t objects of asgi.c, the coroutines that call receive and send on  *)
(* them, and the ASGI branches of server.c.  What a connection does with   *)
(* the socket and the parser is the same as for WSGI and is taken from     *)
(* WsgiConnection.                                                         *)
(*                                                                         *)
(* libuv and asyncio run in one thread, so each callback, and each step of *)
(* a coroutine from one await to the next call, is atomic.  A result set   *)
(* by a delayed call is seen by the coroutine when it runs next, which is  *)
(* later than the callback that scheduled it in any case.                  *)
(***************************************************************************)
EXTENDS Integers, Sequences

CONSTANTS
  MaxTokens,        (* bound: pieces of request data the peer sends         *)
  MaxRead,          (* bound: pieces one read from the socket returns       *)
  MaxSends,         (* bound: calls of send() by one coroutine              *)
  AllowKeepalive,   (* g_srv.allow_keepalive                                *)
  ReadReqTimeout,   (* is g_srv.read_req_timeout configured?                *)
  CurrReqTimeout,   (* is g_srv.curr_req_timeout configured?                *)
  NextReqTimeout,   (* is g_srv.next_req_timeout configured?                *)
  PeerTokens,       (* the pieces of request data that the peer sends       *)
  Habits            (* the sets of habits a run may have                    *)

(* What applications and peers may do beyond a plain exchange.  Every      *)
(* application here awaits each send() and ends when one has failed.       *)
Habit == {"stops",      \* returns, or waits for ever, before the last chunk
          "empty",      \* streams a body that is, or must be, empty
          "expect"}     \* the peer sends Expect: 100-continue

ASSUME BoundsAssumption ==
  MaxTokens \in Nat /\ MaxRead \in Nat /\ MaxSends \in Nat
ASSUME SettingsAssumption ==
  /\ AllowKeepalive \in BOOLEAN /\ ReadReqTimeout \in BOOLEAN
  /\ CurrReqTimeout \in BOOLEAN /\ NextReqTimeout \in BOOLEAN
ASSUME HabitsAssumption == Habits \subseteq SUBSET Habit

VARIABLES
  conn,     (* the client_t, as in WsgiConnection                           *)
  asgi,     (* client->asgi: the number of the message, 0 for NULL          *)
  timer,    (* client->read_timer is armed                                  *)
  obj,      (* obj[n]: the asgi_t of the n-th message, and its coroutine    *)
  frame,    (* history: how far the latest response is, on the wire         *)
  habits    (* of the application and the peer; constant                    *)

vars == <<conn, asgi, timer, obj, frame, habits>>

W == INSTANCE WsgiConnection WITH
       Clients <- {1}, NoClient <- 0, MaxBody <- 1, ShortBodies <- FALSE,
       RaisingBodies <- FALSE, CloselessBodies <- FALSE,
       conn <- [c \in {1} |-> conn], pyerr <- 0

ASSUME PeersAssumption == PeerTokens \subseteq W!Token

-----------------------------------------------------------------------------
(* asgi_t and the coroutine that runs with it.                             *)

Messages == 1 .. MaxTokens

Asgi ==
  [task     : {"none",      \* asgi_call_app has not run, or has failed
               "ready",     \* between two awaits
               "sending",   \* awaits the future that send() returned
               "waiting",   \* awaits a second receive()
               "ended",     \* asgi_done is scheduled
               "gone"},
   future   : {"none", "pending"},      \* send.future
   status   : {"unset", "bad", "set"},                   \* send.status
   start    : {"none", "body", "nobody", "unnamed"},     \* send.start_response
   bodies   : BOOLEAN,       \* send.num_body > 0
   latest   : BOOLEAN,       \* send.latest_chunk
   received : BOOLEAN,       \* recv.completed
   refs     : Int,           \* ob_refcnt
   (* history *)
   sends    : 0 .. MaxSends,
   told     : BOOLEAN,       \* a send has raised in the coroutine
   raised   : BOOLEAN]       \* the coroutine ended with an exception

(* Mutant: the memory of the object is not cleared. *)
create_asgi_NotZeroed ==
  [task |-> "none", future |-> "none", status |-> "garbage", start |-> "none",
   bodies |-> FALSE, latest |-> FALSE, received |-> FALSE, refs |-> 1,
   sends |-> 0, told |-> FALSE, raised |-> FALSE]

create_asgi ==
  [task |-> "none", future |-> "none", status |-> "unset", start |-> "none",
   bodies |-> FALSE, latest |-> FALSE, received |-> FALSE, refs |-> 1,
   sends |-> 0, told |-> FALSE, raised |-> FALSE]

(* The memory of an asgi_t that does not exist yet.                        *)
Unborn == [create_asgi EXCEPT !.refs = 0]

(* asgi_free: the connection gives up its object, if it has one.           *)
asgi_free ==
  [n \in Messages |->
     IF n = asgi THEN [obj[n] EXCEPT !.refs = @ - 1] ELSE obj[n]]

(* The scope of a task that may still call into its object.                *)
Running(n) == obj[n].task \in {"ready", "sending", "waiting"}

(* Who refers to an object besides the connection: the bound methods       *)
(* receive and send in the coroutine, and done in the task.                *)
Holders(n) == CASE Running(n) -> 3
                [] obj[n].task = "ended" -> 1
                [] OTHER -> 0

-----------------------------------------------------------------------------
(* Reading.                                                                *)

(* Every reply of the WSGI path that can still be reached here.            *)
NoReply == [kind |-> "fail", pre |-> 0, total |-> 0]
NoChunk == [kind |-> "end", size |-> 0]

Completes(k, e) == ~W!ParseFails(k, e) /\ k.buf[e] \in {"end", "endClose"}

(* Mutant: the socket is read on while the coroutine runs. *)
asgi_call_app_KeepsReading(k, ok) ==
  IF ok THEN [k EXCEPT !.state = "CS_RESP_BILD", !.calls = @ + 1]
        ELSE W!ReadFin([k EXCEPT !.calls = @ + 1], "400", "CA_OK", FALSE)

(* A task is created and reading stops, or the application cannot be       *)
(* called: the negative error code is answered with 400.                   *)
asgi_call_app(k, ok) ==
  IF ok THEN W!stream_read_stop(
               [k EXCEPT !.state = "CS_RESP_BILD", !.calls = @ + 1])
        ELSE W!ReadFin([k EXCEPT !.calls = @ + 1], "400", "CA_OK", FALSE)

(* The client_t after read_cb from `parsing:` on. *)
Parsed(k, e, ok) ==
  IF Completes(k, e)
  THEN asgi_call_app(
         W!Paused(W!on_message_complete(W!Feed(k, e), e), e), ok)
  ELSE W!Parse(k, e, NoReply, FALSE)

(* on_message_begin replaces the object; a complete message runs it.       *)
Begins(k) == k.parser = "idle"
Called(k, e, ok) ==
  LET n == k.asked + 1
      o == IF Begins(k) THEN [asgi_free EXCEPT ![n] = create_asgi] ELSE obj
  IN /\ asgi' = IF Begins(k) THEN n ELSE asgi
     /\ obj' = IF Completes(k, e) /\ ok
               THEN [o EXCEPT ![n].task = "ready", ![n].refs = @ + 3]
               ELSE o

(* What one read may return in this run. *)
PeerData ==
  {toks \in W!PeerData(conn) :
     \A i \in 1 .. Len(toks) : toks[i] = "expect" => "expect" \in habits}

connection_cb ==
  /\ conn.uv = "none"
  /\ \/ conn' = [W!Fresh EXCEPT !.uv = "open", !.state = "CS_REQ_READ",
                                !.reading = TRUE, !.reqT = TRUE]
     \/ conn' = [W!Fresh EXCEPT !.uv = "closing", !.state = "CS_DESTROY"]
  /\ UNCHANGED <<asgi, timer, obj, frame, habits>>

read_cb ==
  /\ conn.uv = "open" /\ conn.reading
  /\ \E toks \in PeerData :
       LET k == W!alloc_cb(conn, toks)
       IN IF conn.rx = "RXS_FREEZED"
          THEN /\ conn' = W!TakeAction(conn, "CA_SHUTDOWN")
               /\ UNCHANGED <<asgi, obj>>
          ELSE \E e \in 1 .. Len(toks), ok \in BOOLEAN :
                 /\ W!EndsAt(k, e)
                 /\ ok \/ Completes(k, e)
                 /\ conn' = Parsed(k, e, ok)
                 /\ Called(k, e, ok)
  /\ UNCHANGED <<timer, frame, habits>>

(* read_cb with UV_EOF or an error. *)
PeerCloses ==
  /\ conn.uv = "open" /\ conn.reading
  /\ conn' = W!TakeAction(conn, "CA_CLOSE")
  /\ UNCHANGED <<asgi, timer, obj, frame, habits>>

(* The rest of a frozen buffer, from write_cb or from the read timer.      *)
read_rxbuf_after_send(k, drained) ==
  \E e \in 1 .. Len(k.buf), ok \in BOOLEAN :
    /\ W!EndsAt(k, e)
    /\ ok \/ Completes(k, e)
    /\ conn' = IF drained THEN W!Drain(Parsed(k, e, ok)) ELSE Parsed(k, e, ok)
    /\ Called(k, e, ok)

(* Mutant: the frozen buffer is not parsed. *)
read_timer_cb_DestroyOnly ==
  /\ timer /\ conn.uv # "closed"
  /\ timer' = FALSE
  /\ conn' = IF conn.state = "CS_DESTROY"
             THEN W!shutdown_connection(W!stream_read_stop(conn)) ELSE conn
  /\ UNCHANGED <<asgi, obj, frame, habits>>

read_timer_cb ==
  /\ timer /\ conn.uv # "closed"
  /\ timer' = FALSE
  /\ CASE conn.state = "CS_DESTROY" ->
            /\ conn' = W!shutdown_connection(W!stream_read_stop(conn))
            /\ UNCHANGED <<asgi, obj>>
       [] conn.state # "CS_DESTROY" /\ conn.rx = "RXS_FREEZED" ->
            read_rxbuf_after_send(conn, FALSE)
       [] OTHER -> UNCHANGED <<conn, asgi, obj>>
  /\ UNCHANGED <<frame, habits>>

-----------------------------------------------------------------------------
(* The coroutine.                                                          *)

(* It may call into its object while the connection is there, and ends     *)
(* when a send has failed.                                                 *)
MayCall(n) == obj[n].task = "ready" /\ asgi = n /\ ~obj[n].told

SetObj(n, o) == obj' = [obj EXCEPT ![n] = o]

(* The first receive() gets the whole request body; a later one returns a  *)
(* future that nothing resolves.                                           *)
asgi_receive(n) ==
  /\ MayCall(n)
  /\ IF ~obj[n].received
     THEN SetObj(n, [obj[n] EXCEPT !.received = TRUE])
     ELSE /\ "stops" \in habits
          /\ SetObj(n, [obj[n] EXCEPT !.task = "waiting"])
  /\ UNCHANGED <<conn, asgi, timer, frame, habits>>

(* The error exit of asgi_send: RuntimeError in the coroutine. *)
SendFails(n, k, o) ==
  /\ conn' = [k EXCEPT !.state = "CS_DESTROY"]
  /\ timer' = TRUE
  /\ SetObj(n, [o EXCEPT !.told = TRUE])
  /\ UNCHANGED frame

Sending(n) == [obj[n] EXCEPT !.sends = @ + 1]

(* send() returns the object itself, without a reference of its own: the   *)
(* caller drops one that it was never given.                               *)
ReturnsSelf(o) == [o EXCEPT !.refs = @ - 1]

(* http.response.start; kind is what its status allows, and "bad" if the   *)
(* status or the headers are not valid.                                    *)
SendStart(n, kind) ==
  /\ obj[n].status = "unset"
  /\ IF kind = "bad"
     THEN SendFails(n, conn, [Sending(n) EXCEPT !.status = "bad"])
     ELSE /\ SetObj(n, ReturnsSelf([Sending(n) EXCEPT !.status = "set",
                                                      !.start = kind]))
          /\ UNCHANGED <<conn, timer, frame>>

(* An event of an unknown type, or out of order. *)
SendUnknown(n) == SendFails(n, conn, Sending(n))

(* The response after one more chunk: its first and only one, the first of *)
(* several, or a later one.                                                *)
AddChunk(k, first, size, more) ==
  LET b == CASE first /\ ~more -> [k EXCEPT !.pre = size, !.total = size]
             [] first /\ more  -> [k EXCEPT !.chunked = 1]
             [] OTHER          -> k
      c == IF b.chunked # 0 THEN [b EXCEPT !.pre = @ + size] ELSE b
  IN IF b.chunked # 0 /\ ~more THEN [c EXCEPT !.chunked = 2] ELSE c

(* Mutant: a response whose status allows no body keeps the body. *)
asgi_build_response_KeepsBody(k, start) == k

(* build_response with the headers of start: no body for HEAD, 204, 304.   *)
asgi_build_response(k, start) ==
  IF start = "nobody" THEN W!reset_response_body(k) ELSE k

(* What the write makes of the response on the wire.  A head that announces*)
(* chunks is followed by the size of the first one, which may be 0; only   *)
(* "0 CRLF CRLF", or the footer of a last chunk with data, ends the body.  *)
Framed(k, head) ==
  IF head = "nobody" /\ k.pre > 0 THEN "broken"
  ELSE CASE head # "none" /\ k.chunked = 0 -> "over"
         [] head = "none" /\ k.chunked = 0 ->
              IF k.pre > 0 THEN "broken" ELSE frame
         [] head = "body" /\ k.chunked = 2 /\ k.pre = 0 -> "broken"
         [] OTHER -> IF k.chunked = 2 THEN "over" ELSE "open"

(* http.response.body that is written, or refused by build_response or     *)
(* uv_write.                                                               *)
WriteBody(n, k, o) ==
  LET unstarted == o.start # "none"
      b == IF unstarted THEN asgi_build_response(k, o.start) ELSE k
      w == IF unstarted THEN W!WriteHead(b, "200") ELSE W!stream_write(b)
      p == [o EXCEPT !.start = "none"]
  IN IF o.start = "unnamed"
     THEN SendFails(n, W!reset_response_body(k), p)
     ELSE IF ~W!Writable(b)
          THEN SendFails(n, w, p)
          ELSE /\ conn' = w
               /\ frame' = Framed(b, o.start)
               /\ SetObj(n, [p EXCEPT !.future = "pending",
                                      !.task = "sending"])
               /\ UNCHANGED timer

(* Mutant: the last chunk is not remembered. *)
SendBody_ForgetsLatest(n, size, more) ==
  LET o == [Sending(n) EXCEPT !.bodies = TRUE, !.latest = FALSE]
      k == AddChunk([conn EXCEPT !.state = "CS_RESP_BILD"],
                    ~obj[n].bodies, size, more)
  IN /\ obj[n].status # "unset"
     /\ IF obj[n].latest
        THEN SetObj(n, ReturnsSelf(Sending(n))) /\ UNCHANGED <<conn, timer, frame>>
        ELSE IF k.chunked # 0 /\ size = 0 /\ more
             THEN /\ SetObj(n, ReturnsSelf(o)) /\ conn' = k
                  /\ UNCHANGED <<timer, frame>>
             ELSE WriteBody(n, k, o)

(* http.response.body: ignored after the last chunk; an empty chunk that   *)
(* is not the last one is skipped.                                         *)
SendBody(n, size, more) ==
  LET o == [Sending(n) EXCEPT !.bodies = TRUE, !.latest = ~more]
      k == AddChunk([conn EXCEPT !.state = "CS_RESP_BILD"],
                    ~obj[n].bodies, size, more)
  IN /\ obj[n].status # "unset"
     /\ IF obj[n].latest
        THEN SetObj(n, ReturnsSelf(Sending(n))) /\ UNCHANGED <<conn, timer, frame>>
        ELSE IF k.chunked # 0 /\ size = 0 /\ more
             THEN /\ SetObj(n, ReturnsSelf(o)) /\ conn' = k
                  /\ UNCHANGED <<timer, frame>>
             ELSE WriteBody(n, k, o)

(* A body that is not bytes. *)
SendNotBytes(n) ==
  /\ obj[n].status # "unset" /\ ~obj[n].latest
  /\ SendFails(n, conn, [Sending(n) EXCEPT !.bodies = TRUE])

(* A response is streamed for its body: one that has a byte, and may have. *)
Streams(n, size, more) ==
  "empty" \notin habits =>
    CASE obj[n].start = "nobody" -> ~more
      [] obj[n].start = "body"   -> size = 0 /\ ~more => ~obj[n].bodies
      [] OTHER                   -> TRUE

asgi_send(n) ==
  /\ MayCall(n) /\ obj[n].sends < MaxSends
  /\ \/ \E kind \in {"body", "nobody", "unnamed", "bad"} : SendStart(n, kind)
     \/ SendUnknown(n)
     \/ \E size \in 0 .. 1, more \in BOOLEAN :
          Streams(n, size, more) /\ SendBody(n, size, more)
     \/ SendNotBytes(n)
  /\ UNCHANGED <<asgi, habits>>

(* A timeout of the application cancels its second receive(). *)
GiveUp(n) ==
  /\ obj[n].task = "waiting"
  /\ SetObj(n, [obj[n] EXCEPT !.task = "ready"])
  /\ UNCHANGED <<conn, asgi, timer, frame, habits>>

(* The coroutine returns or raises; its frame drops receive and send.      *)
AppEnds(n) ==
  /\ obj[n].task = "ready"
  /\ \E raises \in BOOLEAN :
       /\ raises \/ obj[n].latest \/ obj[n].told \/ "stops" \in habits
       /\ SetObj(n, [obj[n] EXCEPT !.task = "ended", !.raised = raises,
                                   !.refs = @ - 2])
  /\ UNCHANGED <<conn, asgi, timer, frame, habits>>

(* The task drops its callback; nobody calls into the object any more.     *)
Gone(o) == [create_asgi EXCEPT !.task = "gone", !.refs = o.refs - 1]

(* Mutant: an exception is ignored. *)
Done_IgnoresError(k, raised) ==
  LET later == k.rx = "RXS_FREEZED" \/ k.state = "CS_DESTROY"
  IN [conn |-> IF later THEN k ELSE W!stream_read_start(k),
      timer |-> timer \/ later]

(* What asgi_done makes of the client_t: an exception dooms it, and the    *)
(* read timer takes over when it is doomed or its buffer frozen.           *)
Done(k, raised) ==
  LET d == IF raised THEN [k EXCEPT !.state = "CS_DESTROY"] ELSE k
      later == d.rx = "RXS_FREEZED" \/ d.state = "CS_DESTROY"
  IN [conn |-> IF later THEN d ELSE W!stream_read_start(d),
      timer |-> timer \/ later]

(* The task is done: the connection gives up the object, without releasing *)
(* the reference, and goes on with the next request.                       *)
asgi_done(n) ==
  /\ obj[n].task = "ended"
  /\ SetObj(n, Gone(obj[n]))
  /\ IF asgi = n
     THEN /\ asgi' = 0
          /\ conn' = Done(conn, obj[n].raised).conn
          /\ timer' = Done(conn, obj[n].raised).timer
     ELSE UNCHANGED <<conn, asgi, timer>>
  /\ UNCHANGED <<frame, habits>>

-----------------------------------------------------------------------------
(* Completion of writes, and the end of the connection.                    *)

Reported == [conn EXCEPT !.wq = Tail(@)]

(* asgi_exec_send_future; its error is that there is no future.            *)
Resolved(o) == [o EXCEPT !.future = "none",
                         !.task = IF @ = "sending" THEN "ready" ELSE @]

(* Mutant: the state is not set back while more chunks are to come. *)
AsgiWritten_NotSending(k, o) ==
  LET b == [W!Sent(k) EXCEPT !.state = "CS_RESP_BILD"]
      d == [b EXCEPT !.lastT = TRUE, !.state = "CS_RESP_END", !.done = @ + 1]
  IN CASE o.future # "pending" -> W!close_connection(b)
       [] o.future = "pending" /\ ~o.latest -> W!stream_read_start(b)
       [] OTHER -> IF W!Persistent(k) THEN W!reset_response_body(d)
                                      ELSE W!close_connection(d)

(* write_cb with status 0 while the exchange is open: the send is          *)
(* answered, and after the last chunk the response is complete.            *)
AsgiWritten(k, o) ==
  LET b == [W!Sent(k) EXCEPT !.state = "CS_RESP_BILD",
                             !.lastT = @ \/ W!LastWritten(W!Sent(k))]
      d == [b EXCEPT !.lastT = TRUE, !.state = "CS_RESP_END", !.done = @ + 1]
  IN CASE o.future # "pending" -> W!close_connection(b)
       [] o.future = "pending" /\ ~o.latest ->
            [b EXCEPT !.state = "CS_RESP_SEND"]
       [] OTHER -> IF W!Persistent(k) THEN W!reset_response_body(d)
                                      ELSE W!close_connection(d)

(* write_cb after asgi_done has run: there is no iterator to ask, so a     *)
(* chunked response is ended and any other is complete.                    *)
ResponseWritten ==
  /\ conn.wq # <<>> /\ Head(conn.wq) = "resp"
  /\ LET k == Reported
         s == W!Sent(k)
         resumes == asgi = 0 /\ W!Resumes(k) /\ k.chunked # 1
     IN /\ CASE asgi # 0 ->
                  /\ conn' = W!Drain(AsgiWritten(k, obj[asgi]))
                  /\ SetObj(asgi, Resolved(obj[asgi]))
                  /\ UNCHANGED asgi
             [] resumes ->
                  read_rxbuf_after_send(
                    [W!reset_response_body(s) EXCEPT
                       !.state = "CS_RESP_END", !.lastT = TRUE,
                       !.done = @ + 1], TRUE)
             [] OTHER ->
                  /\ conn' = W!Drain(W!write_cb(k, NoChunk, 0, NoReply, FALSE))
                  /\ UNCHANGED <<asgi, obj>>
        /\ frame' = IF asgi = 0 /\ k.chunked = 1 THEN "over" ELSE frame
  /\ UNCHANGED <<timer, habits>>

(* write_cb with an error: the send, if one is awaited, raises.            *)
WriteFailed ==
  /\ conn.wq # <<>> /\ Head(conn.wq) = "resp"
  /\ conn' = W!close_connection([Reported EXCEPT !.pre = 0])
  /\ IF asgi = 0
     THEN UNCHANGED obj
     ELSE SetObj(asgi, [Resolved(obj[asgi]) EXCEPT
                          !.told = @ \/ obj[asgi].future = "pending"])
  /\ UNCHANGED <<asgi, timer, frame, habits>>

(* x_write_cb. *)
StatusWritten ==
  /\ conn.wq # <<>> /\ Head(conn.wq) = "status"
  /\ conn' \in {W!Drain(W!stream_read_start(Reported)),
                W!close_connection(Reported)}
  /\ UNCHANGED <<asgi, timer, obj, frame, habits>>

shutdown_cb ==
  /\ conn.uv = "open" /\ conn.shut /\ conn.wq = <<>>
  /\ conn' = W!close_connection(conn)
  /\ UNCHANGED <<asgi, timer, obj, frame, habits>>

close_cb ==
  /\ conn.uv = "closing" /\ conn.wq = <<>>
  /\ conn' = [W!reset_response_body(conn) EXCEPT
                !.uv = "closed", !.rx = "RXS_RESTING", !.reading = FALSE]
  /\ obj' = asgi_free
  /\ asgi' = 0
  /\ timer' = FALSE
  /\ UNCHANGED <<frame, habits>>

client_aux_check ==
  /\ conn.uv = "open" /\ W!Overdue(conn)
  /\ conn' = W!shutdown_connection(W!stream_read_stop(conn))
  /\ UNCHANGED <<asgi, timer, obj, frame, habits>>

-----------------------------------------------------------------------------
AppStep(n) == asgi_receive(n) \/ asgi_send(n) \/ GiveUp(n) \/ AppEnds(n)
WriteReported == StatusWritten \/ ResponseWritten \/ WriteFailed

Init ==
  /\ conn = W!Fresh
  /\ asgi = 0
  /\ timer = FALSE
  /\ obj = [n \in Messages |-> Unborn]
  /\ frame = "none"
  /\ habits \in Habits

Next ==
  \/ connection_cb \/ read_cb \/ PeerCloses \/ read_timer_cb
  \/ \E n \in Messages : asgi_receive(n) \/ asgi_send(n) \/ GiveUp(n)
                           \/ AppEnds(n) \/ asgi_done(n)
  \/ ResponseWritten \/ WriteFailed \/ StatusWritten
  \/ shutdown_cb \/ close_cb \/ client_aux_check

Spec == Init /\ [][Next]_vars

(* libuv and asyncio run on, and no coroutine computes for ever. *)
Fairness ==
  /\ WF_vars(WriteReported) /\ WF_vars(shutdown_cb) /\ WF_vars(close_cb)
  /\ WF_vars(client_aux_check) /\ WF_vars(read_timer_cb)
  /\ \A n \in Messages :
       WF_vars(asgi_receive(n) \/ asgi_send(n) \/ AppEnds(n))
       /\ WF_vars(asgi_done(n))

FairSpec == Spec /\ Fairness

-----------------------------------------------------------------------------
(* Properties.                                                             *)

(* client_t, asgi_t and the read timer keep the shape of their C           *)
(* declarations (server.h, asgi.h).                                        *)
TypeOK ==
  /\ conn \in W!Conn
  /\ asgi \in Messages \cup {0}
  /\ timer \in BOOLEAN
  /\ obj \in [Messages -> Asgi]
  /\ frame \in {"none", "open", "over", "broken"}
  /\ habits \in Habits

InFlight == {i \in 1 .. Len(conn.wq) : conn.wq[i] = "resp"}
Alive == W!Alive(conn)

(* send() sets CS_RESP_BILD before it calls stream_write, so the check of  *)
(* CS_RESP_SEND there protects nothing (asgi.c:710, server.c:360); for an  *)
(* application that awaits each send and ends when one fails, the one      *)
(* write_req is nevertheless not handed to uv_write while libuv owns it.   *)
(* Not so behind a 100-continue: its completion starts reading under the   *)
(* coroutine (server.c:169), and the read timer of a send that failed      *)
(* (asgi.c:826) then parses a buffer frozen by the next requests while the *)
(* first of them is being answered.                                        *)
OneWriteInFlight ==
  "expect" \notin habits => \A i, j \in InFlight : i = j

(* A coroutine that awaits a send waits for a write that libuv will        *)
(* report, and for the future that write_cb resolves (asgi.c:800-811,      *)
(* server.c:299-318): none is forgotten.                                   *)
AwaitedSendIsUnderWay ==
  "expect" \notin habits =>
    \A n \in Messages :
      obj[n].task = "sending" =>
        asgi = n /\ obj[n].future = "pending" /\ InFlight # {}

(* A coroutine that owes a part of its response, and has seen no send      *)
(* fail, still has its connection: no timeout, no end of the peer and no   *)
(* pipelined request frees the client_t that receive and send follow       *)
(* without a check (asgi.c:625, 680).                                      *)
NeverOrphanedUntold ==
  habits \subseteq {"stops"} =>
    \A n \in Messages :
      Running(n) /\ ~obj[n].told /\ ~obj[n].latest => asgi = n

(* What was written when a response counts as complete is one whole HTTP   *)
(* message, streamed or not, and whatever the status allows                *)
(* (asgi.c:745-799, request.c:1043).                                       *)
FramedWhole ==
  [][habits \subseteq {"stops"} =>
       (conn'.done # conn.done => frame' = "over")]_vars

(* A live connection without a coroutine, a write or the read timer        *)
(* listens: neither asgi_done nor write_cb leaves it to itself.  After     *)
(* plain exchanges one of the times that client_aux_check compares is set. *)
NeverStuck ==
  "stops" \notin habits =>
    (Alive /\ InFlight = {} /\ ~timer /\ (asgi = 0 \/ obj[asgi].task = "none")
       => conn.reading /\ (habits = {} => conn.reqT \/ conn.lastT))

(* Where the connection is in an HttpExchange.  It ends from the moment    *)
(* its state is CS_DESTROY; an exchange lasts until asgi_done.             *)
Phase ==
  CASE conn.uv = "none"   -> "free"
    [] conn.uv = "closed" -> "closed"
    [] Alive /\ conn.state # "CS_DESTROY" -> "live"
    [] OTHER -> "dying"
Attended == Phase = "live" /\ asgi # 0 /\ obj[asgi].task # "none"
Answered == obj[asgi].latest /\ obj[asgi].future = "none"

X == INSTANCE HttpExchange WITH
       Clients <- {1},
       phase   <- [c \in {1} |-> Phase],
       busy    <- [c \in {1} |-> InFlight # {} \/ Attended],
       served  <- [c \in {1} |->
                     IF Attended /\ Answered THEN conn.done - 1 ELSE conn.done],
       calls   <- [c \in {1} |-> conn.calls]

(* With a plain application every step is a step of HttpExchange: one      *)
(* exchange at a time, each finished, or the connection ends.              *)
KeepsExchanges == [][habits = {} => [X!Next]_(X!vars)]_vars

(* Each request that was parsed whole is answered in full or its           *)
(* connection closes, for every application that does not break off.       *)
RequestsAreServed ==
  \A n \in Messages :
    (conn.asked = n /\ habits \cap {"stops", "expect"} = {}) ~>
       (conn.done >= n \/ conn.uv = "closed")

(* asgi_done gives back the reference of the connection as asgi_free does: *)
(* an object has as many references as it has holders, so it lives as long *)
(* as its coroutine and its task, and not longer (asgi.c:402-412, 853).    *)
ReleasedLikeAsgiFree ==
  \A n \in Messages :
    asgi # n => obj[n].refs = Holders(n)
=============================================================================
