--------------------------- MODULE WsgiConnection ---------------------------
(***************************************************************************)
(* The connections of a fastpysgi server that runs a WSGI application over *)
(* plain TCP: server.c (stream_read_start .. client_aux_check) and the     *)
(* parts of request.c those handlers call.  The libuv loop is single       *)
(* threaded, so each callback is one atomic step; what interleaves is the  *)
(* order in which libuv delivers reads, write completions, the service     *)
(* timer, shutdown and close callbacks, over several connections that      *)
(* share one Python error indicator.                                       *)
(*                                                                         *)
(* conn[c] is the client_t of slot c.  The operators below the constants   *)
(* map a client_t to the client_t the C function of the same name leaves.  *)
(***************************************************************************)
EXTENDS Integers, Sequences

CONSTANTS
  Clients,          (* connection slots                                     *)
  NoClient,         (* pyerr when no Python exception is pending            *)
  MaxTokens,        (* bound: pieces of request data a peer sends           *)
  MaxRead,          (* bound: pieces one read from the socket returns       *)
  MaxBody,          (* bound: units of body an application produces         *)
  AllowKeepalive,   (* g_srv.allow_keepalive                                *)
  ReadReqTimeout,   (* is g_srv.read_req_timeout configured?                *)
  CurrReqTimeout,   (* is g_srv.curr_req_timeout configured?                *)
  NextReqTimeout,   (* is g_srv.next_req_timeout configured?                *)
  ShortBodies,      (* may an iterable end before its Content-Length?       *)
  RaisingBodies,    (* may an iterable fail after the head was sent?        *)
  CloselessBodies,  (* may a body be an iterator that has no close()?       *)
  PeerTokens        (* the pieces of request data that peers send           *)

ASSUME ClientsAssumption == NoClient \notin Clients
ASSUME BoundsAssumption ==
  /\ MaxTokens \in Nat /\ MaxRead \in Nat /\ MaxBody \in Nat
ASSUME SettingsAssumption ==
  /\ AllowKeepalive \in BOOLEAN
  /\ ReadReqTimeout \in BOOLEAN /\ CurrReqTimeout \in BOOLEAN
  /\ NextReqTimeout \in BOOLEAN
  /\ ShortBodies \in BOOLEAN /\ RaisingBodies \in BOOLEAN
  /\ CloselessBodies \in BOOLEAN

VARIABLES
  conn,    (* conn[c]: the client_t of slot c                               *)
  pyerr    (* whose exception the Python error indicator holds              *)

vars == <<conn, pyerr>>

-----------------------------------------------------------------------------
(* The pieces of request data the parser tells apart.                      *)
Stops == {"end",        \* completes a message, the connection may persist
          "endClose",   \* completes a message that asks for close
          "oversize",   \* Expect head whose Content-Length is too large
          "bad"}        \* llhttp or a callback of request.c rejects it
Token == Stops \cup {"part",      \* data that leaves the message incomplete
                     "expect"}    \* whole head with Expect: 100-continue
ASSUME PeersAssumption == PeerTokens \subseteq Token

ClientState == {"CS_ACCEPT", "CS_REQ_READ", "CS_REQ_PARSE", "CS_RESP_BILD",
                "CS_RESP_SEND", "CS_RESP_SENDED", "CS_RESP_END", "CS_DESTROY"}
RxStatus == {"RXS_RESTING", "RXS_READING", "RXS_FREEZED"}
Action   == {"CA_OK", "CA_CLOSE", "CA_SHUTDOWN"}
Status   == {"none", "200", "400", "417",
             "500",        \* the application failed this request
             "stray500"}   \* the only cause is a pending Python exception

(* What the application may return for one request (call_wsgi_app and      *)
(* process_wsgi_response): an error, a body loaded whole, or the first     *)
(* part of a body with (sized) or without (chunked) a Content-Length.      *)
Reply ==
  [kind : {"fail"}, pre : {0}, total : {0}] \cup
  {x \in [kind : {"whole"}, pre : 0 .. MaxBody, total : 0 .. MaxBody] :
       x.pre = x.total} \cup
  {x \in [kind : {"sized"}, pre : 1 .. MaxBody, total : 1 .. MaxBody] :
       x.pre # x.total} \cup
  [kind : {"chunked"}, pre : 1 .. MaxBody, total : {0}]

(* What the body iterator may answer when it is asked for the next chunk.  *)
Pull == [kind : {"chunk"}, size : 1 .. MaxBody] \cup
        [kind : {"end", "raise", "notBytes"}, size : {0}]

Conn == [state   : ClientState,
         rx      : RxStatus,
         reading : BOOLEAN,        \* uv_read_start is in force
         buf     : Seq(Token),     \* rx.buf
         parsed  : Nat,            \* rx.parsed_size
         parser  : {"idle", "mid", "error"},
         keep    : BOOLEAN,        \* request.keep_alive
         reqT    : BOOLEAN,        \* request.start_time and update_time set
         lastT   : BOOLEAN,        \* response.last_chunk_time set
         chunked : 0 .. 2,
         pre     : Nat,            \* body_preloaded_size
         total   : Nat,            \* body_total_size
         written : Nat,            \* body_total_written
         iter    : BOOLEAN,        \* response.wsgi_body is set
         uv      : {"none", "open", "closing", "closed"},
         shut    : BOOLEAN,        \* uv_shutdown was accepted
         wq      : Seq({"status", "resp"}),  \* writes libuv has not reported
         (* history *)
         recvd   : Nat,            \* pieces received
         ppos    : Nat,            \* pieces the parser has consumed
         asked   : Nat,            \* messages completed
         calls   : Nat,            \* calls of the application
         begun   : Nat,            \* heads of answers given to libuv
         done    : Nat,            \* responses written out
         status  : Status]         \* of the latest response

(* client_t after calloc, before connection_cb fills it. *)
Fresh ==
  [state |-> "CS_ACCEPT", rx |-> "RXS_RESTING", reading |-> FALSE,
   buf |-> <<>>, parsed |-> 0, parser |-> "idle", keep |-> FALSE,
   reqT |-> FALSE, lastT |-> FALSE, chunked |-> 0, pre |-> 0, total |-> 0,
   written |-> 0, iter |-> FALSE, uv |-> "none", shut |-> FALSE,
   wq |-> <<>>, recvd |-> 0, ppos |-> 0, asked |-> 0, calls |-> 0,
   begun |-> 0, done |-> 0, status |-> "none"]

-----------------------------------------------------------------------------
(* Reading, closing and shutting down.                                     *)

(* is_stream_notconn: uv_shutdown and uv_write would be refused. *)
NotConn(k) == k.shut \/ k.uv # "open"

close_connection(k) ==
  IF k.uv = "open"
  THEN [k EXCEPT !.state = "CS_DESTROY", !.uv = "closing", !.reading = FALSE]
  ELSE [k EXCEPT !.state = "CS_DESTROY"]

stream_read_stop(k) == [k EXCEPT !.reading = FALSE]

(* Mutant: restarts reading although uv_write is active. *)
stream_read_start_NoSendCheck(k) ==
  CASE k.rx = "RXS_FREEZED" -> k
    [] OTHER -> IF k.uv = "open"
                THEN [k EXCEPT !.state = "CS_REQ_READ", !.reading = TRUE]
                ELSE close_connection(k)

stream_read_start(k) ==
  CASE k.rx = "RXS_FREEZED" \/ k.state = "CS_RESP_SEND" -> k
    [] OTHER -> IF k.uv = "open"
                THEN [k EXCEPT !.state = "CS_REQ_READ", !.reading = TRUE]
                ELSE close_connection(k)

(* uv_shutdown waits for the queued writes. *)
shutdown_connection(k) ==
  IF NotConn(k)
  THEN close_connection(k)
  ELSE [k EXCEPT !.state = "CS_DESTROY", !.shut = TRUE]

(* Mutant: forgets shutdown_connection. *)
TakeAction_NoShutdown(k, act) ==
  CASE act = "CA_OK"       -> k
    [] act = "CA_CLOSE"    -> close_connection(stream_read_stop(k))
    [] act = "CA_SHUTDOWN" -> stream_read_stop(k)

(* The last lines of read_cb: carry out the client action. *)
TakeAction(k, act) ==
  CASE act = "CA_OK"       -> k
    [] act = "CA_CLOSE"    -> close_connection(stream_read_stop(k))
    [] act = "CA_SHUTDOWN" -> shutdown_connection(stream_read_stop(k))

-----------------------------------------------------------------------------
(* Writing a response.                                                     *)

(* Mutant: response.chunked is not cleared. *)
reset_response_body_KeepsChunked(k) ==
  [k EXCEPT !.pre = 0, !.total = 0, !.written = 0, !.iter = FALSE]

reset_response_body(k) ==
  [k EXCEPT !.pre = 0, !.total = 0, !.written = 0, !.iter = FALSE,
            !.chunked = 0]

(* stream_write hands write_req to uv_write, or returns CA_SHUTDOWN. *)
Writable(k) == k.state # "CS_RESP_SEND" /\ ~NotConn(k)

(* Mutant: forgets to stop reading. *)
stream_write_KeepsReading(k) ==
  CASE Writable(k) -> [k EXCEPT !.state = "CS_RESP_SEND",
                                !.wq = Append(@, "resp")]
    [] OTHER       -> [k EXCEPT !.state = "CS_DESTROY"]

stream_write(k) ==
  CASE Writable(k) ->
         [k EXCEPT !.state = "CS_RESP_SEND", !.reading = FALSE,
                   !.wq = Append(@, "resp")]
    [] k.state = "CS_RESP_SEND" -> [k EXCEPT !.state = "CS_DESTROY"]
    [] OTHER -> [k EXCEPT !.state = "CS_DESTROY", !.reading = FALSE]

(* stream_write of a response head.  A stray 500 answers no message. *)
WriteHead(k, status) ==
  IF Writable(k)
  THEN [stream_write(k) EXCEPT
          !.begun = IF status = "stray500" THEN @ ELSE @ + 1,
          !.status = status]
  ELSE stream_write(k)

(* build_response without application headers: an empty body. *)
BuildEmpty(k) == IF k.chunked = 0 THEN reset_response_body(k) ELSE k

(* Mutant: an error is not answered, and the rest of the buffer is dropped. *)
SendStatus_Silent(k, status) ==
  stream_read_start([k EXCEPT !.rx = "RXS_READING"])

(* The write that send_fatal and send_error have in common. *)
SendStatus(k, status) ==
  IF k.state # "CS_RESP_SEND" THEN WriteHead(BuildEmpty(k), status) ELSE k

Persistent(k) == k.keep /\ AllowKeepalive

(* read_cb from `fin:` on.  err is the HTTP error, "none" for 0; py says   *)
(* that the Python error indicator is set.                                 *)
ReadFin(k, err, act, py) ==
  LET e == IF py /\ err = "none" THEN "stray500" ELSE err
  IN IF e = "none" \/ act # "CA_OK"
     THEN TakeAction(k, act)
     ELSE TakeAction(SendStatus(k, e),
                     IF Persistent(k) THEN "CA_OK" ELSE "CA_SHUTDOWN")

-----------------------------------------------------------------------------
(* Parsing.  One llhttp_execute consumes the unparsed pieces up to e.      *)

Unparsed(k, e) == k.parsed + 1 .. e

EndsAt(k, e) ==
  /\ e \in Unparsed(k, Len(k.buf))
  /\ \A i \in Unparsed(k, e - 1) : k.buf[i] \notin Stops
  /\ e = Len(k.buf) \/ k.buf[e] \in Stops

ExpectsContinue(k, e) == \E i \in Unparsed(k, e) : k.buf[i] = "expect"

on_message_begin(k) ==
  [reset_response_body(k) EXCEPT !.reqT = TRUE, !.lastT = FALSE,
                                 !.parser = "mid"]

(* on_headers_complete answers Expect with x_send_status(100). *)
x_send_status(k) ==
  IF NotConn(k) THEN [k EXCEPT !.state = "CS_DESTROY"]
                ELSE [k EXCEPT !.wq = Append(@, "status")]

(* The callbacks llhttp_execute runs up to, not including, the last one. *)
Feed(k, e) ==
  LET p == [k EXCEPT !.state = "CS_REQ_PARSE"]
      m == IF k.parser = "idle" THEN on_message_begin(p) ELSE p
  IN IF k.parser = "error" \/ ~ExpectsContinue(k, e) THEN m
                                                     ELSE x_send_status(m)

ParseFails(k, e) ==
  \/ k.parser = "error"
  \/ k.buf[e] = "bad"
  \/ ExpectsContinue(k, e) /\ NotConn(k)

(* Mutants: rx.parsed_size is not advanced; reading is not restarted. *)
Incomplete_NotAdvanced(k, e) ==
  LET p == [k EXCEPT !.ppos = @ + (e - k.parsed)]
  IN IF p.rx = "RXS_FREEZED"
     THEN stream_read_start([p EXCEPT !.rx = "RXS_READING"])
     ELSE p
Incomplete_NotRestarted(k, e) ==
  [k EXCEPT !.parsed = e, !.ppos = @ + (e - k.parsed), !.rx = "RXS_READING"]

(* HPE_OK: the buffer is used up and the message is not complete. *)
Incomplete(k, e) ==
  LET p == [k EXCEPT !.parsed = e, !.ppos = @ + (e - k.parsed)]
  IN IF p.rx = "RXS_FREEZED"
     THEN stream_read_start([p EXCEPT !.rx = "RXS_READING"])
     ELSE p

(* The callback that ends a message and pauses the parser.                 *)
on_message_complete(k, e) ==
  [k EXCEPT !.parser = "idle", !.asked = @ + 1, !.reqT = FALSE,
            !.keep = (k.buf[e] # "endClose")]

(* Mutant: marks a used-up buffer RXS_DONE. *)
Paused_Done(k, e) ==
  [k EXCEPT !.parsed = e, !.ppos = @ + (e - k.parsed), !.rx = "RXS_DONE"]

(* HPE_PAUSED: read on when the buffer is used up, freeze it otherwise.    *)
Paused(k, e) ==
  LET p == [k EXCEPT !.parsed = e, !.ppos = @ + (e - k.parsed)]
  IN IF e = Len(k.buf)
     THEN stream_read_start([p EXCEPT !.rx = "RXS_READING"])
     ELSE stream_read_stop([p EXCEPT !.rx = "RXS_FREEZED"])

(* call_wsgi_app, process_wsgi_response, create_response, stream_write. *)
RunApplication(k, r, py) ==
  LET a == [k EXCEPT !.state = "CS_RESP_BILD", !.calls = @ + 1]
      b == [a EXCEPT !.pre = r.pre, !.total = r.total,
                     !.chunked = IF r.kind = "chunked" THEN 1 ELSE 0,
                     !.iter = TRUE]
  IN IF py \/ r.kind = "fail"
     THEN ReadFin(a, IF r.kind = "fail" THEN "500" ELSE "stray500", "CA_OK", py)
     ELSE ReadFin(WriteHead(b, "200"), "none",
                  IF Writable(b) THEN "CA_OK" ELSE "CA_SHUTDOWN", FALSE)

(* read_cb from `parsing:` on. *)
Parse(k, e, r, py) ==
  LET p == Feed(k, e)
  IN CASE ParseFails(k, e) ->
            ReadFin(SendStatus([p EXCEPT !.parser = "error"], "400"),
                    "none", "CA_SHUTDOWN", py)
       [] ~ParseFails(k, e) /\ k.buf[e] \notin Stops ->
            ReadFin(Incomplete(p, e), "none", "CA_OK", py)
       [] ~ParseFails(k, e) /\ k.buf[e] = "oversize" ->
            ReadFin(Paused(on_message_complete(p, e), e), "417", "CA_OK", py)
       [] ~ParseFails(k, e) /\ k.buf[e] \in {"end", "endClose"} ->
            RunApplication(Paused(on_message_complete(p, e), e), r, py)

-----------------------------------------------------------------------------
(* Completion of a response write.                                         *)

(* reset_response_body closes an iterator that is itself the body.  If it  *)
(* has no close attribute, the AttributeError of close_iterator stays in   *)
(* the error indicator.                                                    *)
MayLeaveError(k) == CloselessBodies /\ k.iter

(* write_cb asks the iterator for more, or has sent what was declared. *)
Sent(k) == [k EXCEPT !.state = "CS_RESP_SENDED", !.written = @ + k.pre,
                     !.pre = 0]
OverLength(k) == k.chunked = 0 /\ k.written > k.total
LastWritten(k) == k.chunked = 2 \/ (k.chunked = 0 /\ k.written = k.total)

(* write_cb queues the next chunk (CA_OK), or closes the connection. *)
WriteMore(k) == IF Writable(k) THEN stream_write(k)
                               ELSE close_connection(stream_write(k))

(* write_cb from `fin:` on, when nothing failed; what is left in a frozen  *)
(* buffer is parsed at once.                                               *)
Resumes(k) == Persistent(k) /\ k.rx = "RXS_FREEZED"
FinishResponse(k, e, r, py) ==
  LET d == [k EXCEPT !.done = @ + 1]
      q == [reset_response_body(d) EXCEPT !.state = "CS_RESP_END"]
  IN CASE ~Persistent(k) -> close_connection(d)
       [] Resumes(k)     -> Parse(q, e, r, py)
       [] OTHER          -> stream_read_start(q)

(* write_cb with status 0. *)
Exhausted(k, n) == LastWritten(Sent(k)) \/
                   (~OverLength(Sent(k)) /\ n.kind = "end" /\ k.chunked = 0)
Pulls(k) == ~LastWritten(Sent(k)) /\ ~OverLength(Sent(k))

write_cb(k, n, e, r, py) ==
  LET s == Sent(k)
      b == [s EXCEPT !.state = "CS_RESP_BILD"]
  IN CASE OverLength(s)  -> close_connection(s)
       [] LastWritten(s) -> FinishResponse([s EXCEPT !.lastT = TRUE], e, r, py)
       [] Pulls(k) /\ n.kind \in {"raise", "notBytes"} -> close_connection(b)
       [] Pulls(k) /\ n.kind = "chunk" ->
            WriteMore([b EXCEPT !.pre = n.size])
       [] Pulls(k) /\ n.kind = "end" /\ k.chunked = 1 ->
            WriteMore([b EXCEPT !.chunked = 2])
       [] Pulls(k) /\ n.kind = "end" /\ k.chunked = 0 ->
            FinishResponse(b, e, r, py)

(* libuv calls shutdown_cb as soon as the last queued write is reported. *)
Drain(k) == IF k.shut /\ k.wq = <<>> THEN close_connection(k) ELSE k

-----------------------------------------------------------------------------
(* The callbacks libuv delivers.                                           *)

Set(c, k) == conn' = [conn EXCEPT ![c] = k]

(* alloc_cb in front of every read: the buffer starts over. *)
alloc_cb(k, toks) ==
  [k EXCEPT !.rx = "RXS_READING", !.buf = toks, !.parsed = 0,
            !.recvd = @ + Len(toks)]

(* What one read may return: a message opens with at most one whole head   *)
(* that expects a continue, and the peer sends at most MaxTokens pieces.   *)
OpensMessage(k, toks, i) ==
  IF i = 1 THEN k.parser # "mid" ELSE toks[i - 1] \in Stops
PeerData(k) ==
  {toks \in UNION {[1 .. n -> PeerTokens] : n \in 1 .. MaxRead} :
     /\ k.recvd + Len(toks) <= MaxTokens
     /\ \A i \in 1 .. Len(toks) :
          toks[i] \in {"expect", "oversize"} => OpensMessage(k, toks, i)}

(* What the iterator may answer now, within MaxBody.  While an exception   *)
(* is pending its end is taken for a failure (PyErr_Occurred), which has   *)
(* the effect of an item that is not bytes.                                *)
NextPull(k) ==
  {n \in Pull :
     /\ n.kind = "chunk" => k.written + k.pre + n.size <= MaxBody
     /\ n.kind = "raise" => RaisingBodies
     /\ n.kind = "notBytes" => RaisingBodies \/ pyerr # NoClient
     /\ n.kind = "end" => pyerr = NoClient
     /\ n.kind = "end" /\ k.chunked = 0 /\ ~ShortBodies =>
          k.written + k.pre >= k.total}

(* A new connection: uv_accept succeeds, or the slot is closed at once. *)
connection_cb(c) ==
  /\ conn[c].uv = "none"
  /\ \/ Set(c, [Fresh EXCEPT !.uv = "open", !.state = "CS_REQ_READ",
                             !.reading = TRUE, !.reqT = TRUE])
     \/ Set(c, [Fresh EXCEPT !.uv = "closing", !.state = "CS_DESTROY"])
  /\ UNCHANGED pyerr

(* read_cb with data from the socket; the pending exception is consumed.   *)
read_cb(c) ==
  /\ conn[c].uv = "open" /\ conn[c].reading
  /\ \E toks \in PeerData(conn[c]) :
       LET k == alloc_cb(conn[c], toks)
       IN IF conn[c].rx = "RXS_FREEZED"
          THEN Set(c, ReadFin(conn[c], "none", "CA_SHUTDOWN", pyerr # NoClient))
          ELSE \E e \in 1 .. Len(toks), r \in Reply :
                 /\ EndsAt(k, e)
                 /\ Set(c, Parse(k, e, r, pyerr # NoClient))
  /\ pyerr' = NoClient

(* read_cb with nread = 0: only alloc_cb has an effect. *)
EmptyRead(c) ==
  /\ conn[c].uv = "open" /\ conn[c].reading
  /\ conn[c].rx # "RXS_FREEZED"
  /\ Set(c, alloc_cb(conn[c], <<>>))
  /\ UNCHANGED pyerr

(* read_cb with UV_EOF (CA_CLOSE), or with an error (CA_SHUTDOWN: libuv    *)
(* has made the stream unwritable, so shutdown_connection closes at once). *)
PeerCloses(c) ==
  /\ conn[c].uv = "open" /\ conn[c].reading
  /\ Set(c, TakeAction(conn[c], "CA_CLOSE"))
  /\ pyerr' = NoClient

(* x_write_cb. *)
StatusWritten(c) ==
  /\ conn[c].wq # <<>> /\ Head(conn[c].wq) = "status"
  /\ LET k == [conn[c] EXCEPT !.wq = Tail(@)]
     IN \/ Set(c, Drain(stream_read_start(k)))
        \/ Set(c, close_connection(k))
  /\ UNCHANGED pyerr

(* write_cb with status 0.  A body that is over may leave an error, which  *)
(* the request that is resumed in the same callback finds.                 *)
ResponseWritten(c) ==
  /\ conn[c].wq # <<>> /\ Head(conn[c].wq) = "resp"
  /\ \E n \in NextPull(conn[c]), r \in Reply, e \in 0 .. Len(conn[c].buf),
        left \in BOOLEAN :
       LET k       == [conn[c] EXCEPT !.wq = Tail(@)]
           resumes == Resumes(k) /\ Exhausted(k, n)
       IN /\ IF resumes THEN EndsAt(k, e) ELSE e = 0 /\ r.kind = "fail"
          /\ left => MayLeaveError(k) /\ Persistent(k) /\ Exhausted(k, n)
          /\ Set(c, Drain(write_cb(k, n, e, r, pyerr # NoClient \/ left)))
          /\ pyerr' = IF resumes THEN NoClient
                      ELSE IF left \/ (Pulls(k) /\ n.kind = "raise") THEN c
                      ELSE pyerr

(* write_cb with an error, ECANCELED among them. *)
WriteFailed(c) ==
  /\ conn[c].wq # <<>> /\ Head(conn[c].wq) = "resp"
  /\ Set(c, close_connection([conn[c] EXCEPT !.wq = Tail(@), !.pre = 0]))
  /\ UNCHANGED pyerr

(* shutdown_cb when no write was queued. *)
shutdown_cb(c) ==
  /\ conn[c].uv = "open" /\ conn[c].shut /\ conn[c].wq = <<>>
  /\ Set(c, close_connection(conn[c]))
  /\ UNCHANGED pyerr

(* close_cb, after libuv has cancelled the writes still queued. *)
close_cb(c) ==
  /\ conn[c].uv = "closing" /\ conn[c].wq = <<>>
  /\ Set(c, [reset_response_body(conn[c]) EXCEPT
               !.uv = "closed", !.rx = "RXS_RESTING", !.reading = FALSE])
  /\ pyerr' \in {pyerr} \cup (IF MayLeaveError(conn[c]) THEN {c} ELSE {})

(* svc_timer_cb finds that one of the configured times has passed.         *)
(* Mutant: the wait for the next request is not timed. *)
Overdue_RequestOnly(k) == (ReadReqTimeout \/ CurrReqTimeout) /\ k.reqT

Overdue(k) ==
  \/ (ReadReqTimeout \/ CurrReqTimeout) /\ k.reqT
  \/ NextReqTimeout /\ k.lastT

client_aux_check(c) ==
  /\ conn[c].uv = "open" /\ Overdue(conn[c])
  /\ Set(c, shutdown_connection(stream_read_stop(conn[c])))
  /\ UNCHANGED pyerr

(* All connections are gone: nothing is left to model. *)
AllClosed ==
  /\ \A c \in Clients : conn[c].uv = "closed"
  /\ UNCHANGED vars

WriteReported(c) == StatusWritten(c) \/ ResponseWritten(c) \/ WriteFailed(c)

Init == conn = [c \in Clients |-> Fresh] /\ pyerr = NoClient

Next ==
  \/ \E c \in Clients :
       \/ connection_cb(c) \/ read_cb(c) \/ EmptyRead(c) \/ PeerCloses(c)
       \/ StatusWritten(c) \/ ResponseWritten(c) \/ WriteFailed(c)
       \/ shutdown_cb(c) \/ close_cb(c) \/ client_aux_check(c)
  \/ AllClosed

Spec == Init /\ [][Next]_vars

(* The loop runs on: libuv reports every write, shutdown and close, and    *)
(* the service timer fires again and again.                                *)
Fairness ==
  \A c \in Clients :
    /\ WF_vars(WriteReported(c)) /\ WF_vars(shutdown_cb(c))
    /\ WF_vars(close_cb(c))      /\ WF_vars(client_aux_check(c))

FairSpec == Spec /\ Fairness

-----------------------------------------------------------------------------
(* Properties.                                                             *)

(* Every client_t keeps the shape the C declarations give it (server.h).   *)
TypeOK ==
  /\ conn \in [Clients -> Conn]
  /\ pyerr \in Clients \cup {NoClient}

Alive(k) == k.uv = "open" /\ ~k.shut

(* No piece of request data is parsed twice or lost: what was received and *)
(* not yet parsed is exactly what rx.buf holds beyond rx.parsed_size,      *)
(* although alloc_cb restarts the buffer on every read (server.c:770-775). *)
ParserInSync ==
  \A c \in Clients : conn[c].parser # "error" =>
    conn[c].recvd - conn[c].ppos = Len(conn[c].buf) - conn[c].parsed

InFlight(k) == {i \in 1 .. Len(k.wq) : k.wq[i] = "resp"}

(* The one write_req of a client_t is never handed to uv_write again while *)
(* libuv still owns it (server.c:355-363, 410).                            *)
OneWriteInFlight ==
  \A c \in Clients : \A i, j \in InFlight(conn[c]) : i = j

(* While a response is on its way a live connection neither reads nor      *)
(* leaves CS_RESP_SEND, whatever completion of a 100-continue comes        *)
(* between (server.c:72, 169, 407-408).                                    *)
DeafWhileResponding ==
  \A c \in Clients : LET k == conn[c] IN
    Alive(k) /\ InFlight(k) # {} => k.state = "CS_RESP_SEND" /\ ~k.reading

(* A live connection with no write under way listens: no return of         *)
(* read_cb or write_cb leaves it without any event to wait for.            *)
NeverStuck ==
  \A c \in Clients : LET k == conn[c] IN
    Alive(k) /\ InFlight(k) = {} => k.reading

(* A live connection that waits for its peer has one of the times set that *)
(* client_aux_check compares, so no idle connection escapes the timeouts   *)
(* (server.h:69-71).                                                       *)
IdleIsTimed ==
  \A c \in Clients : LET k == conn[c] IN
    Alive(k) /\ InFlight(k) = {} => k.reqT \/ k.lastT

(* Each message gets one answer at most; only a parse error, after which   *)
(* nothing is parsed, may add one (send_fatal, send_error).  Stray 500s    *)
(* answer no message and are another matter, see FaultIsOwn.               *)
AnswersMatchRequests ==
  \A c \in Clients : LET k == conn[c] IN
    k.begun <= k.asked + (IF k.parser = "error" THEN 1 ELSE 0)

(* An error answer on its way is a message of its own: whichever request,  *)
(* or exception of another connection, caused it, nothing is left of the   *)
(* body before it that write_cb would count, frame or continue             *)
(* (request.c:1047-1052, server.c:238-262).                                *)
ErrorAnswersStandAlone ==
  \A c \in Clients : LET k == conn[c] IN
    Alive(k) /\ InFlight(k) # {} /\ k.status # "200"
      => /\ ~k.iter /\ k.chunked = 0
         /\ k.pre = 0 /\ k.total = 0 /\ k.written = 0

(* A 500 goes only to a client whose own request the application failed.   *)
FaultIsOwn == \A c \in Clients : conn[c].status # "stray500"

(* Every message that was parsed whole is answered in full or its          *)
(* connection closes.                                                      *)
RequestsAreServed ==
  \A c \in Clients : \A n \in 1 .. MaxTokens :
    conn[c].asked = n ~> conn[c].done >= n \/ conn[c].uv = "closed"

(* With the timeouts configured no connection outlives a silent peer.      *)
SilentPeerIsDropped ==
  \A c \in Clients : conn[c].uv = "open" ~> conn[c].uv = "closed"
=============================================================================
