------------------------------ MODULE WsgiResponse ------------------------------
(***************************************************************************)
(* How one WSGI response is made and sent, request after request on one    *)
(* connection: start_response.c, and of request.c and server.c the         *)
(* algorithms that turn what the application returned into writes          *)
(* (process_wsgi_response, wsgi_body_preload,                              *)
(* wsgi_iterator_get_next_chunk, build_response, stream_write, write_cb).  *)
(*                                                                         *)
(* WsgiConnection takes what these leave as a free choice.  Here it is     *)
(* computed, from every body in Sources, and shown to be one of those      *)
(* choices.  Writes succeed here; the connection persists.                 *)
(***************************************************************************)
EXTENDS Integers, SequencesExt

CONSTANTS
  MaxPreloaded,     (* max_preloaded_body_chunks                            *)
  MaxChunkSize,     (* g_srv.max_chunk_size                                 *)
  MaxBody,          (* bound: bytes of a body                               *)
  Sources           (* what applications return                             *)

(* The items of a body by their sizes, and those that are not bytes.       *)
NotBytes == -1              \* an item of another type
Raises == -2                \* the iterator raises
Item == {NotBytes, Raises} \cup 0 .. MaxBody

(* The value of the application's Content-Length header.                   *)
Absent == -1
Malformed == -2             \* not a number that strtoll reads as positive

(* A body and its request: an exact bytes object is its only item; the     *)
(* items may be fresh (nobody else refers to them, as when a file is read);*)
(* and the method or the status may allow no body.  "HEAD" is a HEAD       *)
(* request of which llhttp still has the method (request.c:1030), because  *)
(* more is in the buffer behind it; "status" is a status of 204 or 304,    *)
(* and also a HEAD request that used up its buffer, since llhttp_reset     *)
(* (server.c:602) has cleared the method then.                             *)
Source ==
  [kind     : {"bytes", "generator", "iterable", "notIterable"},
   items    : Seq(Item),
   fresh    : BOOLEAN,
   length   : {Absent, Malformed} \cup 0 .. MaxBody,
   bodiless : {"no", "HEAD", "status"}]

(* Nothing is returned yet. *)
NoSource == [kind |-> "notIterable", items |-> <<>>, fresh |-> FALSE,
             length |-> Absent, bodiless |-> "no"]

ASSUME SizesAssumption ==
  MaxPreloaded \in Nat /\ MaxChunkSize \in Nat /\ MaxBody \in Nat
ASSUME SourcesAssumption ==
  /\ Sources \subseteq Source
  /\ \A s \in Sources :
       s.kind = "bytes" => Len(s.items) = 1 /\ s.items[1] >= 0

VARIABLES
  phase,    (* of the exchange                                              *)
  start,    (* client->start_response                                       *)
  src,      (* what the application has returned                            *)
  resp,     (* client->response                                             *)
  wire      (* what has been written of the response                        *)

vars == <<phase, start, src, resp, wire>>

W == INSTANCE WsgiConnection WITH
       Clients <- {1}, NoClient <- 0, MaxTokens <- 0, MaxRead <- 0,
       AllowKeepalive <- TRUE, ReadReqTimeout <- TRUE,
       CurrReqTimeout <- TRUE, NextReqTimeout <- TRUE, ShortBodies <- TRUE,
       RaisingBodies <- TRUE, CloselessBodies <- FALSE,
       PeerTokens <- {}, conn <- <<>>, pyerr <- 0

-----------------------------------------------------------------------------
(* start_response.                                                         *)

(* Calls by what is wrong with them: nothing, without or with an exc_info; *)
(* the number of arguments; the status or the headers; the exc_info.       *)
Call == {"plain", "excInfo", "arity", "badHead", "badExcInfo"}

(* refs: does the object own the arguments it points to?                   *)
StartResponse ==
  [called : BOOLEAN, head : Call \cup {"NULL"}, refs : {"owned", "lent"}]

create_start_response == [called |-> FALSE, head |-> "NULL", refs |-> "owned"]

Accepts(sr, call) ==
  call \in {"plain", "excInfo"} /\ (sr.called => call = "excInfo")

(* The fields are cleared, then point to the arguments, and own them only  *)
(* when all of them are valid.                                             *)
start_response_call(sr, call) ==
  CASE call = "arity" -> [sr EXCEPT !.head = "NULL", !.refs = "owned"]
    [] Accepts(sr, call) ->
         [called |-> TRUE, head |-> call, refs |-> "owned"]
    [] call # "arity" /\ ~Accepts(sr, call) ->
         [sr EXCEPT !.head = call, !.refs = "lent"]

-----------------------------------------------------------------------------
(* The body.                                                               *)

(* body_total_size between a generator's first item and the next one. *)
Generator == -111

(* client->response between two callbacks. *)
Resp ==
  [body    : Seq(Nat),            \* the items that body[] points to
   pre     : Nat,                 \* body_preloaded_size
   total   : Nat,                 \* body_total_size
   written : Nat,                 \* body_total_written
   chunked : 0 .. 2,
   iter    : BOOLEAN,             \* body_iterator is set
   pos     : Nat,                 \* items the iterator has given
   item    : Nat,                 \* the item returned last, 0 for NULL
   error   : BOOLEAN]             \* client->error, or an error is returned

FreshResp ==
  [body |-> <<>>, pre |-> 0, total |-> 0, written |-> 0, chunked |-> 0,
   iter |-> FALSE, pos |-> 0, item |-> 0, error |-> FALSE]

(* The bytes of the given items. *)
Bytes(s, given) ==
  LET sum[n \in 0 .. Len(given)] ==
        IF n = 0 THEN 0 ELSE sum[n - 1] + s.items[given[n]]
  IN sum[Len(given)]

(* The items of a body that are not empty, among the first n. *)
NonEmptyUpTo(s) ==
  LET upTo[n \in 0 .. Len(s.items)] ==
        IF n = 0 THEN <<>>
        ELSE IF s.items[n] = 0 THEN upTo[n - 1] ELSE Append(upTo[n - 1], n)
  IN upTo
NonEmpty(s) == NonEmptyUpTo(s)[Len(s.items)]

(* MaxBody bounds the bytes of every beginning of a body. *)
ASSUME BodiesAssumption ==
  \A s \in Sources : \A n \in 0 .. Len(s.items) :
    Bytes(s, NonEmptyUpTo(s)[n]) <= MaxBody

reset_response_preload(r) == [r EXCEPT !.body = <<>>, !.pre = 0]

(* Mutant: the bytes written so far are not forgotten. *)
reset_response_body_KeepsWritten(r) == [FreshResp EXCEPT !.written = r.written]

reset_response_body(r) == FreshResp

(* The next item that is not empty, or an error. *)
PyIter_Next(s, r) ==
  LET rest == {i \in r.pos + 1 .. Len(s.items) : s.items[i] # 0}
      i == Min(rest)
  IN CASE rest = {} -> [r EXCEPT !.pos = Len(s.items), !.item = 0]
       [] rest # {} /\ s.items[i] < 0 ->
            [r EXCEPT !.pos = i, !.item = 0, !.error = TRUE]
       [] rest # {} /\ s.items[i] > 0 -> [r EXCEPT !.pos = i, !.item = i]

(* Mutant: the first item of a generator stays in the array. *)
wsgi_iterator_get_next_chunk_KeepsBody(s, r) ==
  CASE ~r.iter -> [r EXCEPT !.item = 0]
    [] r.iter /\ r.total = Generator ->
         [r EXCEPT !.total = 0, !.pre = 0,
                   !.item = IF r.body = <<>> THEN 0 ELSE r.body[1]]
    [] r.iter /\ r.total # Generator -> PyIter_Next(s, r)

(* The first item of a generator has been asked for already. *)
wsgi_iterator_get_next_chunk(s, r) ==
  CASE ~r.iter -> [r EXCEPT !.item = 0]
    [] r.iter /\ r.total = Generator ->
         [r EXCEPT !.total = 0, !.pre = 0, !.body = <<>>,
                   !.item = IF r.body = <<>> THEN 0 ELSE r.body[1]]
    [] r.iter /\ r.total # Generator -> PyIter_Next(s, r)

(* Mutant: room for one more item is assumed. *)
Full_OneMore(s, r, prev) ==
  \/ Len(r.body) = MaxPreloaded + 2
  \/ s.fresh /\ r.pre + prev >= MaxChunkSize

(* Preloading stops at a full array, or for fresh items before max_chunk_size *)
(* would be exceeded by another item like the last.                        *)
Full(s, r, prev) ==
  \/ Len(r.body) = MaxPreloaded + 1
  \/ s.fresh /\ r.pre + prev >= MaxChunkSize

(* One turn of the loop of wsgi_body_preload: state is "more" until an     *)
(* item is missing ("all" of the body is loaded) or the loop stops before  *)
(* that ("part").                                                          *)
PreloadItem(s, p) ==
  LET q == wsgi_iterator_get_next_chunk(s, p.resp)
      size == s.items[q.item]
      r == [q EXCEPT !.body = Append(@, q.item), !.pre = @ + size]
  IN CASE p.state # "more" -> p
       [] p.state = "more" /\ q.item = 0 ->
            [p EXCEPT !.resp = q, !.state = "all"]
       [] p.state = "more" /\ q.item # 0 ->
            [resp |-> r, prev |-> size,
             state |-> IF Full(s, r, p.prev) THEN "part" ELSE "more"]

(* The loop, which stops at the latest when the array is full. *)
Preloads(s, r0) ==
  LET load[n \in 0 .. MaxPreloaded + 3] ==
        IF n = 0 THEN [resp |-> r0, prev |-> 0, state |-> "more"]
                 ELSE PreloadItem(s, load[n - 1])
  IN load
Loaded(s, r0) == Preloads(s, r0)[MaxPreloaded + 3]

TooLong(s, r) == s.length > 0 /\ r.pre > s.length

(* Mutant: a body that stopped at the limit counts as loaded whole. *)
Measured_AlwaysAll(s, l) ==
  IF TooLong(s, l.resp) THEN [l.resp EXCEPT !.error = TRUE]
                        ELSE [l.resp EXCEPT !.total = l.resp.pre]

(* The size to announce: what was loaded, or Content-Length, or none. *)
Measured(s, l) ==
  CASE l.state = "all" /\ TooLong(s, l.resp) -> [l.resp EXCEPT !.error = TRUE]
    [] l.state = "all" /\ ~TooLong(s, l.resp) ->
         [l.resp EXCEPT !.total = l.resp.pre]
    [] l.state # "all" /\ s.length > 0 -> [l.resp EXCEPT !.total = s.length]
    [] l.state # "all" /\ s.length <= 0 -> [l.resp EXCEPT !.chunked = 1]

(* Mutant: Content-Length 0 returns at once. *)
wsgi_body_preload_Returns(s, r) ==
  CASE s.kind = "bytes" ->
         [r EXCEPT !.body = IF s.items[1] = 0 THEN <<>> ELSE <<1>>,
                   !.pre = s.items[1], !.total = s.items[1]]
    [] s.kind # "bytes" /\ s.length = 0 -> r
    [] OTHER -> LET l == Loaded(s, r)
                IN IF l.resp.error THEN l.resp ELSE Measured(s, l)

(* A bytes object is its own body, whatever Content-Length says; anything  *)
(* else is preloaded.                                                      *)
wsgi_body_preload(s, r) ==
  CASE s.kind = "bytes" ->
         [r EXCEPT !.body = IF s.items[1] = 0 THEN <<>> ELSE <<1>>,
                   !.pre = s.items[1], !.total = s.items[1]]
    [] s.kind # "bytes" /\ s.length = 0 -> [r EXCEPT !.pre = 0, !.total = 0]
    [] s.kind # "bytes" /\ s.length # 0 ->
                LET l == Loaded(s, r)
                IN IF l.resp.error THEN l.resp ELSE Measured(s, l)

(* process_wsgi_response; a generator runs up to its first item before the *)
(* headers are looked at.                                                  *)
process_wsgi_response(s, r0) ==
  LET r == [r0 EXCEPT !.iter = (s.kind # "bytes")]
      first == wsgi_iterator_get_next_chunk(s, r)
      g == [first EXCEPT !.total = Generator,
              !.body = IF first.item = 0 THEN <<>> ELSE <<first.item>>,
              !.pre = IF first.item = 0 THEN 0 ELSE s.items[first.item]]
  IN IF s.kind = "notIterable" \/ s.length = Malformed
        \/ (s.kind = "generator" /\ first.error) THEN [r EXCEPT !.error = TRUE]
     ELSE wsgi_body_preload(s, IF s.kind = "generator" THEN g ELSE r)

-----------------------------------------------------------------------------
(* The message.                                                            *)

(* What the head says of the body. *)
Chunks == -2
NoLength == -1
Wire ==
  [head  : {Chunks, NoLength} \cup Nat,     \* Content-Length
   data  : Seq(Nat),              \* the items written
   torn  : BOOLEAN,               \* a size line does not fit its chunk
   ended : BOOLEAN]               \* the last chunk is written

Unwritten ==
  [head |-> NoLength, data |-> <<>>, torn |-> FALSE,
   ended |-> FALSE]

(* build_response: the body is dropped when there may be none. *)
build_response(s, r) ==
  IF s.bodiless = "no" THEN r ELSE reset_response_body(r)

Announced(s, r) ==
  CASE s.bodiless = "HEAD" -> s.length
    [] s.bodiless # "HEAD" /\ r.chunked # 0 -> Chunks
    [] s.bodiless # "HEAD" /\ r.chunked = 0 -> r.total

(* The buffers of stream_write: a head or size line, the items, CR LF. *)
Buffers(r) == 1 + (IF r.pre > 0 THEN Len(r.body) ELSE 0)
                + (IF r.chunked = 1 THEN 1 ELSE 0)

stream_write(s, w, r) ==
  [w EXCEPT !.data = IF r.pre > 0 THEN @ \o r.body ELSE @,
            !.torn = @ \/ (r.chunked = 1
                           /\ (r.pre = 0 \/ r.pre # Bytes(s, r.body))),
            !.ended = (r.chunked = 2)]

-----------------------------------------------------------------------------
(* The application runs and calls start_response. *)
start_response ==
  /\ phase = "called"
  /\ \E call \in Call : start' = start_response_call(start, call)
  /\ UNCHANGED <<phase, src, resp, wire>>

(* An application returns only when its last call was accepted.            *)
Accepted == start.head \in {"plain", "excInfo"} /\ start.refs = "owned"

(* The application raises: 500, whatever it has passed to start_response.  *)
AppRaises ==
  /\ phase = "called"
  /\ phase' = "refused"
  /\ UNCHANGED <<start, src, resp, wire>>

(* It returns: process_wsgi_response, create_response and stream_write, or *)
(* 500.                                                                    *)
Returns ==
  /\ phase = "called" /\ Accepted
  /\ src' \in Sources
  /\ start' = create_start_response
  /\ LET r == process_wsgi_response(src', resp)
         b == build_response(src', r)
     IN IF r.error
        THEN phase' = "refused" /\ resp' = reset_response_body(r) /\ UNCHANGED wire
        ELSE /\ phase' = "writing" /\ resp' = b
             /\ wire' = stream_write(src',
                          [wire EXCEPT !.head = Announced(src', b)], b)

(* Mutant: the end of the iterator is not marked. *)
NextWrite_NoLastChunk(r) ==
  IF r.item # 0
  THEN [r EXCEPT !.body = <<r.item>>, !.pre = src.items[r.item]]
  ELSE [r EXCEPT !.chunked = 0]

(* What write_cb writes next: an item by itself, or the last chunk.        *)
NextWrite(r) ==
  IF r.item # 0
  THEN [r EXCEPT !.body = <<r.item>>, !.pre = src.items[r.item]]
  ELSE [r EXCEPT !.chunked = 2]

Sent == [reset_response_preload(resp) EXCEPT !.written = @ + resp.pre]
Complete == Sent.chunked = 2 \/ (Sent.chunked = 0 /\ Sent.written = Sent.total)
OverLength == Sent.chunked = 0 /\ Sent.written > Sent.total
Pulled == wsgi_iterator_get_next_chunk(src, Sent)

(* write_cb with status 0, by its outcomes: the exchange is over, the      *)
(* connection is closed, or more is written.                               *)
Finish ==
  /\ phase = "writing"
  /\ \/ Complete
     \/ /\ ~Complete /\ ~OverLength
        /\ Pulled.item = 0 /\ ~Pulled.error /\ resp.chunked = 0
  /\ phase' = "kept" /\ resp' = reset_response_body(resp)
  /\ UNCHANGED <<start, src, wire>>

Close ==
  /\ phase = "writing" /\ ~Complete
  /\ OverLength \/ Pulled.error
  /\ phase' = "closed" /\ resp' = reset_response_body(resp)
  /\ UNCHANGED <<start, src, wire>>

WriteMore ==
  /\ phase = "writing" /\ ~Complete /\ ~OverLength
  /\ ~Pulled.error /\ (Pulled.item # 0 \/ resp.chunked = 1)
  /\ resp' = NextWrite(Pulled)
  /\ wire' = stream_write(src, wire, resp')
  /\ UNCHANGED <<phase, start, src>>

(* on_message_begin for the next request, and call_wsgi_app. *)
on_message_begin ==
  /\ phase \in {"kept", "refused"}
  /\ phase' = "called"
  /\ start' = create_start_response
  /\ resp' = reset_response_body(resp)
  /\ wire' = Unwritten /\ src' = NoSource

Init ==
  /\ phase = "called" /\ start = create_start_response
  /\ src = NoSource /\ resp = FreshResp /\ wire = Unwritten

Next == start_response \/ AppRaises \/ Returns \/ Finish \/ Close \/ WriteMore
        \/ on_message_begin

Spec == Init /\ [][Next]_vars

-----------------------------------------------------------------------------
(* Properties.                                                             *)

(* client->response and client->start_response keep the shape of their C   *)
(* declarations; the -111 that marks a generator does not outlive          *)
(* process_wsgi_response (request.c:825, 1138).                            *)
TypeOK ==
  /\ phase \in {"called", "writing", "kept", "closed", "refused"}
  /\ start \in StartResponse
  /\ src \in Sources \cup {NoSource}
  /\ resp \in Resp /\ wire \in Wire

(* The array of chunks and the buffers of the write request are as long as *)
(* the longest preloaded body needs, with head and CR LF (server.h:123,    *)
(* 172).                                                                   *)
BuffersFit ==
  /\ Len(resp.body) <= MaxPreloaded + 1
  /\ phase = "writing" => Buffers(resp) <= MaxPreloaded + 3

(* The items of the body are written in their order, each once, whether    *)
(* they were preloaded, asked for by write_cb, or taken from a generator   *)
(* before the headers were looked at.                                      *)
SentInOrder == IsPrefix(wire.data, NonEmpty(src))

(* Content-Length promises more than the body has. *)
FallsShort(s) == s.length > Bytes(s, NonEmpty(s))

(* A connection is kept only behind a message that is whole for its peer:  *)
(* as long as its head says, or ended by the last chunk and with size      *)
(* lines that fit their chunks, or a head alone where no body is allowed.  *)
(* The message holds the whole body, or what Content-Length announces of   *)
(* it.  A body that falls short is the known exception (see IdleIsTimed of *)
(* WsgiConnection).                                                        *)
KeptOnlyWhole ==
  phase = "kept" =>
    CASE src.bodiless # "no" -> wire.data = <<>> /\ ~wire.ended
      [] src.bodiless = "no" /\ wire.head = Chunks ->
           wire.ended /\ ~wire.torn /\ wire.data = NonEmpty(src)
      [] src.bodiless = "no" /\ wire.head # Chunks ->
           /\ Bytes(src, wire.data) = wire.head \/ FallsShort(src)
           /\ wire.data = NonEmpty(src) \/ wire.head = src.length

(* A body of bytes, with the right Content-Length or none, is sent, and    *)
(* all of it, whatever its type and however it is cut into items.          *)
Sound(s) ==
  /\ s.kind # "notIterable" /\ \A i \in DOMAIN s.items : s.items[i] >= 0
  /\ s.length \in {Absent, Bytes(s, NonEmpty(s))}
SoundBodiesAreSent ==
  Sound(src) =>
    /\ phase \notin {"refused", "closed"}
    /\ phase = "kept" /\ src.bodiless = "no" => wire.data = NonEmpty(src)

(* The client_t of WsgiConnection that resp is a part of. *)
Client(p, r) ==
  [W!Fresh EXCEPT
     !.uv = "open", !.keep = TRUE, !.iter = r.iter,
     !.state = IF p = "writing" THEN "CS_RESP_SEND" ELSE "CS_REQ_PARSE",
     !.pre = r.pre, !.total = r.total, !.written = r.written,
     !.chunked = r.chunked]
Outcome(k) ==
  [phase |-> IF k.uv = "closing" THEN "closed"
             ELSE IF k.state = "CS_RESP_SEND" THEN "writing" ELSE "kept",
   size |-> IF k.uv = "closing" THEN <<>>
            ELSE <<k.pre, k.total, k.written, k.chunked>>]
Becomes == [phase |-> phase',
            size |-> IF phase' = "closed" THEN <<>>
                     ELSE <<resp'.pre, resp'.total, resp'.written, resp'.chunked>>]

(* Whatever the application returns, what is made of it is one of the      *)
(* replies, and what write_cb does then one of the outcomes, that          *)
(* WsgiConnection chooses from: its checks cover every body.               *)
CoveredByWsgiConnection ==
  [][/\ phase = "called" /\ phase' = "writing" =>
          \E r \in W!Reply :
            r.kind # "fail" /\
            Outcome(W!RunApplication(Client(phase, resp), r, FALSE)) = Becomes
     /\ phase = "writing" =>
          \E n \in W!Pull :
            Outcome(W!write_cb(Client(phase, resp), n, 0,
                      [kind |-> "fail", pre |-> 0, total |-> 0], FALSE)) = Becomes
    ]_vars
=============================================================================
