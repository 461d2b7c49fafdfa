# Verification of fastpysgi

TLA+ models of the fastpysgi HTTP server (`src/fastwsgi/*.c`, `src/fastpysgi.py`),
TLC runs that check them on small instances, and proofs that TLAPS checks for
every value of the constants.

## 1. The system

fastpysgi is a CPython extension: a single-threaded HTTP/1.1 server on libuv and
llhttp that runs a WSGI application directly in its libuv callbacks, or an ASGI
application in an asyncio loop that runs libuv from inside one of its own callbacks.

| Component | State | Operations | Talks to |
|---|---|---|---|
| WSGI connections (`server.c` 60-890, `request.c`) | `client_t`: state, receive buffer and its status, parser, keep-alive, times, response body counters, the write request | `connection_cb`, `alloc_cb`, `read_cb`, `x_write_cb`, `write_cb`, `shutdown_cb`, `close_cb`, `client_aux_check` | libuv (callbacks), llhttp (callbacks), the application (calls), the process-wide Python error indicator (shared) |
| Server lifecycle (`server.c` 893-1306) | `g_srv`: settings, `exit_code`, sockets, signal handle | `init_server`, `init_srv`, `run_server`, `run_nowait`, `signal_handler`, `close_server`, `change_setting` | Python front end, asyncio bridge |
| Asyncio bridge (`asgi.c` 23-329) | `aio`: the loop, `uni_loop_state` | `asyncio_init`, `aio_loop_run`, `uni_loop`, `aio_loop_call`, `aio_loop_shutdown` | asyncio (`call_soon`, `call_later`, `run_forever`), libuv |
| ASGI lifespan (`lifespan.c`) | `lifespan_t`: state, three futures, the task | `lifespan_startup`, `receive`, `send`, `done`, `lifespan_shutdown` | the application's coroutine, asyncio |
| ASGI connections (`asgi.c` 331-923) | `asgi_t`: scope, receive and send futures, response progress | `asgi_call_app`, `receive`, `send`, `done` | connections (`stream_write`, `write_cb`), asyncio |
| WSGI response body (`request.c` 1095-1276) | chunk array, preloaded, total and written sizes | `wsgi_body_preload`, `wsgi_iterator_get_next_chunk` | the application's iterator |
| TLS (`tls.c`) | BIO pair, encryption buffers, handshake state | handshake, decrypt, encrypt, flush | connections, OpenSSL |
| start_response (`start_response.c`) | status, headers, exc_info | the call itself | the application |
| Buffers and conversions (`xbuf.h`, `common.c`) | `xbuf_t` | resize, expand, percent decoding | everything |
| Python front end (`fastpysgi.py`) | options, worker list | `init`, `run`, `close`, `multi_run` | the extension, the operating system |
| Constants, logging, Python helpers, libssl loader | none that behaviour depends on | | |

What is hard here:

- **Order of callbacks.** A connection has one read callback, one response write,
  interim writes, a shutdown, a close and a service timer, in any order libuv
  delivers them. What may happen next is decided from one field (`client->state`)
  that several paths overwrite.
- **Pipelining.** `rx.buf` may hold several requests; it is frozen, reading stops, and
  `write_cb` resumes the parsing. Losing one of these steps is a connection that waits
  for nothing; doing one twice is a request parsed twice.
- **Shared state.** All callbacks of all connections share the Python error indicator.
- **Nested loops.** asyncio runs `uni_loop`, which runs libuv, which sets `exit_code`,
  which stops asyncio, which must run again to shut the application down.
- **Futures.** They are resolved by delayed calls, so an answer of `done()` is stale
  when the call is made.

What makes each component correct is stated in sections 3 to 7; `PROJECT.json` lists
the hazards at their lines and the properties that cover them.

## 2. Plan

| # | Module | Subject | Model and runs | Proofs |
|---|---|---|---|---|
| 1 | `WsgiConnection`, `HttpExchange`, `WsgiExchange` | connections with a WSGI application, what they promise, the refinement | done | `WsgiConnectionProofs`: every safety property |
| 2 | `AsgiLifecycle` | server lifecycle, asyncio bridge, lifespan | done; open: closing of the handles | `AsgiLifecycleProofs`: every safety property |
| 3 | `AsgiConnection` | the coroutine of a request, its send future, streaming, `asgi_done`, the read timer; implements `HttpExchange` | done | `AsgiConnectionProofs`: every safety property |
| 4 | `TlsStream` | handshake, decryption until the buffer is full, encryption and flush; implements `HttpExchange` | done | `TlsStreamProofs`, `TlsPlaintextProofs`, `TlsExchangeProofs`: every safety property |
| 5 | `WsgiResponse` | `start_response`, preload, next chunk, framing; covered by the choices of `WsgiConnection` | done | `WsgiResponseProofs`: every property the run checks |
| 6 | `Workers` | `multi_run`, `run_nowait`, `change_setting` | open | |

`AsgiConnection` and `TlsStream` take the reading half, the parser and the socket from
`WsgiConnection` (`W == INSTANCE WsgiConnection WITH ...`), so a change there changes all
three; `HttpExchange` is the one abstract specification of all three. Proofs are in modules
of their own. No module uses a RECURSIVE operator.

## 3. Connections: `WsgiConnection`

**Correspondence.** `conn[c]` is the `client_t` of one slot, as a record whose fields
are the C fields (the comments of `Conn` give the names). The operators `stream_read_start`,
`stream_write`, `reset_response_body`, `shutdown_connection`, `TakeAction`, `ReadFin`,
`Parse`, `write_cb` ... map a `client_t` to the one the C code leaves; an action is one
libuv callback and applies the operators in the order of the code. One callback is one
atomic step, because the loop is single threaded and a WSGI application runs inside the
callback. `pyerr` is the Python error indicator, with the connection whose call set it.

**Environment.** Request data is a sequence of pieces, each of which drives the parser
one way: a part of a message, its end with or without `Connection: close`, a head with
`Expect: 100-continue`, one with an over-long `Content-Length`, or a malformed piece. A
read returns any 1..`MaxRead` pieces that make a possible stream, so one read may
complete several messages or none. The application may fail, return a whole body, a
sized or an unsized one, and its iterator may go on, end, raise or return something that
is not bytes. libuv may report a write as done or failed; a peer may close whenever it
is read. `client_aux_check` fires for a connection whose time is set; that time itself
is not counted.

**Abstracted.** Header contents and the size of heads; TLS is in section 6. A body is
counted in units, and what is made of one is in section 7.
A queued `uv_write` that libuv finished within the call is the one that `write_cb`
reports in the next step. The read timer is used for ASGI only.

**Errors left behind.** The iteration of a body may raise in `write_cb`, and an iterator that is
its own body and has no `close()` leaves an AttributeError when `reset_response_body` closes it
(request.c:175): in `write_cb`, where a resumed request finds it at once, or in `close_cb`
(`MayLeaveError`, allowed by `CloselessBodies`). A `close()` that raises leaves an error at
the same places. While an error is pending the end of any body is taken for a failure
(request.c:1161; `NextPull`). `iter` says that `response.wsgi_body` is set. Not modelled is
an iterator that is closed inside `read_cb`, for a HEAD request or a status without a
body (request.c:924): its error is found in the same callback, behind a response that is queued
already, and can only end the connection.

**Requests.** A refused message (`oversize`, 417) asks for a connection that persists; one that also says
`Connection: close` is not told apart from `endClose` data and is left out.

**`HttpExchange`** is what a connection promises: exchanges one at a time, the
application called only while the connection lives and nothing is being sent, each
exchange finished or the connection ended, a dying connection closed.
`WsgiExchange` gives the mapping; `KeepsExchanges` (safety) and `EndsExchanges`
(with fairness) are the refinement; the runs check the second, which contains the first, and
the proof is of the first. It holds of peers that do not ask for 100-continue and of
bodies that do not raise and have a `close()` (`PlainPeers` in `WsgiConnectionProofs`); section 8
says what happens otherwise.

`begun` counts the response heads written for messages. The 500 that a stray exception
of another connection causes (`stray500`) is not one of them: it may be written for a message
that is not complete yet.

### Runs (module `MCWsgiConnection`)

| Run | Constants | Shows |
|---|---|---|
| `wsgi_any_app` | 1 connection, 4 pieces, reads of 3, bodies of 3, bodies may fall short, raise or lack a `close()` | `ParserInSync`, `OneWriteInFlight`, `DeafWhileResponding`, `NeverStuck`, `AnswersMatchRequests` |
| `wsgi_fair` | 1 connection, 3 pieces, reads of 2, bodies of 2 that are complete or raise and have a `close()`, no `Expect`, fair | `EndsExchanges`, `RequestsAreServed`, `SilentPeerIsDropped`; takes about a minute |
| `wsgi_shared_error` | 2 symmetric connections, 2 pieces that are whole, partial or bad, reads of 2, bodies of 2 that may fall short, raise or lack a `close()` | `ErrorAnswersStandAlone`: whichever connection's error is found where, the answer has nothing of a body |
| `wsgi_stray_error` | 2 connections | violation of `FaultIsOwn` |
| `wsgi_untimed_idle` | bodies may fall short | violation of `IdleIsTimed` |

**Bounds.** Four pieces in reads of three make a partly parsed message, a frozen buffer
with two requests, a resumed one that ends partial, and a read after it. Body sizes up
to three give a body in one, two and three writes, one that stops short and one that is
too long. Two connections suffice for the shared error indicator (`wsgi_shared_error`, `wsgi_stray_error`),
since the only other thing connections share is constant: one leaves the error, at the end, in the
middle or at the closing of a sized, chunked or whole body, and the other finds it with no message, half a
message, or a whole one. `wsgi_fair` leaves `Expect` out:
the completion of a 100-continue (`x_write_cb`, server.c:169) restarts reading
unless the state is `CS_RESP_SEND`, and a connection that is being shut down may have
lost that state while its response is still queued. Such a connection reads, and may
call the application again, so the refinement does not hold of it.
`wsgi_fair` has complete bodies because of what `wsgi_untimed_idle` shows: after one that
falls short, `SilentPeerIsDropped` fails; and bodies with a `close()` because of finding 1 of
section 8, which one connection can run into alone when they have none. That a connection is kept only behind a whole
body is checked where bodies are computed (`KeptOnlyWhole`, section 7).

**Fairness.** `WF` on the completion of writes, on `shutdown_cb` and `close_cb`: libuv
always reports them, with an error if need be. A peer that never drains its socket
would delay the report for as long as it likes; that is assumed away and listed as a
hazard. `WF` on `client_aux_check`: the service timer repeats, and a time that is set
is eventually overdue. No fairness is assumed of peers. `SilentPeerIsDropped` needs all
timeouts configured, as the run's constants say; the default is none.

## 4. Lifecycle: `AsgiLifecycle`

**Correspondence.** `pc` says in which of the nested loops `run_server` is: `uv_run` for
WSGI, `run_until_complete` of the startup, `run_forever`, `run_until_complete` of the
shutdown, the final `uv_run` calls of `close_server`. While an asyncio loop runs,
these interleave: `uni_loop` (which runs libuv, and so may deliver Ctrl-C or read a
request), one step of the lifespan coroutine, one delayed `set_result`, and
`lifespan_done`. `timers` is the queue of delayed calls in FIFO order, as asyncio
keeps calls of equal delay; `ulq` counts the scheduled calls of `uni_loop`. `UL_RUNNING`
is not modelled: no code reads it, and no callback runs while `uni_loop` does.

The application receives, completes or fails the startup, answers the shutdown, sends
an event nobody knows, returns or raises, whenever it runs. It reports startup and
shutdown at most once and awaits what it sends.

`run_until_complete` raises when the loop is stopped before its future is done. The C
code does not clear that exception and goes on calling Python. What these calls do is
undefined in CPython; the model (`raised`) lets them work or be refused.

**Abstracted.** The choice of `call_soon` or `call_later` in `uni_loop` depends on
timing and is free. An `init_server` that fails leaves `g_srv` as it was. A second
Ctrl-C while the server closes meets the default handler and ends the process; this is
not modelled. The closing of handles, `run_nowait` and `multi_run` are left to
later modules.

### Runs (module `MCAsgiLifecycle`)

| Run | Constants | Shows |
|---|---|---|
| `asgi_lifecycle` | every setting, two runs of the server, two receives or unknown events, fair | `UniLoopScheduledOnce`, `CompletedAppsAreShutDown`, `FailedStartupAborts`, `FuturesResolveOnce`, `ShutdownIsWaitedFor`; and `StartupEnds`, `SigintEndsRunOfStayers` |
| `asgi_early_http` | default settings | violation of `NoRequestBeforeStartup` |
| `asgi_early_return` | coroutine may return early, fair | violation of `SigintEndsRun` |

`SigintEndsRun` is what the documents promise of Ctrl-C, `SigintEndsRunOfStayers` what
holds: the server ends, or waits for the shutdown of a coroutine that had ended when `close_server`
began (`GoneBeforeShutdown`). One that ends later, with or without the shutdown event and with or
without an answer, is no excuse: `lifespan_done` must resolve the future then (lifespan.c:330).

**Bounds.** Two receives are what an application needs for a full protocol, and enough
to receive once too often in each phase. Two runs of the server suffice to carry state
from one to the next. One request is enough to be early.

**Fairness.** asyncio serves its queue, so `uni_loop`, `SetResult` and `lifespan_done`
are weakly fair, and so is the C code between two loops. `WF(AppStep)` assumes an
application that does not compute for ever; nothing makes it answer. Ctrl-C and
requests are not fair.

## 5. ASGI connections: `AsgiConnection`

**Correspondence.** `conn` is the `client_t` of section 3. `obj[n]` is the `asgi_t` that
`on_message_begin` makes for the n-th message, together with the coroutine that holds
its `receive` and `send`; `asgi` is `client->asgi`, as the number of the object; `timer`
says whether the read timer is armed. `asgi_call_app`, `asgi_receive`, `asgi_send` and
`asgi_done` are actions of the same names. `AddChunk`, `asgi_build_response` and
`WriteBody` are the three parts of a body event; `AsgiWritten` is the ASGI branch of
`write_cb`, whose other branch, taken when `asgi_done` has run first, is the WSGI one.
`refs` counts references: those of the connection, of the bound methods and of the task.
`frame` is a history variable that says how far the message on the wire is.

**Atomicity.** libuv and asyncio share one thread. A callback is atomic, and so is what a
coroutine does from one await to the next call; everything in between interleaves: a
write is reported, a timeout fires, a peer closes, a pipelined request waits in the
frozen buffer. A result that is set by a delayed call reaches the coroutine when it runs
next, which is after the callback in any case.

**Environment.** The application receives, sends a start event (with a status that allows
a body, one that does not, one that has no name, or a bad one), bodies of no or one unit
with and without `more_body`, a body that is not bytes, or an unknown event, and returns
or raises, in any order. Every application here awaits what it sends and ends when a
send has failed. What else applications and peers do is a set of habits, constant during a
run: `stops` (returns, or waits in a second `receive`, before its last chunk), `empty`
(streams a body that is or must be empty), `expect` (the peer asks for 100-continue).
Several properties name the habits under which they hold, since the code does not keep
them otherwise:

- with `stops`, a task that ends while a stream is open leaves `CS_RESP_SEND`; nothing
  then reads, writes or times the connection (asgi.c:858-863), and a second `receive`
  waits for a future that nothing resolves (asgi.c:633);
- with `empty`, a stream of empty chunks ends "0 CRLF" without its last CRLF
  (asgi.c:755, request.c:1044), and a streamed response to HEAD, or with 204 or 304, goes on after its head.
  It counts as complete when the head is written, so the idle timeout runs
  under the coroutine;
- with `expect`, the completion of the interim answer restarts reading while the
  coroutine runs (server.c:169). What is read is frozen behind it; when the coroutine's send
  fails, the read timer is armed (asgi.c:826), and it parses the frozen request (server.c:468)
  while another is being answered, so that two responses are with libuv at a time. It takes four
  pieces of request data, one more than `asgi_conn` has. `OneWriteInFlight` and
  `AwaitedSendIsUnderWay` therefore leave `expect` out; `NeverStuck` holds with it.

Not modelled: two sends without an await between them, which hand the one write request
to libuv twice since `asgi_send` overwrites `CS_RESP_SEND` (asgi.c:721), and a send after one that failed.

**Refinement.** `KeepsExchanges`: with a plain application each step is a step of
`HttpExchange`, where the exchange lasts until `asgi_done` and a connection in
`CS_DESTROY` is dying.

### Runs (module `MCAsgiConnection`)

| Run | Constants | Shows |
|---|---|---|
| `asgi_conn` | 3 pieces, reads of 2, 3 sends a coroutine, no habit or one, fair | `OneWriteInFlight`, `AwaitedSendIsUnderWay`, `NeverOrphanedUntold`, `NeverStuck`, `FramedWhole`, `KeepsExchanges`, `RequestsAreServed`; about two minutes |
| `asgi_refs` | 2 pieces, no habit | violation of `ReleasedLikeAsgiFree` |

**Bounds.** Three pieces in reads of two make a request that waits in the frozen buffer
while the first coroutine runs, and one that is read after it. Three sends are a start
and a body in two parts, or one event too many. One connection is enough: connections
share nothing but constants here.

**Fairness.** That of section 3, the read timer, asyncio's queue (`asgi_done`), and
coroutines that go on when they may. `GiveUp` is not fair: a second `receive` may wait
for ever. `RequestsAreServed` leaves `stops` and `expect` out for the reasons above.

`asgi_conn` may stop when its connection is closed and its coroutines are gone, so
deadlock is not checked there, nor in the other runs of one connection in sections 5 to 7.

## 6. TLS: `TlsStream`

**Correspondence.** `conn` is the `client_t` again; `tls` is the `tls_client_t`. The
actions are those of section 3 with the TLS branches of `alloc_cb`, `read_cb`,
`stream_write` and `x_send_status`; `FlightWritten` is `tls_write_cb`. `read_cb` does what
`tls_process_rx_data` does, in its order: feed the SSL object, take a handshake step,
flush its output, decrypt until there is no more or `rx.buf` is full, then parse.

**Environment.** The network carries units, each of which ends a TLS record or does not;
OpenSSL returns what is in whole records. What it produces is a sequence of record
numbers: a peer that misses one cannot decrypt the next (`gap`). A peer sends a hello,
waits for an answer, ends the handshake and sends requests, at once (`eager`, as TLS 1.3
allows) or when it has the server's last flight; it may send a close_notify or junk at
any time. The last step of the handshake may or may not have output (session tickets).
Left out are a flight of the peer's handshake that is split over several reads, so that a step
of the handshake has no output (tls.c:569-581), and a second hello (HelloRetryRequest).

### Runs (module `MCTlsStream`)

| Run | Constants | Shows |
|---|---|---|
| `tls_stream` | 3 pieces of request data, buffers of 2, peers of either kind, fair | `PlaintextInOrder`, `RecordsInOrder`, `NothingLeftBehind`, `DeafWhileResponding`, `NeverStuck`, `KeepsExchanges`, `SilentPeerIsDropped` |

**Bounds.** With room for two units a record of two units, split over two reads, fills
`rx.buf`, and a third stays behind in the SSL object. One handshake is all a connection has.

**What the properties except.** `NothingLeftBehind` excepts a read that filled `rx.buf`:
the rest is decrypted only when the peer sends again (tls.c:608). `RecordsInOrder` excepts
100-continue, which is encrypted and then never written (server.c:198), and the dying
connection of an eager peer, whose answer may be encrypted into a buffer that libuv still
writes from. `KeepsExchanges` is about peers that wait for the server's last flight: the
completion of that flight (tls.c:456, whose comment says "response data sent") reads on also
for a connection that is being shut down.

**Fairness.** As in section 3.

## 7. Making a response: `WsgiResponse`

**Correspondence.** `start` is the `StartResponse` object, `resp` the `response` part of a
`client_t`, with the chunk array as the items it points to. `start_response_call`,
`wsgi_iterator_get_next_chunk`, `wsgi_body_preload`, `process_wsgi_response`,
`build_response` and `stream_write` are functions of these records; the preloading loop is
a recursive function (`Preloads`). `Finish`, `Close` and `WriteMore` are the outcomes of
`write_cb`. `wire` is what was written: what the head announces, the items, whether the
size lines fit, whether the last chunk is there.

**Inputs.** A body is its items, each a size, something that is not bytes, or an exception;
its kind (a bytes object, a generator, another iterable, or none of these); whether its
items are fresh objects, which the code takes as the sign of a file (request.c:1232); a
`Content-Length` that may be absent, malformed, or any number; and whether the
method or the status allows a body. A HEAD request is two inputs, since the head is made from
llhttp's copy of the method (request.c:1030), which `llhttp_reset` (server.c:602) clears when the
request used up its buffer: then the answer is made as for 204 and 304. `start_response` is called any number of times, rightly or
wrongly. An application returns only after a call that was accepted; what happens
otherwise is undefined (request.c:1100) and listed as a hazard.

### Run (module `MCWsgiResponse`)

`wsgi_response` checks every such body of up to four items with `max_preloaded_body_chunks`
1 (48 in the code) and a `max_chunk_size` of 3: four items are two more than the array
holds, so the array and the chunk size each stop the loading at each place. Requests
follow each other, so that what one leaves behind would be found by the next.
`BuffersFit` says that the arrays suffice, `SentInOrder` that each item is written once, in
order; `SoundBodiesAreSent` that no sound body is refused or cut short.
`KeptOnlyWhole` relates the announced size to what was written when a connection is
kept; the body that falls short of its `Content-Length` is excepted, as in `wsgi_untimed_idle`.
`CoveredByWsgiConnection` is the link between the two levels: each response computed here, and
each outcome of a write, is one that `WsgiConnection` chooses from (`Reply`, `Pull`).

## 8. What disagrees with the documents

Five runs have a violation as their expected result; `findings` in `PROJECT.json`
quotes the lines.

1. `wsgi_stray_error`: an exception left by one connection's body iterator in `write_cb`
   is charged to the next request of another connection (500). So is the AttributeError of an
   iterator without `close()`, although no body raised; and a body of another connection that
   ends while an error is pending is cut off.
2. `wsgi_untimed_idle`: a body that ends short of its `Content-Length` leaves a kept
   connection that no timeout covers.
3. `asgi_early_http`: HTTP requests are read before the application has started.
4. `asgi_early_return`: an application whose lifespan coroutine has returned makes
   Ctrl-C hang.
5. `asgi_refs`: `asgi_done` says it equals `asgi_free`, but does not release the
   connection's reference; each `send` that returns the object releases one it does not
   own. The counts are right for a request with exactly one such `send`. An application that
   raises first leaks its object; one more such `send`, or a connection that closes
   after the first, releases it once too often.

Met while modelling, and in no run of their own:

- `run_server` returns `exit_code` from memory that `close_server` has zeroed
  (server.c:1226), so the return value is always 0.
- With `hook_sigint = 0` under ASGI, Ctrl-C is not ignored, since asyncio's own handler
  ends `run_forever` with `KeyboardInterrupt`.
- Data that arrives together with a close_notify is dropped (server.c:536); lines
  698-704, which would answer it, are not reached.
- A preloaded body that is longer than its `Content-Length`, of which not all was loaded,
  is sent over-long before the connection closes.
- `close_cb` frees a client whose read timer may still be closing (server.c:112).
- A 500 caused by a stray exception (finding 1) sets `last_time` of a connection whose
  message is incomplete. `client_aux_check` may then shut it down (server.c:237) while its own
  response is in flight, and `write_cb` goes on with the frozen buffer and calls the application for
  a connection that is being shut down. It takes two connections and four pieces of request data, or one
  connection whose bodies have no `close()`.
- A HEAD request that is alone in its buffer is announced `Content-Length: 0` instead of the
  application's length (section 7). This follows from llhttp's documentation of `llhttp_reset`; its
  source is not part of the repository.
- A peer that asks for 100-continue can have two responses of an ASGI connection in flight
  (section 5). The code logs "client state cannot equ CS_RESP_SEND" there (server.c:360) and
  goes on.
- The exceptions of sections 5 and 6.

## 9. Proofs

TLAPS checks every proof for all values of the constants: any number of connections,
pieces of request data, sends and runs of the server, and any settings. The named ASSUMEs of the
modelled components, which only give the constants their types, are the only assumptions, unless
a theorem names another. The argument is always the same: an invariant that implies the
property holds initially and is kept by every action, with one case per action; lemmas
go through the operators in the order of the code.

| Module | Theorems | About |
|---|---|---|
| `WsgiConnectionProofs` | `Typed`, `WritesAreExclusive`, `RespondingIsDeaf` | `TypeOK`, `OneWriteInFlight`, `DeafWhileResponding` |
| | `InSync`, `AlwaysListens`, `AnsweredOnce`, `ErrorsStandAlone` | `ParserInSync`, `NeverStuck`, `AnswersMatchRequests`, `ErrorAnswersStandAlone` |
| | `PlainPeersAreServed` | `KeepsExchanges`: `WsgiConnection` implements `HttpExchange` |
| `AsgiLifecycleProofs` | `Typed`, `ScheduledOnce`, `ToldOfShutdown`, `StartupGuards`, `ResolvedOnce`, `WaitsForShutdown` | `TypeOK`, `UniLoopScheduledOnce`, `CompletedAppsAreShutDown`, `FailedStartupAborts`, `FuturesResolveOnce`, `ShutdownIsWaitedFor` |
| `AsgiConnectionProofs` | `Typed`, `OneWrite`, `Awaited`, `Untold`, `FramesWhole` | `TypeOK`, `OneWriteInFlight`, `AwaitedSendIsUnderWay`, `NeverOrphanedUntold`, `FramedWhole` |
| | `NeverLeftAlone`, `PlainExchanges`, `ImplementsExchange` | `NeverStuck` without `expect`; `KeepsExchanges`: `AsgiConnection` implements `HttpExchange` |
| `TlsStreamProofs` | `RespondingIsDeaf`, `NeverLeftAlone` | `DeafWhileResponding`, `NeverStuck` of `TlsStream` |
| `TlsPlaintextProofs` | `TypeCorrect`, `NothingLostOrRepeated`, `NothingForgotten` | `TypeOK`, `PlaintextInOrder`; `NothingLeftBehind` for buffers of two units or more |
| `TlsExchangeProofs` | `NoRecordIsMissed` | `RecordsInOrder` |
| | `ExchangesStart`, `PatientPeersAreServed` | `KeepsExchanges`: for patient peers `TlsStream` implements `HttpExchange` |
| `WsgiResponseProofs` | `ResponseTyped`, `ChunksFit`, `ItemsInOrder`, `KeptWhole`, `SoundIsSent`, `ConnectionCovers` | `TypeOK`, `BuffersFit`, `SentInOrder`, `KeptOnlyWhole`, `SoundBodiesAreSent`, `CoveredByWsgiConnection` |

**`WsgiConnectionProofs`.** `OneWriteInFlight` is not inductive: a second write is excluded by
`state = CS_RESP_SEND`, and only while the connection lives; a connection being shut
down or closed loses that state, but `uv_write` is refused then. The invariant `IInv`
says that every connection is `Good`: typed, at most one response in the write queue,
and if it lives with a response queued, then it is in `CS_RESP_SEND` and not reading.
`Quiet` is the part of `Good` a callback needs before it may write: the connection is
dead, or it has no response queued. What only closes, stops or restarts reading follows a quiet
connection (`Follows`); `stream_write` takes a quiet connection to a good one; `ReadFin`,
`Parse`, `FinishResponse` and `write_cb` are compositions; `ReportQuiet` says that a
connection whose response has just been reported is quiet.

`TInv` adds what has been read, heard and answered (`Settled`).
`Counted` is `ParserInSync`; to keep it, every buffer that is not frozen must have been parsed to
its end (`Drained`), since the next `alloc_cb` empties it. `Answered` counts response heads
against messages, with one more behind a parse error, where nothing may live. `Heard` is
`NeverStuck`. `Same`, `Silent` and `Speaks` sort the operators by what they leave alone, and compose.

`ErrorAnswersStandAlone` rests on `PInv`: a live connection with no response queued has no chunked body
(`Unframed`), so `build_response` does reset the body of an error answer; a queued response is then
the application's or `Bare` (`Proper`), and `write_cb` asks nothing for more of a bare one. Whose
error it was plays no part.

The last part is the step simulation: each action is a step of `HttpExchange` under the
mapping of `WsgiExchange`, or a stutter. It needs `PlainPeers` (no peer asks for 100-continue, no
body raises or lacks a `close()`) and, of every connection, that it is `Idle` (nothing queued; who reads
lives) or `Sending` (one response queued, no time of the service timer set, and if it is dying, no
frozen buffer that `write_cb` would go on with), `Plain`, and unused before it is opened.
The attempt to prove it with raising bodies showed that the refinement fails there, which the
bound of the run had hidden (section 8).

**`AsgiLifecycleProofs`.** `UniLoopScheduledOnce` depends on why the asyncio loop was told to
stop: `Scheduled` counts the waiting calls of `uni_loop` in each of the nested loops, and
only a KeyboardInterrupt leaves one behind a loop that stops. The futures are resolved by delayed
calls, so `Queue` says which calls can wait for each place of the coroutine (never more
than two, that of a future before that of a send) and `Futures` that the future of a waiting call is
still pending. `Protocol` relates `lifespan.state` to what the application has heard and said.

**`AsgiConnectionProofs`.** The invariant has a layer for each set of habits. `TInv` (types, the
count of request data, by which every message has an object) holds always; `QInv` without
`expect`: what writes, waits or runs belongs to the object of the connection, nothing reads or
parses under it, and the read timer runs only for a coroutine that was told or for nobody;
`SInv` without `empty` as well: a coroutine that owes a part of its response has a live connection
that no timeout covers (`Untimed`), and the stage of its response on the wire is that of its
object (`Streaming`). `Untold` and `FramesWhole` need all of `SInv`. The attempt to prove `OneWriteInFlight` without the
restriction found the case with `expect` of section 5.

`NInv` adds to `QInv` who acts next, when no peer asks for 100-continue: a
live connection in `CS_DESTROY` has its read timer running (`Doomed`); the timer runs for a live
connection only when that is doomed or its buffer frozen (`Handed`); a coroutine that was told has a
doomed connection (`Told`); behind the last chunk the idle time is set and the state is not that of
a write, so `asgi_done` does start reading (`Latest`, `Ended`); a request that has begun is timed
(`Mid`). `Listens` is `NeverStuck`. `Stepping` reduces the actions to a few kinds: a step that
ends the connection, one that parses, one of the coroutine on its object, a send, `asgi_done` and
the completions. The refinement takes them one by one: which step of `HttpExchange` each is
follows from the phase, from whether the connection is busy and from the count of responses
before and after. That last one, `Served`, leaves out the response of a coroutine
that has written its last chunk and not ended, as the exchange ends with `asgi_done`.

**`TlsStreamProofs`.** A completed flight of the handshake reads on whatever has happened since
(`tls_write_cb`), and flights, status lines and the response share a write queue. `Good` says
that a live connection sends one response and is deaf (`Sends`), or has none queued, reads and is
timed (`Listens`). For a flight that is reported it suffices that `stream_read_start` does nothing
in `CS_RESP_SEND`. No operator makes a connection live again, so one that is not needs only its
`Shape`: the write queue and the sizes of the response. Parsing starts `Ready` (no response
queued, timed, reading or with a frozen buffer). When an iterator ends, `write_cb` sets no time;
that the connection is timed then rests on the bodies of this module, which are as long as
declared. What the SSL object holds plays no part: the proof leaves open what was decrypted.

**`TlsPlaintextProofs`.** `PlaintextInOrder` needs to know when `SSL_read` is called at all: not
during the handshake, so that `rx.buf` is empty until it is over, and afterwards by every read of the
socket. The invariant `Ordered` has `Unread` (what was given to `bio_in` is what the parser has consumed,
then `rx.buf`, then the units SSL holds), `Tight` (SSL holds at most one unit, and none that can be read unless the
last read filled `rx.buf`), the agreement of `hs`, of the peer's phase and of what SSL holds
(`Handshake`), and, for `TypeOK`, that as many flights are queued as writes own records
(`Matched`), since `tls_write_cb` frees the first of them. `Readable`, `Flights` and `PlainUpTo` are characterised
once, for any sequence of units; each step of `read_cb` is then a lemma: what is given (`Fed`),
what the handshake takes, what `SSL_read` returns and what the parser makes of it. `NothingForgotten`
assumes `MaxRead >= 2`: the server allows no read buffer below 32K (`MIN_read_buffer_size`,
server.h:20), and a unit is at most a record of 16K.

**`TlsExchangeProofs`.** Neither `RecordsInOrder` nor `KeepsExchanges` is inductive: whether the peer
misses a record depends on what is still queued, and whether a callback may answer on what was answered
before. `Promised` says of the write queue that each write in it is a flight that owns its records (`Free`), or
that one response follows these, whose records are in `enc_out` (`Busy`); of the records, that those queued are
`seen + 1`, `seen + 2`, ... and that a live connection has produced no others (`Numbered`); of a queued
response, that its connection does not read, has no time set, and, if it is shut down, will not go on with a
frozen buffer (`Held`, as `Sending` for `WsgiConnection`); of a patient peer, that no request data exists before the last
flight is written (`Sober`), so that no response ever queues behind a flight of its own handshake. How much of this is
claimed depends on the peer: nothing of one that asked for 100-continue, whose status line is
encrypted and never written; for an eager one only while the connection lives; for a patient one to the end.
The C functions are followed again, now by what they add to the queue (`Mute`, `Spoke`, `Answered`; `Ended`,
`Carried`, `Over` for `write_cb`), and each callback ends in `Fulfils`: the promise is kept, and for a patient peer the step is
one of the seven kinds (`Exchanged`) that `ExchangeStep` takes to `HttpExchange`. The proofs need
`Ordered`, for instance that rx.buf holds no `expect` that the peer has not sent, and `IInv`, so that the last
flight reported behind a response does not start reading. Before the proof TLC checked `Promised` and
`Fulfils` in every state and step of the instance of `tls_stream`; no run of the project repeats that.

**`RecursiveFunctions`.** The library's induction takes an operator as its parameter, which the
provers cannot instantiate; `Induct` takes a set of numbers instead, and rests on `<` being well founded,
as does `Recursion`, by which a recursive function on `0 .. m` exists and is the one its equation gives.
`PlainUpTo`, `Bytes` and the loop of `wsgi_body_preload` are such functions.

**`WsgiResponseProofs`.** For bodies of any length and any `max_preloaded_body_chunks`. Its assumptions
are `SizesAssumption`, `SourcesAssumption` (an exact bytes object is its only item) and
`BodiesAssumption`, which says that the bound `MaxBody` counts the bytes of a whole body and of its
beginnings; only `ConnectionCovers` needs it, since the replies of `WsgiConnection` have
that bound. `NextItem` says that the
iterator ends, fails, or gives the next item that is not empty. The loop keeps `Loop`: what has
been loaded is `NonEmptyUpTo` of where the iterator stands, or is still to be fetched from
the first item of a generator, and each turn that goes on adds an item, so that the full array ends
it (`LoopStops`). `Made` is what `process_wsgi_response` then leaves: the whole body, or a beginning
of it with the size that `Content-Length` announces or with chunks. The invariant `IInv` says by phase
what stands: while a write is under way (`OnItsWay`) the bytes written and those in the write are
the ones on the wire, and unless the body is there as a whole, the items on the wire are those before the
iterator (`Partly`). `ClosedIsUnsound` is why a sound body is not cut off: the iterator cannot fail,
and what it has given cannot exceed what was announced. For
`ConnectionCovers` the operators of `WsgiConnection` are followed on the `client_t`
that `client->response` is a part of (`Carries`).

**Only model-checked.**

- Liveness: `EndsExchanges`, `RequestsAreServed`, `SilentPeerIsDropped`, `StartupEnds`,
  `SigintEndsRunOfStayers`. Fairness needs ENABLED, which these provers do not handle.
- `NeverStuck` of `AsgiConnection` with `expect`: the completion of the interim answer reads under
  the coroutine, so that neither `QInv` nor `NInv` holds.

## 10. Not modelled

- `run_nowait`, `change_setting` during a run, `multi_run` and the closing of handles in
  `close_server`: planned (`Workers`).
- Percent decoding, the growth of an `xbuf_t`, header names and values: functions of
  their arguments that unit tests reach.
- The server-side TLS context, set up once at start, and the functions of `tls.c` that
  nothing calls (`tls_shutdown`, `tls_feed_encrypted`, `tls_read_decrypted`, `tls_find_app_pkt`).
- What `close()` of a WSGI iterator does, and the changed `buffer_size` of a `FileWrapper`.
- What is undefined once it happens: a NULL `client` or `headers` that is followed, an
  object that was released too often, CPython calls made with an exception set.
- Constants, logging, the CPython helpers and the libssl loader have no state that the
  behaviour depends on.
