------------------------------- MODULE TlsStream -------------------------------
(***************************************************************************)
(* A connection of a fastpysgi server over TLS: tls.c between libuv and    *)
(* the HTTP connection of WsgiConnection, whose operators are used for     *)
(* everything behind the decryption.                                       *)
(*                                                                         *)
(* The network carries units.  A unit is the last one of its TLS record,   *)
(* or the record goes on in the next unit; what a record holds can be read *)
(* when its last unit is there.  The SSL object (OpenSSL, external) is     *)
(* modelled by the units it was given and has not returned, and by the     *)
(* numbers of the records it has produced: a peer cannot decrypt a record  *)
(* when the one before it is missing.                                      *)
(***************************************************************************)
EXTENDS Integers, SequencesExt

CONSTANTS
  MaxTokens,        (* bound: units the peer sends                          *)
  MaxRead,          (* g_srv.read_buffer_size, in units: of one read from   *)
                    (* the socket, and of plaintext that rx.buf has room for*)
  AllowKeepalive,   (* g_srv.allow_keepalive                                *)
  ReadReqTimeout,   (* is g_srv.read_req_timeout configured?                *)
  CurrReqTimeout,   (* is g_srv.curr_req_timeout configured?                *)
  NextReqTimeout,   (* is g_srv.next_req_timeout configured?                *)
  PeerTokens,       (* the pieces of request data that the peer sends       *)
  Eager             (* do peers send requests along with their last flight, *)
                    (* as in TLS 1.3, or wait for the server's?             *)

ASSUME BoundsAssumption == MaxTokens \in Nat /\ MaxRead \in Nat
ASSUME EagerAssumption == Eager \subseteq BOOLEAN

VARIABLES
  conn,     (* the client_t, as in WsgiConnection; a "flight" in conn.wq is *)
            (* a write of tls_flush_enc_out                                 *)
  tls       (* the tls_client_t, and what the peer makes of the records     *)

vars == <<conn, tls>>

W == INSTANCE WsgiConnection WITH
       Clients <- {1}, NoClient <- 0, MaxBody <- 1, ShortBodies <- FALSE,
       RaisingBodies <- FALSE, CloselessBodies <- FALSE,
       conn <- [c \in {1} |-> conn], pyerr <- 0

ASSUME PeersAssumption == PeerTokens \subseteq W!Token

-----------------------------------------------------------------------------
(* What a record may hold, besides request data.                           *)
Unit == [piece : PeerTokens \cup {"hello",      \* a flight that is answered
                                  "finished",   \* ends the handshake
                                  "notify",     \* close_notify
                                  "junk"},      \* refused by OpenSSL
         last  : BOOLEAN]

(* What the peer has sent: nothing, a hello, a whole handshake, the first  *)
(* unit of a record, or an alert or junk, after which it sends no more.    *)
PeerPhase == {"start", "hello", "secure", "inside", "over"}

(* The records a..b, in the order in which SSL produced them. *)
Records == [a : Nat, b : Nat]
NoRecords == [a |-> 1, b |-> 0]

Tls ==
  [hs     : {"TLS_HS_PENDING", "TLS_HS_DONE", "TLS_HS_ERROR"},
   notify : BOOLEAN,              \* close_notify
   ssl    : Seq(Unit),            \* given to bio_in, not returned
   made   : Nat,                  \* records that SSL has produced
   out    : Records,              \* in enc_out
   copies : Seq(Records),         \* in the writes that own their data
   (* history *)
   plain  : Seq(PeerTokens),      \* request data given to bio_in
   peer   : PeerPhase,
   eager  : BOOLEAN,              \* constant
   seen   : Nat,                  \* the last record the peer has received
   gap    : BOOLEAN]              \* the peer missed a record

(* Mutant: hs_state stays as memset has left it. *)
tls_client_init_NotUsed(eager) ==
  [hs |-> "TLS_HS_NOTUSED", notify |-> FALSE, ssl |-> <<>>, made |-> 0,
   out |-> NoRecords, copies |-> <<>>, plain |-> <<>>,
   peer |-> "start", eager |-> eager, seen |-> 0, gap |-> FALSE]

tls_client_init(eager) ==
  [hs |-> "TLS_HS_PENDING", notify |-> FALSE, ssl |-> <<>>, made |-> 0,
   out |-> NoRecords, copies |-> <<>>, plain |-> <<>>,
   peer |-> "start", eager |-> eager, seen |-> 0, gap |-> FALSE]

-----------------------------------------------------------------------------
(* Sending.                                                                *)

(* SSL_write, or a handshake step with output, and bio_drain_to_xbuf: the  *)
(* new record joins enc_out, which is reset first for chunk 0.             *)
Drained(t, reset) ==
  [t EXCEPT !.made = @ + 1,
            !.out = IF reset \/ @.b < @.a THEN [a |-> t.made + 1, b |-> t.made + 1]
                                          ELSE [@ EXCEPT !.b = t.made + 1]]

(* tls_flush_enc_out: the records are copied into a write of their own.    *)
tls_flush_enc_out(t) ==
  [t EXCEPT !.copies = Append(@, t.out), !.out = NoRecords]

(* Mutant: every buffer starts enc_out over. *)
tls_data_encode_ResetsEach(t, nbufs) ==
  LET r == t.made + nbufs IN [t EXCEPT !.made = r, !.out = [a |-> r, b |-> r]]

(* tls_data_encode: one SSL_write for each buffer of the response.         *)
tls_data_encode(t, nbufs) ==
  [t EXCEPT !.made = @ + nbufs, !.out = [a |-> t.made + 1, b |-> t.made + nbufs]]

(* The buffers of stream_write: head or chunk prefix, body, chunk end.     *)
Buffers(k) == 1 + (IF k.pre > 0 THEN 1 ELSE 0)
                + (IF k.chunked = 1 THEN 1 ELSE 0)

(* x_send_status encrypts the status line, resets enc_out and then takes   *)
(* the size of what is in it: nothing is written.                          *)
StatusLost(t) == [t EXCEPT !.made = @ + 1, !.out = NoRecords]

(* What the writes of a callback do to the TLS state: k is the client_t    *)
(* before them and l after them.                                           *)
Encoded(t, k, l) ==
  LET new == SubSeq(l.wq, Len(k.wq) + 1, Len(l.wq))
      queued == {new[i] : i \in DOMAIN new}
      u == IF "status" \in queued THEN StatusLost(t) ELSE t
  IN IF "resp" \in queued THEN tls_data_encode(u, Buffers(l)) ELSE u

(* The peer receives a write. *)
Received(t, r) ==
  [t EXCEPT !.seen = r.b, !.gap = @ \/ (r.a <= r.b /\ r.a # t.seen + 1)]

-----------------------------------------------------------------------------
(* Receiving.                                                              *)

(* The units that can be read: whole records, up to an alert or a failure. *)
Readable(s) ==
  LET whole == {i \in DOMAIN s : s[i].last}
      ends == {i \in whole : s[i].piece \in {"notify", "junk"}}
  IN IF ends # {} THEN Min(ends) - 1
                  ELSE IF whole = {} THEN 0 ELSE Max(whole)

(* tls_do_handshake: SSL takes the flights it has.  A hello is answered; a *)
(* ticket after the last flight, or an alert after a failure, may follow.  *)
Flights(s) ==
  LET other == {i \in DOMAIN s : s[i].piece # "hello"}
  IN IF other = {} THEN Len(s)
     ELSE Min(other) - (IF s[Min(other)].piece = "finished" THEN 0 ELSE 1)

tls_do_handshake(t) ==
  LET n == Flights(t.ssl)
      rest == SubSeq(t.ssl, n + 1, Len(t.ssl))
  IN [t EXCEPT !.ssl = rest,
               !.hs = IF n > 0 /\ t.ssl[n].piece = "finished" THEN "TLS_HS_DONE"
                      ELSE IF rest # <<>> THEN "TLS_HS_ERROR" ELSE @]

Outputs(t) ==
  CASE t.hs = "TLS_HS_DONE" -> {FALSE}
    [] t.hs # "TLS_HS_DONE" /\ tls_do_handshake(t).hs = "TLS_HS_PENDING" -> {TRUE}
    [] OTHER -> BOOLEAN

(* Mutant: SSL_read is called once. *)
Decrypted_Once(t) == SubSeq(t.ssl, 1, Min({1, Readable(t.ssl)}))

(* The loop of SSL_read: until rx.buf is full, or there is no more to read *)
(* or an alert or a failure comes next.                                    *)
Decrypted(t) == SubSeq(t.ssl, 1, Min({MaxRead, Readable(t.ssl)}))
ComesNext(t, piece) ==
  LET r == Len(Decrypted(t))
  IN r < MaxRead /\ r < Len(t.ssl) /\ t.ssl[r + 1].piece = piece
(* Mutant: what does not fit is dropped. *)
SSL_read_DropsRest(t) ==
  [t EXCEPT !.ssl = <<>>, !.notify = ComesNext(t, "notify")]

SSL_read(t) ==
  [t EXCEPT !.ssl = SubSeq(@, Len(Decrypted(t)) + 1, Len(@)),
            !.notify = ComesNext(t, "notify")]

-----------------------------------------------------------------------------
(* What one read may return: what a TLS peer sends, or junk.  A flight of  *)
(* the peer's handshake is one unit, and there is one hello.               *)
Follows(phase, u) ==
  CASE phase = "start" /\ u = [piece |-> "hello", last |-> TRUE] -> "hello"
    [] phase = "hello" /\ u = [piece |-> "finished", last |-> TRUE]
       /\ tls.seen > 0 -> "secure"
    [] phase = "secure" /\ u.piece \in PeerTokens
       /\ (tls.eager \/ (tls.hs = "TLS_HS_DONE" /\ tls.copies = <<>>)) ->
         IF u.last THEN "secure" ELSE "inside"
    [] phase = "inside" /\ u.piece \in PeerTokens /\ u.last -> "secure"
    [] phase = "secure" /\ u = [piece |-> "notify", last |-> TRUE] -> "over"
    [] phase \in {"start", "hello", "secure"}
       /\ u = [piece |-> "junk", last |-> TRUE] -> "over"
    [] OTHER -> "illegal"

(* Where the peer is after each of the units. *)
Phases(units) ==
  LET after[n \in 0 .. Len(units)] ==
        IF n = 0 THEN tls.peer ELSE Follows(after[n - 1], units[n])
  IN after

Pieces(units) == [i \in DOMAIN units |-> units[i].piece]

(* The request data among the first n units. *)
PlainUpTo(units) ==
  LET upTo[n \in 0 .. Len(units)] ==
        IF n = 0 THEN <<>>
        ELSE IF units[n].piece \in PeerTokens
        THEN Append(upTo[n - 1], units[n].piece) ELSE upTo[n - 1]
  IN upTo
Plain(units) == PlainUpTo(units)[Len(units)]

PeerData ==
  {units \in UNION {[1 .. n -> Unit] : n \in 1 .. MaxRead} :
     /\ Phases(units)[Len(units)] # "illegal"
     /\ Len(tls.plain) + Len(Plain(units)) <= MaxTokens}

(* BIO_write to bio_in. *)
Given(units) ==
  [tls EXCEPT !.ssl = @ \o units, !.plain = @ \o Plain(units),
              !.peer = Phases(units)[Len(units)]]

-----------------------------------------------------------------------------
(* The callbacks libuv delivers.                                           *)

(* Mutant: the time of the first request starts after the handshake. *)
connection_cb_Untimed ==
  /\ conn.uv = "none"
  /\ \/ conn' = [W!Fresh EXCEPT !.uv = "open", !.state = "CS_REQ_READ",
                                !.reading = TRUE]
     \/ conn' = [W!Fresh EXCEPT !.uv = "closing", !.state = "CS_DESTROY"]
  /\ UNCHANGED tls

(* Accepted, or closed at once: uv_accept or tls_client_init has failed.   *)
connection_cb ==
  /\ conn.uv = "none"
  /\ \/ conn' = [W!Fresh EXCEPT !.uv = "open", !.state = "CS_REQ_READ",
                                !.reading = TRUE, !.reqT = TRUE]
     \/ conn' = [W!Fresh EXCEPT !.uv = "closing", !.state = "CS_DESTROY"]
  /\ UNCHANGED tls

(* alloc_cb gives no buffer when the last one is frozen, or when bio_in    *)
(* holds more than half a buffer.  A record that is not complete is not in *)
(* bio_in any more: SSL has taken it.                                      *)
Refuses(k, t) ==
  \/ k.rx = "RXS_FREEZED"
  \/ Readable(t.ssl) > 0 /\ Len(t.ssl) > MaxRead \div 2

(* The rest of read_cb after the handshake step, which left t and the      *)
(* client_t w.                                                             *)
Closes(t) == t.hs = "TLS_HS_ERROR" \/
             (t.hs = "TLS_HS_DONE" /\ (ComesNext(t, "junk") \/ ComesNext(t, "notify")))
Waits(t) == t.hs = "TLS_HS_PENDING" \/ (~Closes(t) /\ Decrypted(t) = <<>>)

(* When the connection is shut down already, stream_write encrypts the     *)
(* answer before uv_write refuses it.                                      *)
Decrypts(t, w) ==
  LET k == [w EXCEPT !.buf = Pieces(Decrypted(t)), !.recvd = @ + Len(Decrypted(t))]
  IN \E e \in 1 .. Len(k.buf), r \in W!Reply :
       /\ W!EndsAt(k, e)
       /\ conn' = W!Parse(k, e, r, FALSE)
       /\ tls' = IF W!NotConn(w) /\ conn'.state = "CS_DESTROY"
                 THEN tls_data_encode(SSL_read(t), 1)
                 ELSE Encoded(SSL_read(t), w, conn')

read_cb ==
  /\ conn.uv = "open" /\ conn.reading
  /\ \E units \in PeerData : LET g == Given(units) IN
       IF Refuses(conn, tls)
       THEN conn' = W!TakeAction(conn, "CA_SHUTDOWN") /\ tls' = g
       ELSE \E output \in Outputs(g) :
              LET h == IF g.hs = "TLS_HS_DONE" THEN g ELSE tls_do_handshake(g)
                  t == IF output THEN tls_flush_enc_out(Drained(h, TRUE)) ELSE h
                  k == W!alloc_cb(conn, <<>>)
                  w == IF output THEN [k EXCEPT !.wq = Append(@, "flight")] ELSE k
              IN CASE output /\ W!NotConn(conn) ->
                        conn' = W!TakeAction(k, "CA_SHUTDOWN") /\ tls' = h
                   [] ~(output /\ W!NotConn(conn)) /\ Closes(t) ->
                        /\ conn' = W!TakeAction(w, "CA_CLOSE")
                        /\ tls' = SSL_read(t)
                   [] ~(output /\ W!NotConn(conn)) /\ Waits(t) ->
                        conn' = W!stream_read_start(w) /\ tls' = t
                   [] OTHER -> Decrypts(t, w)

(* read_cb with UV_EOF or an error. *)
PeerCloses ==
  /\ conn.uv = "open" /\ conn.reading
  /\ conn' \in {W!TakeAction(conn, act) : act \in {"CA_SHUTDOWN", "CA_CLOSE"}}
  /\ UNCHANGED tls

Reported == [conn EXCEPT !.wq = Tail(@)]
Reports(kind) == conn.wq # <<>> /\ Head(conn.wq) = kind

(* Mutant: reads on whatever has happened meanwhile. *)
tls_write_cb_Reads(k) ==
  IF k.uv = "open" THEN [k EXCEPT !.state = "CS_REQ_READ", !.reading = TRUE] ELSE k

(* tls_write_cb with status 0 reads on, in or after the handshake. *)
tls_write_cb(k) == W!stream_read_start(k)

FlightWritten ==
  /\ Reports("flight")
  /\ \/ /\ conn' = W!Drain(tls_write_cb(Reported))
        /\ tls' = [Received(tls, Head(tls.copies)) EXCEPT !.copies = Tail(@)]
     \/ /\ conn' = W!close_connection(Reported)
        /\ tls' = [tls EXCEPT !.copies = Tail(@)]

(* write_cb with status 0; libuv has read enc_out until now. *)
ResponseWritten ==
  /\ Reports("resp")
  /\ \E k \in {Reported}, n \in W!NextPull(conn), r \in W!Reply,
        e \in 0 .. Len(conn.buf) :
       /\ IF W!Resumes(k) /\ W!Exhausted(k, n) THEN W!EndsAt(k, e)
                                                ELSE e = 0 /\ r.kind = "fail"
       /\ \E l \in {W!write_cb(k, n, e, r, FALSE)} :
            /\ conn' = W!Drain(l)
            /\ tls' = Encoded(Received(tls, tls.out), k, l)

WriteFailed ==
  /\ Reports("resp")
  /\ conn' = W!close_connection([Reported EXCEPT !.pre = 0])
  /\ UNCHANGED tls

(* x_write_cb after a write of no bytes. *)
StatusWritten ==
  /\ Reports("status")
  /\ conn' = W!Drain(W!stream_read_start(Reported))
  /\ UNCHANGED tls

shutdown_cb ==
  /\ conn.uv = "open" /\ conn.shut /\ conn.wq = <<>>
  /\ conn' = W!close_connection(conn)
  /\ UNCHANGED tls

(* close_cb; tls_client_free releases the SSL object and enc_out. *)
close_cb ==
  /\ conn.uv = "closing" /\ conn.wq = <<>>
  /\ conn' = [W!reset_response_body(conn) EXCEPT
                !.uv = "closed", !.rx = "RXS_RESTING", !.reading = FALSE]
  /\ tls' = [tls EXCEPT !.ssl = <<>>, !.out = NoRecords]

client_aux_check ==
  /\ conn.uv = "open" /\ W!Overdue(conn)
  /\ conn' = W!shutdown_connection(W!stream_read_stop(conn))
  /\ UNCHANGED tls

-----------------------------------------------------------------------------
Init == conn = W!Fresh /\ tls \in {tls_client_init(eager) : eager \in Eager}

Next ==
  \/ connection_cb \/ read_cb \/ PeerCloses
  \/ FlightWritten \/ ResponseWritten \/ WriteFailed \/ StatusWritten
  \/ shutdown_cb \/ close_cb \/ client_aux_check

Spec == Init /\ [][Next]_vars

(* The loop runs on: libuv reports every write, shutdown and close, and    *)
(* the service timer fires again and again.                                *)
Fairness ==
  /\ WF_vars(FlightWritten \/ ResponseWritten \/ WriteFailed \/ StatusWritten)
  /\ WF_vars(shutdown_cb) /\ WF_vars(close_cb) /\ WF_vars(client_aux_check)

FairSpec == Spec /\ Fairness

-----------------------------------------------------------------------------
(* Properties.                                                             *)

(* client_t and tls_client_t keep the shape of their C declarations        *)
(* (server.h, tls.h).                                                      *)
TypeOK ==
  /\ [conn EXCEPT !.wq = <<>>] \in W!Conn
  /\ conn.wq \in Seq({"flight", "status", "resp"})
  /\ tls \in Tls

Alive == W!Alive(conn)
InFlight == {i \in DOMAIN conn.wq : conn.wq[i] = "resp"}

(* What a live connection has received is what was parsed, then what is in *)
(* rx.buf, then what the SSL object holds: read_cb, which starts rx.buf    *)
(* over on every read, neither loses nor repeats a byte, also when SSL_read*)
(* filled the buffer (server.c:526-541, tls.c:585-611).                    *)
PlaintextInOrder ==
  Alive /\ conn.parser # "error" =>
    SubSeq(tls.plain, conn.ppos + 1, Len(tls.plain)) =
      SubSeq(conn.buf, conn.parsed + 1, Len(conn.buf)) \o Plain(tls.ssl)

(* A peer that waits for the server's last flight, and asks for no         *)
(* 100-continue.                                                           *)
Patient == ~tls.eager /\ "expect" \notin Range(tls.plain)

(* Every record that SSL produced reaches the peer, in order: enc_out is   *)
(* not started over between two buffers of a response, nor while libuv     *)
(* still writes from it (tls.c:413-425, 498-525, server.c:393-404).        *)
RecordsInOrder ==
  /\ "expect" \notin Range(tls.plain) /\ Alive => ~tls.gap
  /\ Patient /\ conn.uv = "open" => ~tls.gap

(* While a response is on its way a live connection neither reads nor      *)
(* leaves CS_RESP_SEND, although the last flight of the handshake may be   *)
(* reported in between, and reads on (tls.c:466).                          *)
DeafWhileResponding ==
  Alive /\ InFlight # {} => conn.state = "CS_RESP_SEND" /\ ~conn.reading

(* A live connection that waits for its peer has parsed all it can: no     *)
(* record is left in the SSL object that a read could have returned, unless*)
(* the last read filled rx.buf (tls.c:608); and then what is left does not *)
(* keep alloc_cb from giving a buffer to the next read (server.c:747-766). *)
NothingLeftBehind ==
  Alive =>
    /\ InFlight = {} /\ tls.hs = "TLS_HS_DONE" /\ Len(conn.buf) < MaxRead =>
         Readable(tls.ssl) = 0
    /\ conn.reading => ~Refuses(conn, tls)

(* A live connection with no response under way listens, in the handshake  *)
(* too, and one of the times that client_aux_check compares is set.        *)
NeverStuck ==
  Alive /\ InFlight = {} => conn.reading /\ (conn.reqT \/ conn.lastT)

(* Where the connection is in an HttpExchange: dying from the moment it is *)
(* shut down or closed.                                                    *)
X == INSTANCE HttpExchange WITH
       Clients <- {1},
       phase   <- [c \in {1} |->
                     CASE conn.uv = "none"   -> "free"
                       [] conn.uv = "closed" -> "closed"
                       [] conn.uv = "open" /\ ~conn.shut -> "live"
                       [] OTHER -> "dying"],
       busy    <- [c \in {1} |-> InFlight # {}],
       served  <- [c \in {1} |-> conn.done],
       calls   <- [c \in {1} |-> conn.calls]

(* For a patient peer TLS makes no difference: each step of this module is *)
(* a step of HttpExchange or changes nothing there.                        *)
KeepsExchanges == [][Patient' => [X!Next]_(X!vars)]_vars

(* No connection outlives a silent peer, not even one that stops in the    *)
(* middle of the handshake or of a record.                                 *)
SilentPeerIsDropped == conn.uv = "open" ~> conn.uv = "closed"
=============================================================================
