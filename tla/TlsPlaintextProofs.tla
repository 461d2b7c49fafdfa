------------------------ MODULE TlsPlaintextProofs ------------------------
(***************************************************************************)
(* TLAPS proofs that TLS hands the request data of a peer to read_cb once  *)
(* and in the order it was written, whatever the peer and the network cut  *)
(* the bytes into, and that nothing is left in SSL, in the BIOs or in the  *)
(* client_t while the server waits for the socket.                         *)
(*                                                                         *)
(* The invariant Ordered says of a connection that lives that the request  *)
(* data given to bio_in is what the parser has consumed, then what is in   *)
(* rx.buf, then what SSL holds (Unread), and that SSL is read as far as    *)
(* rx.buf has room (Tight); and of every connection that its queued        *)
(* flights are as many as the writes that own records, and where it is in  *)
(* the handshake (Whole).  The module goes from request data among the     *)
(* units, through the queue of writes and the steps of the handshake, to   *)
(* one lemma for each callback.                                            *)
(***************************************************************************)
EXTENDS TlsStreamProofs, RecursiveFunctions

-----------------------------------------------------------------------------
(* Request data among the units.                                           *)

Units == Seq(Unit)
Asked(u) == u.piece \in PeerTokens

(* The recursion that PlainUpTo is defined by. *)
LEMMA PlainUpToIs ==
  ASSUME NEW s \in Units
  PROVE  /\ PlainUpTo(s)[0] = <<>>
         /\ \A n \in 1 .. Len(s) :
              PlainUpTo(s)[n] = IF Asked(s[n])
                                THEN Append(PlainUpTo(s)[n - 1], s[n].piece)
                                ELSE PlainUpTo(s)[n - 1]
         /\ \A n \in 0 .. Len(s) : PlainUpTo(s)[n] \in Seq(PeerTokens)
<1> DEFINE m == Len(s)
           D == Seq(PeerTokens)
           step == [n \in 1 .. m |->
                      [v \in D |-> IF s[n].piece \in PeerTokens
                                   THEN Append(v, s[n].piece) ELSE v]]
           U == PlainUpTo(s)
<1>1. m \in Nat /\ <<>> \in D
  BY DEF Units
<1>2. \A n \in 1 .. m : \A v \in D :
        s[n].piece \in PeerTokens => Append(v, s[n].piece) \in D
  OBVIOUS
<1>3. step \in [1 .. m -> [D -> D]]
  BY <1>2
<1>4. \A n \in 1 .. m : \A v \in D :
        step[n][v] = IF s[n].piece \in PeerTokens
                     THEN Append(v, s[n].piece) ELSE v
  OBVIOUS
<1> HIDE DEF m, D, step
<1>5. PICK f \in [0 .. m -> D] :
        f[0] = <<>> /\ \A n \in 1 .. m : f[n] = step[n][f[n - 1]]
  <2>1. Recursive(m, D, <<>>, step)
    BY <1>1, <1>3 DEF Recursive
  <2> QED
    BY <2>1, Recursion
<1>6. \A n \in 1 .. m :
        f[n] = IF s[n].piece \in PeerTokens
               THEN Append(f[n - 1], s[n].piece) ELSE f[n - 1]
  <2> SUFFICES ASSUME NEW n \in 1 .. m
               PROVE  f[n] = IF s[n].piece \in PeerTokens
                             THEN Append(f[n - 1], s[n].piece) ELSE f[n - 1]
    OBVIOUS
  <2>1. n - 1 \in 0 .. m
    BY <1>1
  <2>2. f[n - 1] \in D
    BY <2>1
  <2> QED
    BY <1>4, <1>5, <2>2
<1>7. f = [n \in 0 .. Len(s) |->
             IF n = 0 THEN <<>>
             ELSE IF s[n].piece \in PeerTokens
             THEN Append(f[n - 1], s[n].piece) ELSE f[n - 1]]
  <2>1. \A n \in 0 .. m :
          f[n] = IF n = 0 THEN <<>>
                 ELSE IF s[n].piece \in PeerTokens
                 THEN Append(f[n - 1], s[n].piece) ELSE f[n - 1]
    <3> SUFFICES ASSUME NEW n \in 0 .. m
                 PROVE  f[n] = IF n = 0 THEN <<>>
                               ELSE IF s[n].piece \in PeerTokens
                               THEN Append(f[n - 1], s[n].piece) ELSE f[n - 1]
      OBVIOUS
    <3>1. CASE n = 0
      BY <1>5, <3>1
    <3>2. CASE n # 0
      <4>1. n \in 1 .. m
        BY <1>1, <3>2
      <4> QED
        BY <1>6, <3>2, <4>1, Zenon
    <3> QED
      BY <3>1, <3>2
  <2> QED
    BY <2>1 DEF m
<1>8. U = [n \in 0 .. Len(s) |->
             IF n = 0 THEN <<>>
             ELSE IF s[n].piece \in PeerTokens
             THEN Append(U[n - 1], s[n].piece) ELSE U[n - 1]]
  BY <1>7, Zenon DEF PlainUpTo
<1> HIDE DEF U
<1>9. U[0] = <<>> /\ \A n \in 1 .. m :
        U[n] = IF s[n].piece \in PeerTokens
               THEN Append(U[n - 1], s[n].piece) ELSE U[n - 1]
  <2>1. \A n \in 0 .. m :
          U[n] = IF n = 0 THEN <<>>
                 ELSE IF s[n].piece \in PeerTokens
                 THEN Append(U[n - 1], s[n].piece) ELSE U[n - 1]
    BY <1>8 DEF m
  <2> QED
    BY <1>1, <2>1
<1>10. \A n \in 0 .. m : U[n] \in D
  <2> DEFINE S == {n \in Nat : n <= m => U[n] \in D}
  <2>1. 0 \in S
    BY <1>1, <1>9
  <2>2. ASSUME NEW n \in Nat, n \in S PROVE n + 1 \in S
    <3> SUFFICES ASSUME n + 1 <= m PROVE U[n + 1] \in D
      OBVIOUS
    <3>1. n + 1 \in 1 .. m /\ (n + 1) - 1 = n /\ U[n] \in D
      BY <1>1, <2>2
    <3>2. U[n + 1] = IF s[n + 1].piece \in PeerTokens
                     THEN Append(U[n], s[n + 1].piece) ELSE U[n]
      BY <1>9, <3>1, Zenon
    <3>3. s[n + 1].piece \in PeerTokens => Append(U[n], s[n + 1].piece) \in D
      BY <1>2, <3>1
    <3> QED
      BY <3>1, <3>2, <3>3
  <2> HIDE DEF S
  <2>3. \A n \in Nat : n \in S
    BY <2>1, <2>2, Induct
  <2> QED
    BY <1>1, <2>3 DEF S
<1> QED
  BY <1>9, <1>10 DEF U, m, D, Asked

(* Of two sequences that agree up to n, the request data up to n is the    *)
(* same.                                                                   *)
LEMMA PlainAgrees ==
  ASSUME NEW s \in Units, NEW v \in Units,
         NEW n \in Nat, n <= Len(s), n <= Len(v),
         \A i \in 1 .. n : s[i] = v[i]
  PROVE  PlainUpTo(s)[n] = PlainUpTo(v)[n]
<1> DEFINE A == PlainUpTo(s)
           B == PlainUpTo(v)
           S == {i \in Nat : i <= n => A[i] = B[i]}
<1>1. Len(s) \in Nat /\ Len(v) \in Nat
  BY DEF Units
<1>2. /\ A[0] = <<>> /\ B[0] = <<>>
      /\ \A i \in 1 .. Len(s) :
           A[i] = IF Asked(s[i]) THEN Append(A[i - 1], s[i].piece) ELSE A[i - 1]
      /\ \A i \in 1 .. Len(v) :
           B[i] = IF Asked(v[i]) THEN Append(B[i - 1], v[i].piece) ELSE B[i - 1]
  BY PlainUpToIs
<1> HIDE DEF A, B
<1>3. 0 \in S
  BY <1>2
<1>4. ASSUME NEW i \in Nat, i \in S PROVE i + 1 \in S
  <2> SUFFICES ASSUME i + 1 <= n PROVE A[i + 1] = B[i + 1]
    OBVIOUS
  <2>1. /\ i + 1 \in 1 .. n /\ i + 1 \in 1 .. Len(s) /\ i + 1 \in 1 .. Len(v)
        /\ (i + 1) - 1 = i /\ A[i] = B[i]
    BY <1>1, <1>4
  <2>2. s[i + 1] = v[i + 1]
    BY <2>1
  <2>3. A[i + 1] = IF Asked(s[i + 1]) THEN Append(A[i], s[i + 1].piece) ELSE A[i]
    BY <1>2, <2>1, Zenon
  <2>4. B[i + 1] = IF Asked(v[i + 1]) THEN Append(B[i], v[i + 1].piece) ELSE B[i]
    BY <1>2, <2>1, Zenon
  <2> QED
    BY <2>1, <2>2, <2>3, <2>4
<1> HIDE DEF S
<1>5. n \in S
  BY <1>3, <1>4, Induct
<1> QED
  BY <1>5 DEF S, A, B

(* The request data of two sequences of units, one behind the other. *)
LEMMA PlainOfConcat ==
  ASSUME NEW s \in Units, NEW v \in Units
  PROVE  /\ Plain(s \o v) = Plain(s) \o Plain(v)
         /\ Plain(s) \in Seq(PeerTokens) /\ Plain(v) \in Seq(PeerTokens)
<1> DEFINE a == Len(s)
           b == Len(v)
           w == s \o v
           B == PlainUpTo(v)
           C == PlainUpTo(w)
           d == PlainUpTo(s)[a]
           F == [n \in 0 .. b |-> d \o B[n]]
           S == {n \in Nat : n <= b => C[a + n] = F[n]}
<1>1. /\ a \in Nat /\ b \in Nat /\ w \in Units /\ Len(w) = a + b
      /\ \A i \in 1 .. a : w[i] = s[i]
      /\ \A i \in 1 .. b : w[a + i] = v[i]
  BY DEF Units
<1>2. /\ d \in Seq(PeerTokens) /\ B[0] = <<>>
      /\ \A n \in 0 .. b : B[n] \in Seq(PeerTokens)
      /\ \A n \in 1 .. b :
           B[n] = IF Asked(v[n]) THEN Append(B[n - 1], v[n].piece) ELSE B[n - 1]
  BY <1>1, PlainUpToIs
<1>3. \A n \in 1 .. a + b :
        C[n] = IF Asked(w[n]) THEN Append(C[n - 1], w[n].piece) ELSE C[n - 1]
  <2> HIDE DEF w
  <2> QED
    BY <1>1, PlainUpToIs
<1>4. C[a] = d
  <2>1. a <= Len(s) /\ a <= Len(w)
    BY <1>1
  <2> HIDE DEF w, a
  <2> QED
    BY <1>1, <2>1, PlainAgrees
<1> HIDE DEF a, b, w, B, C, d
<1>5. \A n \in 0 .. b : F[n] = d \o B[n]
  OBVIOUS
<1> HIDE DEF F
<1>6. 0 \in S
  <2>1. 0 \in 0 .. b /\ a + 0 = a
    BY <1>1
  <2>2. F[0] = d \o <<>>
    BY <1>2, <1>5, <2>1, Zenon
  <2>3. d \o <<>> = d
    BY <1>2, ConcatEmptySeq
  <2> QED
    BY <1>4, <2>1, <2>2, <2>3, Zenon
<1>7. ASSUME NEW n \in Nat, n \in S PROVE n + 1 \in S
  <2> SUFFICES ASSUME n + 1 <= b PROVE C[a + (n + 1)] = F[n + 1]
    OBVIOUS
  <2>1. /\ n + 1 \in 1 .. b /\ a + (n + 1) \in 1 .. a + b /\ n \in 0 .. b
        /\ n + 1 \in 0 .. b
        /\ (n + 1) - 1 = n /\ (a + (n + 1)) - 1 = a + n
        /\ C[a + n] = F[n]
    BY <1>1, <1>7
  <2>2. w[a + (n + 1)] = v[n + 1]
    BY <1>1, <2>1
  <2>3. B[n + 1] = IF Asked(v[n + 1]) THEN Append(B[n], v[n + 1].piece) ELSE B[n]
    BY <1>2, <2>1, Zenon
  <2>4. C[a + (n + 1)] = IF Asked(v[n + 1])
                         THEN Append(C[a + n], v[n + 1].piece) ELSE C[a + n]
    BY <1>3, <2>1, <2>2, Zenon
  <2>5. CASE Asked(v[n + 1])
    <3> DEFINE x == v[n + 1].piece
               e == B[n]
    <3>1. x \in PeerTokens /\ e \in Seq(PeerTokens)
      BY <1>2, <2>1, <2>5 DEF Asked
    <3>2. /\ C[a + (n + 1)] = Append(d \o e, x)
          /\ F[n + 1] = d \o Append(e, x)
      BY <1>5, <2>1, <2>3, <2>4, <2>5, Zenon
    <3> HIDE DEF x, e
    <3>3. Append(d \o e, x) = d \o Append(e, x)
      BY <1>2, <3>1
    <3> QED
      BY <3>2, <3>3
  <2>6. CASE ~Asked(v[n + 1])
    BY <1>5, <2>1, <2>3, <2>4, <2>6, Zenon
  <2> QED
    BY <2>5, <2>6
<1> HIDE DEF S
<1>8. b \in S
  BY <1>1, <1>6, <1>7, Induct
<1>9. C[a + b] = F[b] /\ b \in 0 .. b
  BY <1>1, <1>8 DEF S
<1>10. F[b] = d \o B[b]
  BY <1>5, <1>9
<1>11. B[b] \in Seq(PeerTokens)
  BY <1>2, <1>9
<1>12. Plain(w) = C[a + b] /\ Plain(s) = d /\ Plain(v) = B[b]
  BY <1>1 DEF Plain, B, C, d, a, b
<1> QED
  BY <1>2, <1>9, <1>10, <1>11, <1>12 DEF w

(* Units that all carry request data, and units of which none does. *)
LEMMA PlainOfAll ==
  ASSUME NEW s \in Units, \A i \in 1 .. Len(s) : Asked(s[i])
  PROVE  Plain(s) = Pieces(s)
<1> DEFINE A == PlainUpTo(s)
           m == Len(s)
           S == {n \in Nat : n <= m =>
                   Len(A[n]) = n /\ \A i \in 1 .. n : A[n][i] = s[i].piece}
<1>1. m \in Nat /\ DOMAIN s = 1 .. m
  BY DEF Units
<1>2. /\ A[0] = <<>> /\ \A n \in 0 .. m : A[n] \in Seq(PeerTokens)
      /\ \A n \in 1 .. m : A[n] = Append(A[n - 1], s[n].piece)
  BY PlainUpToIs
<1> HIDE DEF A, m
<1>3. 0 \in S
  BY <1>2
<1>4. ASSUME NEW n \in Nat, n \in S PROVE n + 1 \in S
  <2> SUFFICES ASSUME n + 1 <= m
               PROVE  /\ Len(A[n + 1]) = n + 1
                      /\ \A i \in 1 .. n + 1 : A[n + 1][i] = s[i].piece
    OBVIOUS
  <2>1. /\ n + 1 \in 1 .. m /\ (n + 1) - 1 = n /\ n \in 0 .. m
        /\ Len(A[n]) = n /\ \A i \in 1 .. n : A[n][i] = s[i].piece
    BY <1>1, <1>4
  <2>2. A[n + 1] = Append(A[n], s[n + 1].piece) /\ A[n] \in Seq(PeerTokens)
    BY <1>2, <2>1, Zenon
  <2> DEFINE e == A[n]
             x == s[n + 1].piece
  <2> HIDE DEF e, x
  <2>3. /\ Len(Append(e, x)) = n + 1 /\ Append(e, x)[n + 1] = x
        /\ \A i \in 1 .. n : Append(e, x)[i] = e[i]
    BY <2>1, <2>2 DEF e
  <2> QED
    BY <2>1, <2>2, <2>3 DEF e, x
<1> HIDE DEF S
<1>5. m \in S
  BY <1>1, <1>3, <1>4, Induct
<1>6. /\ A[m] \in Seq(PeerTokens) /\ Len(A[m]) = m
      /\ \A i \in 1 .. m : A[m][i] = s[i].piece
  BY <1>1, <1>2, <1>5 DEF S
<1> DEFINE e == A[m]
<1> HIDE DEF e
<1>7. e = [i \in 1 .. m |-> e[i]]
  BY <1>6 DEF e
<1> QED
  BY <1>1, <1>6, <1>7 DEF Plain, Pieces, A, m, e

LEMMA PlainOfNone ==
  ASSUME NEW s \in Units, \A i \in 1 .. Len(s) : ~Asked(s[i])
  PROVE  Plain(s) = <<>>
<1> DEFINE A == PlainUpTo(s)
           m == Len(s)
           S == {n \in Nat : n <= m => A[n] = <<>>}
<1>1. m \in Nat
  BY DEF Units
<1>2. A[0] = <<>> /\ \A n \in 1 .. m : A[n] = A[n - 1]
  BY PlainUpToIs
<1> HIDE DEF A, m
<1>3. 0 \in S
  BY <1>2
<1>4. ASSUME NEW n \in Nat, n \in S PROVE n + 1 \in S
  <2> SUFFICES ASSUME n + 1 <= m PROVE A[n + 1] = <<>>
    OBVIOUS
  <2>1. n + 1 \in 1 .. m /\ (n + 1) - 1 = n /\ A[n] = <<>>
    BY <1>1, <1>4
  <2> QED
    BY <1>2, <2>1
<1> HIDE DEF S
<1>5. m \in S
  BY <1>1, <1>3, <1>4, Induct
<1> QED
  BY <1>1, <1>5 DEF S, Plain, A, m

-----------------------------------------------------------------------------
(* What a peer sends.                                                      *)

(* Request data follows the handshake, or for a peer that waits, the       *)
(* server's last flight.                                                   *)
MayAsk == tls.eager \/ (tls.hs = "TLS_HS_DONE" /\ tls.copies = <<>>)

(* The unit u takes a peer from phase p to phase q. *)
Legal(p, u, q) ==
  \/ p = "start" /\ u.piece = "hello" /\ u.last = TRUE /\ q = "hello"
  \/ p = "hello" /\ u.piece = "finished" /\ u.last = TRUE /\ q = "secure"
  \/ p = "secure" /\ Asked(u) /\ MayAsk /\ u.last = TRUE /\ q = "secure"
  \/ p = "secure" /\ Asked(u) /\ MayAsk /\ u.last = FALSE /\ q = "inside"
  \/ p = "inside" /\ Asked(u) /\ u.last = TRUE /\ q = "secure"
  \/ p = "secure" /\ u.piece = "notify" /\ u.last = TRUE /\ q = "over"
  \/ /\ p \in {"start", "hello", "secure"} /\ u.piece = "junk" /\ u.last = TRUE
     /\ q = "over"

LEMMA NotAsked ==
  {"hello", "finished", "notify", "junk"} \cap PeerTokens = {}
  BY PeersAssumption DEF W!Token, W!Stops

LEMMA FollowsLegally ==
  ASSUME NEW p, NEW u \in Unit
  PROVE  Follows(p, u) = "illegal" \/ Legal(p, u, Follows(p, u))
<1> DEFINE q == Follows(p, u)
           asks == p = "secure" /\ u.piece \in PeerTokens
                   /\ (tls.eager \/ (tls.hs = "TLS_HS_DONE" /\ tls.copies = <<>>))
           begins == p = "start" /\ u = [piece |-> "hello", last |-> TRUE]
           ends == p = "hello" /\ u = [piece |-> "finished", last |-> TRUE]
                   /\ tls.seen > 0
           goesOn == p = "inside" /\ u.piece \in PeerTokens /\ u.last
           notifies == p = "secure" /\ u = [piece |-> "notify", last |-> TRUE]
           fails == p \in {"start", "hello", "secure"}
                    /\ u = [piece |-> "junk", last |-> TRUE]
           asked == IF u.last THEN "secure" ELSE "inside"
<1>1. q = CASE begins -> "hello" [] ends -> "secure" [] asks -> asked
            [] goesOn -> "secure" [] notifies -> "over" [] fails -> "over"
            [] OTHER -> "illegal"
  BY DEF Follows
<1>2. /\ begins => p = "start" /\ u.piece = "hello" /\ u.last = TRUE
      /\ ends => p = "hello" /\ u.piece = "finished" /\ u.last = TRUE
      /\ asks => p = "secure" /\ Asked(u) /\ MayAsk
      /\ goesOn => p = "inside" /\ Asked(u) /\ u.last = TRUE
      /\ notifies => p = "secure" /\ u.piece = "notify" /\ u.last = TRUE
      /\ fails => /\ p \in {"start", "hello", "secure"}
                  /\ u.piece = "junk" /\ u.last = TRUE
      /\ \/ u.last = TRUE /\ asked = "secure"
         \/ u.last = FALSE /\ asked = "inside"
  <2>1. u.last \in BOOLEAN
    BY DEF Unit
  <2> QED
    BY <2>1 DEF Asked, MayAsk
<1> HIDE DEF q, begins, ends, asks, goesOn, notifies, fails, asked
<1>3. \/ q = "illegal"
      \/ begins /\ q = "hello"
      \/ ends /\ q = "secure"
      \/ asks /\ q = asked
      \/ goesOn /\ q = "secure"
      \/ notifies /\ q = "over"
      \/ fails /\ q = "over"
  BY <1>1
<1>4. q = "illegal" \/ Legal(p, u, q)
  BY <1>2, <1>3 DEF Legal
<1> QED
  BY <1>4 DEF q

(* The recursion that Phases is defined by. *)
LEMMA PhasesIs ==
  ASSUME NEW s \in Units, tls.peer \in PeerPhase
  PROVE  /\ Phases(s)[0] = tls.peer
         /\ \A n \in 1 .. Len(s) : Phases(s)[n] = Follows(Phases(s)[n - 1], s[n])
<1> DEFINE m == Len(s)
           D == PeerPhase \cup {"illegal"}
           step == [n \in 1 .. m |-> [v \in D |-> Follows(v, s[n])]]
           U == Phases(s)
<1>1. m \in Nat /\ tls.peer \in D
  BY DEF Units
<1>2. ASSUME NEW n \in 1 .. m, NEW v \in D PROVE Follows(v, s[n]) \in D
  <2>1. s[n] \in Unit
    BY DEF Units
  <2>2. Follows(v, s[n]) = "illegal" \/ Legal(v, s[n], Follows(v, s[n]))
    BY <2>1, FollowsLegally
  <2> QED
    BY <2>2 DEF Legal, PeerPhase
<1>3. step \in [1 .. m -> [D -> D]]
  BY <1>2
<1>4. \A n \in 1 .. m : \A v \in D : step[n][v] = Follows(v, s[n])
  OBVIOUS
<1> HIDE DEF m, D, step
<1>5. PICK f \in [0 .. m -> D] :
        f[0] = tls.peer /\ \A n \in 1 .. m : f[n] = step[n][f[n - 1]]
  <2>1. Recursive(m, D, tls.peer, step)
    BY <1>1, <1>3 DEF Recursive
  <2> QED
    BY <2>1, Recursion
<1>6. \A n \in 1 .. m : f[n] = Follows(f[n - 1], s[n])
  <2> SUFFICES ASSUME NEW n \in 1 .. m PROVE f[n] = Follows(f[n - 1], s[n])
    OBVIOUS
  <2>1. n - 1 \in 0 .. m
    BY <1>1
  <2>2. f[n - 1] \in D
    BY <2>1
  <2> QED
    BY <1>4, <1>5, <2>2
<1>7. f = [n \in 0 .. Len(s) |->
             IF n = 0 THEN tls.peer ELSE Follows(f[n - 1], s[n])]
  <2>1. \A n \in 0 .. m :
          f[n] = IF n = 0 THEN tls.peer ELSE Follows(f[n - 1], s[n])
    <3> SUFFICES ASSUME NEW n \in 0 .. m
                 PROVE  f[n] = IF n = 0 THEN tls.peer
                               ELSE Follows(f[n - 1], s[n])
      OBVIOUS
    <3>1. CASE n = 0
      BY <1>5, <3>1
    <3>2. CASE n # 0
      <4>1. n \in 1 .. m
        BY <1>1, <3>2
      <4> QED
        BY <1>6, <3>2, <4>1, Zenon
    <3> QED
      BY <3>1, <3>2
  <2> QED
    BY <2>1 DEF m
<1>8. U = [n \in 0 .. Len(s) |->
             IF n = 0 THEN tls.peer ELSE Follows(U[n - 1], s[n])]
  BY <1>7, Zenon DEF Phases
<1> HIDE DEF U
<1>9. \A n \in 0 .. m : U[n] = IF n = 0 THEN tls.peer ELSE Follows(U[n - 1], s[n])
  BY <1>8 DEF m
<1>10. U[0] = tls.peer /\ \A n \in 1 .. m : U[n] = Follows(U[n - 1], s[n])
  BY <1>1, <1>9
<1> QED
  BY <1>10 DEF U, m

(* What one read returns is legal, unit for unit. *)
LEMMA PeerDataLegal ==
  ASSUME NEW s \in PeerData, tls.peer \in PeerPhase
  PROVE  /\ s \in Units /\ Len(s) \in 1 .. MaxRead
         /\ Phases(s)[0] = tls.peer
         /\ \A n \in 0 .. Len(s) : Phases(s)[n] \in PeerPhase
         /\ \A n \in 1 .. Len(s) : Legal(Phases(s)[n - 1], s[n], Phases(s)[n])
<1> DEFINE U == Phases(s)
           m == Len(s)
           S == {n \in Nat : n <= m => U[m - n] # "illegal"}
<1>1. s \in Units /\ m \in 1 .. MaxRead /\ U[m] # "illegal" /\ m \in Nat
  <2>1. PICK n \in 1 .. MaxRead : s \in [1 .. n -> Unit]
    BY DEF PeerData
  <2>2. s \in Units /\ Len(s) = n
    BY <2>1 DEF Units
  <2> QED
    BY <2>2, BoundsAssumption DEF PeerData
<1>2. U[0] = tls.peer /\ \A n \in 1 .. m : U[n] = Follows(U[n - 1], s[n])
  BY <1>1, PhasesIs
<1>3. \A n \in 1 .. m : s[n] \in Unit
  BY <1>1 DEF Units
<1> HIDE DEF U, m
<1>4. \A n \in 1 .. m : U[n] = "illegal" \/ Legal(U[n - 1], s[n], U[n])
  BY <1>2, <1>3, FollowsLegally
<1>5. 0 \in S
  BY <1>1
<1>6. ASSUME NEW n \in Nat, n \in S PROVE n + 1 \in S
  <2> SUFFICES ASSUME n + 1 <= m PROVE U[m - (n + 1)] # "illegal"
    OBVIOUS
  <2>1. m - n \in 1 .. m /\ (m - n) - 1 = m - (n + 1) /\ U[m - n] # "illegal"
    BY <1>1, <1>6
  <2>2. Legal(U[m - (n + 1)], s[m - n], U[m - n])
    BY <1>4, <2>1
  <2> QED
    BY <2>2 DEF Legal
<1> HIDE DEF S
<1>7. ASSUME NEW n \in 0 .. m PROVE U[n] # "illegal"
  <2>1. m - n \in Nat /\ m - n <= m /\ m - (m - n) = n
    BY <1>1
  <2>2. m - n \in S
    BY <1>5, <1>6, <2>1, Induct
  <2> QED
    BY <2>1, <2>2 DEF S
<1>8. \A n \in 1 .. m : Legal(U[n - 1], s[n], U[n])
  <2>1. \A n \in 1 .. m : n \in 0 .. m
    BY <1>1
  <2> QED
    BY <1>4, <1>7, <2>1
<1>9. ASSUME NEW n \in 0 .. m PROVE U[n] \in PeerPhase
  <2>1. CASE n = 0
    BY <1>2, <2>1
  <2>2. CASE n # 0
    <3>1. n \in 1 .. m
      BY <1>1, <2>2
    <3>2. Legal(U[n - 1], s[n], U[n])
      BY <1>8, <3>1
    <3> QED
      BY <3>2 DEF Legal, PeerPhase
  <2> QED
    BY <2>1, <2>2
<1> QED
  BY <1>1, <1>2, <1>8, <1>9 DEF U, m

-----------------------------------------------------------------------------
(* The types of a client_t.                                                *)

Flags(k) ==
  /\ k.reading \in BOOLEAN /\ k.keep \in BOOLEAN /\ k.reqT \in BOOLEAN
  /\ k.lastT \in BOOLEAN /\ k.iter \in BOOLEAN /\ k.shut \in BOOLEAN
Values(k) ==
  /\ k.state \in W!ClientState /\ k.rx \in W!RxStatus
  /\ k.buf \in Seq(W!Token) /\ k.parsed \in Nat
  /\ k.parser \in {"idle", "mid", "error"}
  /\ k.uv \in {"none", "open", "closing", "closed"}
  /\ k.recvd \in Nat /\ k.ppos \in Nat /\ k.asked \in Nat /\ k.calls \in Nat
  /\ k.begun \in Nat /\ k.done \in Nat /\ k.status \in W!Status
Typed(k) == Shape(k) /\ Values(k) /\ Flags(k)

(* The positions of the flights in a write queue. *)
FlightsIn(wq) == {i \in 1 .. Len(wq) : wq[i] = "flight"}

LEMMA OthersFlown ==
  ASSUME NEW wq \in Seq(Writes), NEW x \in {"resp", "status"}
  PROVE  FlightsIn(Append(wq, x)) = FlightsIn(wq)
<1> DEFINE v == Append(wq, x)
<1>1. /\ Len(wq) \in Nat /\ Len(v) = Len(wq) + 1 /\ v[Len(wq) + 1] = x
      /\ \A i \in 1 .. Len(wq) : v[i] = wq[i]
  OBVIOUS
<1> HIDE DEF v
<1>2. \A i \in 1 .. Len(v) : i \in 1 .. Len(wq) \/ i = Len(wq) + 1
  BY <1>1
<1>3. \A i \in 1 .. Len(wq) : i \in 1 .. Len(v)
  BY <1>1
<1>4. FlightsIn(v) = FlightsIn(wq)
  BY <1>1, <1>2, <1>3 DEF FlightsIn
<1> QED
  BY <1>4 DEF v

(* The connection stands where it stood in the stream of its peer, and     *)
(* reads on only when its buffer is not frozen.                            *)
Keeps(q, k) ==
  /\ Typed(q)
  /\ q.buf = k.buf /\ q.parsed = k.parsed /\ q.ppos = k.ppos
  /\ q.rx = k.rx /\ (q.parser = "error" => k.parser = "error")
  /\ q.reading => k.reading \/ k.rx # "RXS_FREEZED"
  /\ W!Alive(q) => W!Alive(k)
  /\ FlightsIn(q.wq) = FlightsIn(k.wq) /\ q.uv \in {k.uv, "closing"}

LEMMA KeepsOn ==
  ASSUME NEW k, NEW q, NEW p, Keeps(q, k), Keeps(p, q) PROVE Keeps(p, k)
  BY DEF Keeps

LEMMA KeepsSelf == ASSUME NEW k, Typed(k) PROVE Keeps(k, k)
  BY DEF Keeps

LEMMA CloseKeeps ==
  ASSUME NEW k, Typed(k) PROVE Keeps(W!close_connection(k), k)
<1> DEFINE q == W!close_connection(k)
<1>1. Shape(q) /\ Values(q)
  BY DEF W!close_connection, Typed, Shape, Fields, Values, W!ClientState
<1>2. Flags(q)
  BY DEF W!close_connection, Typed, Shape, Fields, Flags
<1>3. /\ q.buf = k.buf /\ q.parsed = k.parsed /\ q.ppos = k.ppos
      /\ q.rx = k.rx /\ q.parser = k.parser
      /\ q.reading => k.reading
      /\ W!Alive(q) => W!Alive(k)
      /\ q.wq = k.wq /\ q.uv \in {k.uv, "closing"}
  BY DEF W!close_connection, Typed, Shape, Fields, W!Alive
<1> QED
  BY <1>1, <1>2, <1>3 DEF Keeps, Typed

LEMMA StopKeeps ==
  ASSUME NEW k, Typed(k) PROVE Keeps(W!stream_read_stop(k), k)
<1> DEFINE q == W!stream_read_stop(k)
<1>1. Shape(q) /\ Values(q)
  BY DEF W!stream_read_stop, Typed, Shape, Fields, Values
<1>2. Flags(q)
  BY DEF W!stream_read_stop, Typed, Shape, Fields, Flags
<1> QED
  BY <1>1, <1>2 DEF Keeps, Typed, W!stream_read_stop, Shape, Fields, W!Alive

LEMMA StartKeeps ==
  ASSUME NEW k, Typed(k) PROVE Keeps(W!stream_read_start(k), k)
<1> DEFINE q == [k EXCEPT !.state = "CS_REQ_READ", !.reading = TRUE]
<1>1. Shape(q) /\ Values(q)
  BY DEF Typed, Shape, Fields, Values, W!ClientState
<1>2. Flags(q)
  BY DEF Typed, Shape, Fields, Flags
<1>3. k.rx # "RXS_FREEZED" => Keeps(q, k)
  BY <1>1, <1>2 DEF Keeps, Typed, Shape, Fields, W!Alive
<1> HIDE DEF q
<1>4. Keeps(k, k) /\ Keeps(W!close_connection(k), k)
  BY CloseKeeps, KeepsSelf
<1>5. CASE k.rx = "RXS_FREEZED" \/ k.state = "CS_RESP_SEND"
  BY <1>4, <1>5 DEF W!stream_read_start
<1>6. CASE ~(k.rx = "RXS_FREEZED" \/ k.state = "CS_RESP_SEND")
  BY <1>3, <1>4, <1>6 DEF W!stream_read_start, q
<1> QED
  BY <1>5, <1>6

LEMMA ShutKeeps ==
  ASSUME NEW k, Typed(k) PROVE Keeps(W!shutdown_connection(k), k)
<1> DEFINE q == [k EXCEPT !.state = "CS_DESTROY", !.shut = TRUE]
<1>1. Shape(q) /\ Values(q)
  BY DEF Typed, Shape, Fields, Values, W!ClientState
<1>2. Flags(q)
  BY DEF Typed, Shape, Fields, Flags
<1>3. Keeps(q, k)
  BY <1>1, <1>2 DEF Keeps, Typed, Shape, Fields, W!Alive
<1> HIDE DEF q
<1> QED
  BY <1>3, CloseKeeps DEF W!shutdown_connection, q

LEMMA ActKeeps ==
  ASSUME NEW k, Typed(k), NEW act \in W!Action
  PROVE  Keeps(W!TakeAction(k, act), k)
<1> DEFINE s == W!stream_read_stop(k)
<1>1. Keeps(s, k) /\ Typed(s)
  BY StopKeeps DEF Keeps
<1>2. \/ W!TakeAction(k, act) = k
      \/ W!TakeAction(k, act) = W!close_connection(s)
      \/ W!TakeAction(k, act) = W!shutdown_connection(s)
  BY DEF W!TakeAction, W!Action
<1> HIDE DEF s
<1>3. Keeps(W!close_connection(s), k) /\ Keeps(W!shutdown_connection(s), k)
  BY <1>1, CloseKeeps, ShutKeeps, KeepsOn
<1> QED
  BY <1>2, <1>3, KeepsSelf

LEMMA ResetKeeps ==
  ASSUME NEW k, Typed(k) PROVE Keeps(W!reset_response_body(k), k)
<1> DEFINE q == W!reset_response_body(k)
<1>1. Shape(q) /\ Values(q)
  BY DEF W!reset_response_body, Typed, Shape, Fields, Values
<1>2. Flags(q)
  BY DEF W!reset_response_body, Typed, Shape, Fields, Flags
<1> QED
  BY <1>1, <1>2 DEF Keeps, Typed, W!reset_response_body, Shape, Fields, W!Alive

LEMMA WriteKeeps ==
  ASSUME NEW k, Typed(k) PROVE Keeps(W!stream_write(k), k)
<1> DEFINE q == [k EXCEPT !.state = "CS_RESP_SEND", !.reading = FALSE,
                          !.wq = Append(@, "resp")]
           d == [k EXCEPT !.state = "CS_DESTROY"]
           s == [k EXCEPT !.state = "CS_DESTROY", !.reading = FALSE]
<1>1. k.wq \in Seq(Writes) /\ "resp" \in Writes
  BY DEF Typed, Shape, Writes
<1>2. Append(k.wq, "resp") \in Seq(Writes)
      /\ FlightsIn(Append(k.wq, "resp")) = FlightsIn(k.wq)
  BY <1>1, OthersFlown
<1>3. /\ Shape(q) /\ Values(q) /\ Shape(d) /\ Values(d) /\ Shape(s) /\ Values(s)
  BY <1>2 DEF Typed, Shape, Fields, Values, W!ClientState
<1>4. Flags(q) /\ Flags(d) /\ Flags(s)
  BY DEF Typed, Shape, Fields, Flags
<1>5. Keeps(q, k) /\ Keeps(d, k) /\ Keeps(s, k)
  BY <1>2, <1>3, <1>4 DEF Keeps, Typed, Shape, Fields, W!Alive
<1>6. W!stream_write(k) = q \/ W!stream_write(k) = d \/ W!stream_write(k) = s
  <2>1. CASE W!Writable(k)
    BY <2>1 DEF W!stream_write, W!Writable
  <2>2. CASE ~W!Writable(k)
    BY <2>2 DEF W!stream_write
  <2> QED
    BY <2>1, <2>2
<1> QED
  BY <1>5, <1>6

LEMMA HeadKeeps ==
  ASSUME NEW k, Typed(k), NEW status \in W!Status
  PROVE  Keeps(W!WriteHead(k, status), k)
<1> DEFINE v == W!stream_write(k)
           q == [v EXCEPT !.begun = IF status = "stray500" THEN @ ELSE @ + 1,
                          !.status = status]
<1>1. Keeps(v, k)
  BY WriteKeeps
<1>2. W!WriteHead(k, status) = v \/ W!WriteHead(k, status) = q
  BY DEF W!WriteHead
<1> HIDE DEF v
<1>3. Shape(q) /\ Values(q)
  BY <1>1 DEF Keeps, Typed, Shape, Fields, Values
<1>4. Flags(q)
  BY <1>1 DEF Keeps, Typed, Shape, Fields, Flags
<1>5. Keeps(q, v)
  BY <1>1, <1>3, <1>4 DEF Keeps, Typed, Shape, Fields, W!Alive
<1> QED
  BY <1>1, <1>2, <1>5, KeepsOn

LEMMA AnswerKeeps ==
  ASSUME NEW k, Typed(k), NEW status \in W!Status
  PROVE  Keeps(W!SendStatus(k, status), k)
<1> DEFINE b == W!BuildEmpty(k)
<1>1. Keeps(b, k) /\ Typed(b)
  BY ResetKeeps, KeepsSelf DEF W!BuildEmpty, Keeps
<1>2. W!SendStatus(k, status) = k \/ W!SendStatus(k, status) = W!WriteHead(b, status)
  BY DEF W!SendStatus
<1> HIDE DEF b
<1> QED
  BY <1>1, <1>2, HeadKeeps, KeepsOn, KeepsSelf

LEMMA FinKeeps ==
  ASSUME NEW k, Typed(k), NEW err \in W!Status, NEW act \in W!Action
  PROVE  Keeps(W!ReadFin(k, err, act, FALSE), k)
<1> DEFINE q == W!SendStatus(k, err)
           a == IF W!Persistent(k) THEN "CA_OK" ELSE "CA_SHUTDOWN"
<1>1. \/ W!ReadFin(k, err, act, FALSE) = W!TakeAction(k, act)
      \/ W!ReadFin(k, err, act, FALSE) = W!TakeAction(q, a)
  BY DEF W!ReadFin
<1>2. a \in W!Action
  BY DEF W!Action
<1>3. Keeps(q, k) /\ Typed(q)
  BY AnswerKeeps DEF Keeps
<1> HIDE DEF q, a
<1>4. Keeps(W!TakeAction(q, a), q)
  BY <1>2, <1>3, ActKeeps
<1>5. Keeps(W!TakeAction(q, a), k)
  BY <1>3, <1>4, KeepsOn
<1>6. Keeps(W!TakeAction(k, act), k)
  BY ActKeeps
<1> QED
  BY <1>1, <1>5, <1>6

-----------------------------------------------------------------------------
(* Parsing.                                                                *)

LEMMA BeginKeeps ==
  ASSUME NEW k, Typed(k) PROVE Keeps(W!on_message_begin(k), k)
<1> DEFINE b == W!reset_response_body(k)
           q == [b EXCEPT !.reqT = TRUE, !.lastT = FALSE, !.parser = "mid"]
<1>1. Keeps(b, k) /\ q = W!on_message_begin(k)
  BY ResetKeeps DEF W!on_message_begin
<1> HIDE DEF b
<1>2. Shape(q) /\ Values(q)
  BY <1>1 DEF Keeps, Typed, Shape, Fields, Values
<1>3. Flags(q)
  BY <1>1 DEF Keeps, Typed, Shape, Fields, Flags
<1>4. Keeps(q, b)
  BY <1>1, <1>2, <1>3 DEF Keeps, Typed, Shape, Fields, W!Alive
<1> QED
  BY <1>1, <1>4, KeepsOn

LEMMA ContinueKeeps ==
  ASSUME NEW k, Typed(k) PROVE Keeps(W!x_send_status(k), k)
<1> DEFINE d == [k EXCEPT !.state = "CS_DESTROY"]
           q == [k EXCEPT !.wq = Append(@, "status")]
<1>1. k.wq \in Seq(Writes) /\ "status" \in Writes
  BY DEF Typed, Shape, Writes
<1>2. Append(k.wq, "status") \in Seq(Writes)
      /\ FlightsIn(Append(k.wq, "status")) = FlightsIn(k.wq)
  BY <1>1, OthersFlown
<1>3. Shape(q) /\ Values(q) /\ Shape(d) /\ Values(d)
  BY <1>2 DEF Typed, Shape, Fields, Values, W!ClientState
<1>4. Flags(q) /\ Flags(d)
  BY DEF Typed, Shape, Fields, Flags
<1>5. Keeps(q, k) /\ Keeps(d, k)
  BY <1>2, <1>3, <1>4 DEF Keeps, Typed, Shape, Fields, W!Alive
<1> QED
  BY <1>5 DEF W!x_send_status

LEMMA FeedKeeps ==
  ASSUME NEW k, Typed(k), NEW e PROVE Keeps(W!Feed(k, e), k)
<1> DEFINE p == [k EXCEPT !.state = "CS_REQ_PARSE"]
           m == IF k.parser = "idle" THEN W!on_message_begin(p) ELSE p
<1>1. Shape(p) /\ Values(p)
  BY DEF Typed, Shape, Fields, Values, W!ClientState
<1>2. Flags(p)
  BY DEF Typed, Shape, Fields, Flags
<1>3. Keeps(p, k) /\ Typed(p)
  BY <1>1, <1>2 DEF Keeps, Typed, Shape, Fields, W!Alive
<1>4. W!Feed(k, e) = m \/ W!Feed(k, e) = W!x_send_status(m)
  BY DEF W!Feed
<1> HIDE DEF p
<1>5. Keeps(m, k) /\ Typed(m)
  BY <1>3, BeginKeeps, KeepsOn DEF Keeps
<1> HIDE DEF m
<1>6. Keeps(W!x_send_status(m), k)
  BY <1>5, ContinueKeeps, KeepsOn
<1> QED
  BY <1>4, <1>5, <1>6

LEMMA CompleteKeeps ==
  ASSUME NEW k, Typed(k), NEW e PROVE Keeps(W!on_message_complete(k, e), k)
<1> DEFINE q == W!on_message_complete(k, e)
<1>1. Shape(q) /\ Values(q)
  BY DEF W!on_message_complete, Typed, Shape, Fields, Values
<1>2. Flags(q)
  BY DEF W!on_message_complete, Typed, Shape, Fields, Flags
<1> QED
  BY <1>1, <1>2 DEF Keeps, Typed, W!on_message_complete, Shape, Fields, W!Alive

(* What parsing may leave: more of the buffer is parsed, and unless it is  *)
(* frozen all of it.  What is frozen is not empty.                         *)
Advances(q, k) ==
  /\ Typed(q) /\ q.buf = k.buf /\ FlightsIn(q.wq) = FlightsIn(k.wq)
  /\ q.parsed \in k.parsed .. Len(k.buf)
  /\ q.ppos = k.ppos + (q.parsed - k.parsed)
  /\ q.uv \in {k.uv, "closing"}
  /\ q.rx = "RXS_FREEZED" => k.rx = "RXS_FREEZED" \/ Len(k.buf) > 0
  /\ W!Alive(q) =>
       /\ W!Alive(k) /\ q.parser # "error"
       /\ q.rx # "RXS_FREEZED" => q.parsed = Len(q.buf)
       /\ q.reading => q.rx # "RXS_FREEZED"

LEMMA AdvancesOn ==
  ASSUME NEW k, NEW p, NEW q, Advances(p, k), Keeps(q, p)
  PROVE  Advances(q, k)
  BY DEF Advances, Keeps

(* What starts further back. *)
LEMMA AdvancesFrom ==
  ASSUME NEW k, NEW p, NEW q, Keeps(p, k), Advances(q, p)
  PROVE  Advances(q, k)
  BY DEF Advances, Keeps

(* The parser takes the buffer up to e. *)
Taken(k, e, q) ==
  /\ Typed(q) /\ q.buf = k.buf /\ q.parsed = e
  /\ q.ppos = k.ppos + (e - k.parsed)
  /\ q.parser = k.parser /\ q.reading = k.reading
  /\ q.wq = k.wq /\ q.uv = k.uv
  /\ W!Alive(q) => W!Alive(k)

LEMMA Takes ==
  ASSUME NEW k, Typed(k), NEW e \in k.parsed .. Len(k.buf)
  PROVE  LET p == [k EXCEPT !.parsed = e, !.ppos = @ + (e - k.parsed)]
         IN /\ Taken(k, e, p) /\ p.rx = k.rx
            /\ \A rx \in W!RxStatus :
                 LET q == [p EXCEPT !.rx = rx] IN Taken(k, e, q) /\ q.rx = rx
<1> DEFINE sum == k.ppos + (e - k.parsed)
           p == [k EXCEPT !.parsed = e, !.ppos = sum]
<1>1. Len(k.buf) \in Nat /\ k.parsed \in Nat /\ k.ppos \in Nat
  BY DEF Typed, Values
<1>2. e \in Nat /\ sum \in Nat
  BY <1>1
<1>3. p = [k EXCEPT !.parsed = e, !.ppos = @ + (e - k.parsed)]
  OBVIOUS
<1> HIDE DEF sum
<1>4. Shape(p) /\ Values(p)
  BY <1>2 DEF Typed, Shape, Fields, Values
<1>5. Flags(p)
  BY DEF Typed, Shape, Fields, Flags
<1>6. /\ p.buf = k.buf /\ p.parsed = e /\ p.ppos = sum /\ p.rx = k.rx
      /\ p.parser = k.parser /\ p.reading = k.reading /\ p.wq = k.wq
      /\ p.uv = k.uv /\ p.shut = k.shut
  BY DEF Typed, Shape, Fields
<1> HIDE DEF p
<1>7. Taken(k, e, p)
  BY <1>4, <1>5, <1>6 DEF Taken, Typed, W!Alive, sum
<1>8. ASSUME NEW rx \in W!RxStatus
      PROVE  LET q == [p EXCEPT !.rx = rx] IN Taken(k, e, q) /\ q.rx = rx
  <2> DEFINE q == [p EXCEPT !.rx = rx]
  <2>1. Shape(q) /\ Values(q)
    BY <1>4 DEF Shape, Fields, Values
  <2>2. Flags(q)
    BY <1>4, <1>5 DEF Shape, Fields, Flags
  <2>3. /\ q.buf = k.buf /\ q.parsed = e /\ q.ppos = sum /\ q.rx = rx
        /\ q.parser = k.parser /\ q.reading = k.reading /\ q.wq = k.wq
        /\ q.uv = k.uv /\ q.shut = k.shut
    BY <1>4, <1>6 DEF Shape, Fields
  <2> HIDE DEF q
  <2>4. Taken(k, e, q) /\ q.rx = rx
    BY <2>1, <2>2, <2>3 DEF Taken, Typed, W!Alive, sum
  <2> QED
    BY <2>4 DEF q
<1> QED
  BY <1>3, <1>6, <1>7, <1>8

(* HPE_OK: all of the buffer has been parsed. *)
LEMMA IncompleteAdvances ==
  ASSUME NEW k, Typed(k), k.parsed <= Len(k.buf),
         W!Alive(k) => k.parser # "error" /\ (k.reading => k.rx # "RXS_FREEZED")
  PROVE  Advances(W!Incomplete(k, Len(k.buf)), k)
<1> DEFINE e == Len(k.buf)
           p == [k EXCEPT !.parsed = e, !.ppos = @ + (e - k.parsed)]
           f == [p EXCEPT !.rx = "RXS_READING"]
<1>1. e \in k.parsed .. e /\ e = Len(k.buf)
  BY DEF Typed, Values
<1>2. /\ Taken(k, e, p) /\ p.rx = k.rx
      /\ Taken(k, e, f) /\ f.rx = "RXS_READING"
  BY <1>1, Takes DEF W!RxStatus
<1>3. \/ W!Incomplete(k, e) = p /\ p.rx # "RXS_FREEZED"
      \/ W!Incomplete(k, e) = W!stream_read_start(f)
  BY DEF W!Incomplete
<1> HIDE DEF p, f, e
<1>4. p.rx # "RXS_FREEZED" => Advances(p, k)
  BY <1>1, <1>2 DEF Taken, Advances
<1>5. Advances(f, k) /\ Typed(f)
  BY <1>1, <1>2 DEF Taken, Advances
<1>6. Advances(W!stream_read_start(f), k)
  BY <1>5, StartKeeps, AdvancesOn
<1> QED
  BY <1>3, <1>4, <1>6 DEF e

(* HPE_PAUSED: what is not parsed is frozen. *)
LEMMA PausedAdvances ==
  ASSUME NEW k, Typed(k), NEW e \in k.parsed .. Len(k.buf),
         W!Alive(k) => k.parser # "error"
  PROVE  Advances(W!Paused(k, e), k)
<1> DEFINE p == [k EXCEPT !.parsed = e, !.ppos = @ + (e - k.parsed)]
           f == [p EXCEPT !.rx = "RXS_READING"]
           g == [p EXCEPT !.rx = "RXS_FREEZED"]
           s == W!stream_read_stop(g)
<1>1. /\ Taken(k, e, f) /\ f.rx = "RXS_READING"
      /\ Taken(k, e, g) /\ g.rx = "RXS_FREEZED"
  BY Takes DEF W!RxStatus
<1>2. \/ W!Paused(k, e) = W!stream_read_start(f) /\ e = Len(k.buf)
      \/ W!Paused(k, e) = s /\ Len(k.buf) > 0
  <2>1. \/ e = Len(k.buf) /\ W!Paused(k, e) = W!stream_read_start(f)
        \/ e # Len(k.buf) /\ W!Paused(k, e) = s
    BY DEF W!Paused
  <2>2. e # Len(k.buf) => Len(k.buf) > 0
    BY DEF Typed, Values
  <2> QED
    BY <2>1, <2>2
<1> HIDE DEF p, f, g
<1>3. ASSUME e = Len(k.buf) PROVE Advances(W!stream_read_start(f), k)
  <2>1. Advances(f, k) /\ Typed(f)
    BY <1>1, <1>3 DEF Taken, Advances
  <2> QED
    BY <2>1, StartKeeps, AdvancesOn
<1>4. Keeps(s, g) /\ s.reading = FALSE
  BY <1>1, StopKeeps DEF Taken, W!stream_read_stop, Typed, Shape, Fields
<1> HIDE DEF s
<1>5. Len(k.buf) > 0 => Advances(s, k)
  BY <1>1, <1>4 DEF Taken, Advances, Keeps
<1> QED
  BY <1>2, <1>3, <1>5

(* The application does not touch what was received. *)
LEMMA RunKeeps ==
  ASSUME NEW k, Typed(k), NEW r \in W!Reply
  PROVE  Keeps(W!RunApplication(k, r, FALSE), k)
<1> DEFINE a == [k EXCEPT !.state = "CS_RESP_BILD", !.calls = @ + 1]
           b == [a EXCEPT !.pre = r.pre, !.total = r.total,
                          !.chunked = IF r.kind = "chunked" THEN 1 ELSE 0,
                          !.iter = TRUE]
           h == W!WriteHead(b, "200")
           act == IF W!Writable(b) THEN "CA_OK" ELSE "CA_SHUTDOWN"
<1>1. r.pre \in Nat /\ r.total \in Nat
  BY DEF W!Reply
<1>2. Shape(a) /\ Values(a)
  BY DEF Typed, Shape, Fields, Values, W!ClientState
<1>3. Flags(a)
  BY DEF Typed, Shape, Fields, Flags
<1>4. Keeps(a, k) /\ Typed(a)
  BY <1>2, <1>3 DEF Keeps, Typed, Shape, Fields, W!Alive
<1>5. \/ W!RunApplication(k, r, FALSE) = W!ReadFin(a, "500", "CA_OK", FALSE)
      \/ W!RunApplication(k, r, FALSE) = W!ReadFin(h, "none", act, FALSE)
  BY DEF W!RunApplication
<1>6. act \in W!Action /\ "CA_OK" \in W!Action
      /\ "500" \in W!Status /\ "none" \in W!Status /\ "200" \in W!Status
  BY DEF W!Action, W!Status
<1> HIDE DEF a, act
<1>7. Shape(b) /\ Values(b)
  BY <1>1, <1>4 DEF Typed, Shape, Fields, Values
<1>8. Flags(b)
  <2>1. b.iter \in BOOLEAN
    BY <1>4 DEF Typed, Shape, Fields
  <2>2. /\ b.reading = a.reading /\ b.keep = a.keep /\ b.reqT = a.reqT
        /\ b.lastT = a.lastT /\ b.shut = a.shut
    BY <1>4 DEF Typed, Shape, Fields
  <2> QED
    BY <1>4, <2>1, <2>2 DEF Typed, Flags
<1>9. Keeps(b, a)
  BY <1>4, <1>7, <1>8 DEF Keeps, Typed, Shape, Fields, W!Alive
<1> HIDE DEF b
<1>10. Keeps(h, k) /\ Typed(h)
  <2>1. Keeps(h, b)
    BY <1>6, <1>9, HeadKeeps DEF Keeps
  <2>2. Keeps(b, k)
    BY <1>4, <1>9, KeepsOn
  <2> QED
    BY <2>1, <2>2, KeepsOn DEF Keeps
<1> HIDE DEF h
<1>11. Keeps(W!ReadFin(h, "none", act, FALSE), k)
  <2>1. Keeps(W!ReadFin(h, "none", act, FALSE), h)
    BY <1>6, <1>10, FinKeeps
  <2> QED
    BY <1>10, <2>1, KeepsOn
<1>12. Keeps(W!ReadFin(a, "500", "CA_OK", FALSE), k)
  <2>1. Keeps(W!ReadFin(a, "500", "CA_OK", FALSE), a)
    BY <1>4, <1>6, FinKeeps
  <2> QED
    BY <1>4, <2>1, KeepsOn
<1> QED
  BY <1>5, <1>11, <1>12

(* read_cb from `parsing:` on. *)
LEMMA ParseAdvances ==
  ASSUME NEW k, Typed(k), NEW e, W!EndsAt(k, e), NEW r \in W!Reply,
         W!Alive(k) => k.parser # "error" /\ (k.reading => k.rx # "RXS_FREEZED")
  PROVE  Advances(W!Parse(k, e, r, FALSE), k)
<1> DEFINE p == W!Feed(k, e)
           x == [p EXCEPT !.parser = "error"]
           s == W!SendStatus(x, "400")
           m == W!on_message_complete(p, e)
           c == W!Paused(m, e)
<1>1. /\ e \in k.parsed .. Len(k.buf) /\ k.parsed <= Len(k.buf)
      /\ k.buf[e] \notin W!Stops => e = Len(k.buf)
  BY DEF W!EndsAt, W!Unparsed, Typed, Values
<1>2. Keeps(p, k) /\ Typed(p)
  BY FeedKeeps DEF Keeps
<1>3. /\ e \in p.parsed .. Len(p.buf) /\ p.parsed <= Len(p.buf)
      /\ W!Alive(p) => p.parser # "error" /\ (p.reading => p.rx # "RXS_FREEZED")
      /\ k.buf[e] \notin W!Stops => e = Len(p.buf)
  BY <1>1, <1>2 DEF Keeps
<1>4. \A act \in W!Action : \A err \in W!Status : \A q :
        Advances(q, k) => Advances(W!ReadFin(q, err, act, FALSE), k)
  <2> SUFFICES ASSUME NEW act \in W!Action, NEW err \in W!Status, NEW q,
                      Advances(q, k)
               PROVE  Advances(W!ReadFin(q, err, act, FALSE), k)
    OBVIOUS
  <2>1. Typed(q)
    BY DEF Advances
  <2>2. Keeps(W!ReadFin(q, err, act, FALSE), q)
    BY <2>1, FinKeeps
  <2> QED
    BY <2>2, AdvancesOn
<1>5. /\ "CA_OK" \in W!Action /\ "CA_SHUTDOWN" \in W!Action
      /\ "none" \in W!Status /\ "400" \in W!Status /\ "417" \in W!Status
  BY DEF W!Action, W!Status
<1>6. Advances(c, k)
  <2> HIDE DEF p
  <2>1. Keeps(m, p) /\ Typed(m)
    BY <1>2, CompleteKeeps DEF Keeps
  <2> HIDE DEF m
  <2>2. Advances(c, m)
    BY <1>3, <2>1, PausedAdvances DEF Keeps
  <2>3. Keeps(m, k)
    BY <1>2, <2>1, KeepsOn
  <2> QED
    BY <2>2, <2>3, AdvancesFrom
<1>7. CASE W!ParseFails(k, e)
  <2>1. W!Parse(k, e, r, FALSE) = W!ReadFin(s, "none", "CA_SHUTDOWN", FALSE)
    BY <1>7 DEF W!Parse
  <2>2. W!ReadFin(s, "none", "CA_SHUTDOWN", FALSE)
          = W!TakeAction(s, "CA_SHUTDOWN")
    BY DEF W!ReadFin
  <2> HIDE DEF p
  <2>3. Shape(x) /\ Values(x)
    BY <1>2 DEF Typed, Shape, Fields, Values
  <2>4. Flags(x)
    BY <1>2 DEF Typed, Shape, Fields, Flags
  <2>5. Typed(x) /\ x.buf = p.buf /\ x.parsed = p.parsed /\ x.ppos = p.ppos
        /\ x.wq = p.wq /\ x.uv = p.uv /\ x.rx = p.rx
    BY <1>2, <2>3, <2>4 DEF Typed, Shape, Fields
  <2> HIDE DEF x
  <2>6. Keeps(s, x) /\ Typed(s)
    BY <1>5, <2>5, AnswerKeeps DEF Keeps
  <2> HIDE DEF s
  <2> DEFINE q == W!TakeAction(s, "CA_SHUTDOWN")
  <2>7. Keeps(q, s) /\ ~W!Alive(q)
    BY <1>5, <2>6, ActKeeps, Acts DEF Typed, Dead
  <2> HIDE DEF q
  <2>8. Advances(q, k)
    <3>1. /\ Typed(q) /\ q.buf = k.buf /\ q.parsed = k.parsed
          /\ q.ppos = k.ppos /\ FlightsIn(q.wq) = FlightsIn(k.wq)
          /\ q.uv \in {k.uv, "closing"} /\ q.rx = k.rx
      BY <1>2, <2>5, <2>6, <2>7 DEF Keeps
    <3>2. k.parsed \in Nat /\ k.ppos \in Nat /\ Len(k.buf) \in Nat
      BY DEF Typed, Values
    <3> QED
      BY <1>1, <2>7, <3>1, <3>2 DEF Advances
  <2> QED
    BY <2>1, <2>2, <2>8 DEF q
<1>8. CASE ~W!ParseFails(k, e) /\ k.buf[e] \notin W!Stops
  <2>1. W!Parse(k, e, r, FALSE) =
          W!ReadFin(W!Incomplete(p, e), "none", "CA_OK", FALSE)
    BY <1>8, Zenon DEF W!Parse, W!Stops
  <2> HIDE DEF p
  <2>2. Advances(W!Incomplete(p, e), p)
    BY <1>2, <1>3, <1>8, IncompleteAdvances
  <2>3. Advances(W!Incomplete(p, e), k)
    BY <1>2, <2>2, AdvancesFrom
  <2> QED
    BY <1>4, <1>5, <2>1, <2>3
<1>9. CASE ~W!ParseFails(k, e) /\ k.buf[e] = "oversize"
  <2>1. W!Parse(k, e, r, FALSE) = W!ReadFin(c, "417", "CA_OK", FALSE)
    BY <1>9 DEF W!Parse, W!Stops
  <2> QED
    BY <1>4, <1>5, <1>6, <2>1
<1>10. CASE ~W!ParseFails(k, e) /\ k.buf[e] \in {"end", "endClose"}
  <2>1. W!Parse(k, e, r, FALSE) = W!RunApplication(c, r, FALSE)
    BY <1>10 DEF W!Parse, W!Stops
  <2>2. Keeps(W!RunApplication(c, r, FALSE), c)
    BY <1>6, RunKeeps DEF Advances
  <2> QED
    BY <1>6, <2>1, <2>2, AdvancesOn
<1>11. ~W!ParseFails(k, e) => k.buf[e] # "bad"
  BY DEF W!ParseFails
<1> QED
  BY <1>7, <1>8, <1>9, <1>10, <1>11 DEF W!Stops

-----------------------------------------------------------------------------
(* Completion of a response write.                                         *)

(* A live connection has parsed all it has, or holds a frozen buffer.      *)
Settled(k) ==
  W!Alive(k) =>
    /\ k.parser # "error"
    /\ k.rx # "RXS_FREEZED" => k.parsed = Len(k.buf)
    /\ k.reading => k.rx # "RXS_FREEZED"
Placed(k) ==
  /\ Typed(k) /\ k.parsed <= Len(k.buf) /\ Settled(k)
  /\ k.rx = "RXS_FREEZED" => Len(k.buf) > 0

LEMMA KeepsAdvances ==
  ASSUME NEW k, NEW q, Placed(k), Keeps(q, k) PROVE Advances(q, k)
  BY DEF Placed, Settled, Typed, Values, Keeps, Advances

LEMMA KeepsPlaced ==
  ASSUME NEW k, NEW q, Placed(k), Keeps(q, k) PROVE Placed(q)
  BY DEF Placed, Settled, Keeps

LEMMA AdvancesPlaced ==
  ASSUME NEW k, NEW q, Typed(k), Advances(q, k),
         k.rx = "RXS_FREEZED" => Len(k.buf) > 0
  PROVE  Placed(q)
  BY DEF Placed, Settled, Advances, Typed, Values

LEMMA DrainKeeps ==
  ASSUME NEW k, Typed(k) PROVE Keeps(W!Drain(k), k)
  BY CloseKeeps, KeepsSelf DEF W!Drain

LEMMA MoreKeeps ==
  ASSUME NEW k, Typed(k) PROVE Keeps(W!WriteMore(k), k)
<1> DEFINE s == W!stream_write(k)
<1>1. Keeps(s, k) /\ Typed(s)
  BY WriteKeeps DEF Keeps
<1>2. W!WriteMore(k) = s \/ W!WriteMore(k) = W!close_connection(s)
  BY DEF W!WriteMore
<1> HIDE DEF s
<1> QED
  BY <1>1, <1>2, CloseKeeps, KeepsOn

LEMMA FinishAdvances ==
  ASSUME NEW k, Placed(k), NEW e, NEW r \in W!Reply,
         W!Resumes(k) => W!EndsAt(k, e)
  PROVE  Advances(W!FinishResponse(k, e, r, FALSE), k)
<1> DEFINE d == [k EXCEPT !.done = @ + 1]
           b == W!reset_response_body(d)
           q == [b EXCEPT !.state = "CS_RESP_END"]
<1>1. Typed(k)
  BY DEF Placed
<1>2. Shape(d) /\ Values(d)
  BY <1>1 DEF Typed, Shape, Fields, Values
<1>3. Flags(d)
  BY <1>1 DEF Typed, Shape, Fields, Flags
<1>4. Keeps(d, k) /\ Typed(d)
  BY <1>1, <1>2, <1>3 DEF Keeps, Typed, Shape, Fields, W!Alive
<1>5. W!FinishResponse(k, e, r, FALSE) =
        IF ~W!Persistent(k) THEN W!close_connection(d)
        ELSE IF W!Resumes(k) THEN W!Parse(q, e, r, FALSE)
        ELSE W!stream_read_start(q)
  BY Zenon DEF W!FinishResponse, W!Resumes
<1> HIDE DEF d
<1>6. Keeps(b, k) /\ Typed(b)
  BY <1>4, ResetKeeps, KeepsOn DEF Keeps
<1> HIDE DEF b
<1>7. Shape(q) /\ Values(q)
  BY <1>6 DEF Typed, Shape, Fields, Values, W!ClientState
<1>8. Flags(q)
  BY <1>6 DEF Typed, Shape, Fields, Flags
<1>9. Keeps(q, b)
  BY <1>6, <1>7, <1>8 DEF Keeps, Typed, Shape, Fields, W!Alive
<1> HIDE DEF q
<1>10. Keeps(q, k) /\ Typed(q) /\ Placed(q)
  BY <1>6, <1>9, KeepsOn, KeepsPlaced DEF Placed
<1>11. Advances(W!close_connection(d), k)
  BY <1>4, CloseKeeps, KeepsOn, KeepsAdvances
<1>12. Advances(W!stream_read_start(q), k)
  BY <1>10, StartKeeps, KeepsOn, KeepsAdvances
<1>13. ASSUME W!Resumes(k) PROVE Advances(W!Parse(q, e, r, FALSE), k)
  <2>1. q.buf = k.buf /\ q.parsed = k.parsed
    BY <1>10 DEF Keeps
  <2>2. W!EndsAt(q, e)
    BY <1>13, <2>1 DEF W!EndsAt, W!Unparsed
  <2>3. W!Alive(q) => q.parser # "error" /\ (q.reading => q.rx # "RXS_FREEZED")
    BY <1>10 DEF Placed, Settled
  <2>4. Advances(W!Parse(q, e, r, FALSE), q)
    BY <1>10, <2>2, <2>3, ParseAdvances
  <2> QED
    BY <1>10, <2>4, AdvancesFrom
<1> QED
  BY <1>5, <1>11, <1>12, <1>13

(* What write_cb does. *)
LEMMA WriteCases ==
  ASSUME NEW k, Shape(k), NEW n \in W!Pull, NEW e, NEW r,
         n.kind = "end" /\ k.chunked = 0 => k.written + k.pre >= k.total
  PROVE  LET s == W!Sent(k)
             b == [s EXCEPT !.state = "CS_RESP_BILD"]
             w == W!write_cb(k, n, e, r, FALSE)
         IN \/ w = W!close_connection(s)
            \/ /\ W!Exhausted(k, n)
               /\ w = W!FinishResponse([s EXCEPT !.lastT = TRUE], e, r, FALSE)
            \/ w = W!close_connection(b)
            \/ w = W!WriteMore([b EXCEPT !.pre = n.size])
            \/ w = W!WriteMore([b EXCEPT !.chunked = 2])
<1> DEFINE sum == k.written + k.pre
           s == W!Sent(k)
           b == [s EXCEPT !.state = "CS_RESP_BILD"]
           l == [s EXCEPT !.lastT = TRUE]
           m == [b EXCEPT !.pre = n.size]
           o == [b EXCEPT !.chunked = 2]
           w == W!write_cb(k, n, e, r, FALSE)
<1>1. sum \in Nat /\ k.total \in Nat /\ k.chunked \in 0 .. 2
  BY DEF Shape
<1>2. n.kind \in {"chunk", "end", "raise", "notBytes"}
  BY DEF W!Pull
<1>3. s.chunked = k.chunked /\ s.total = k.total /\ s.written = sum
  BY DEF W!Sent, Shape, Fields
<1> HIDE DEF sum
<1>4. W!OverLength(s) <=> k.chunked = 0 /\ sum > k.total
  BY <1>3 DEF W!OverLength
<1>5. W!LastWritten(s) <=> k.chunked = 2 \/ (k.chunked = 0 /\ sum = k.total)
  BY <1>3 DEF W!LastWritten
<1>6. W!Pulls(k) <=> ~W!LastWritten(s) /\ ~W!OverLength(s)
  BY DEF W!Pulls
<1>7. ~(W!Pulls(k) /\ n.kind = "end" /\ k.chunked = 0)
  BY <1>1, <1>4, <1>5, <1>6 DEF sum
<1>8. ~(W!OverLength(s) /\ W!LastWritten(s))
  BY <1>1, <1>4, <1>5
<1>9. k.chunked \in {0, 1, 2} /\ (k.chunked = 2 => ~W!Pulls(k))
  BY <1>1, <1>5, <1>6
<1>10. W!LastWritten(s) => W!Exhausted(k, n)
  BY DEF W!Exhausted
<1>11. w = CASE W!OverLength(s)  -> W!close_connection(s)
             [] W!LastWritten(s) -> W!FinishResponse(l, e, r, FALSE)
             [] W!Pulls(k) /\ n.kind \in {"raise", "notBytes"} ->
                  W!close_connection(b)
             [] W!Pulls(k) /\ n.kind = "chunk" -> W!WriteMore(m)
             [] W!Pulls(k) /\ n.kind = "end" /\ k.chunked = 1 -> W!WriteMore(o)
             [] W!Pulls(k) /\ n.kind = "end" /\ k.chunked = 0 ->
                  W!FinishResponse(b, e, r, FALSE)
  BY DEF W!write_cb
<1> HIDE DEF s, b, l, m, o, w
<1>12. \/ w = W!close_connection(s)
       \/ W!LastWritten(s) /\ w = W!FinishResponse(l, e, r, FALSE)
       \/ w = W!close_connection(b)
       \/ w = W!WriteMore(m)
       \/ w = W!WriteMore(o)
  <2>1. CASE W!Pulls(k)
    BY <1>2, <1>6, <1>7, <1>9, <1>11, <2>1
  <2>2. CASE ~W!Pulls(k)
    BY <1>6, <1>8, <1>11, <2>2
  <2> QED
    BY <2>1, <2>2
<1> QED
  BY <1>10, <1>12 DEF s, b, l, m, o, w

(* write_cb moves on in the buffer when it parses the next message. *)
LEMMA WriteAdvances ==
  ASSUME NEW k, Placed(k), NEW n \in W!Pull, NEW e, NEW r \in W!Reply,
         n.kind = "end" /\ k.chunked = 0 => k.written + k.pre >= k.total,
         W!Resumes(k) /\ W!Exhausted(k, n) => W!EndsAt(k, e)
  PROVE  Advances(W!write_cb(k, n, e, r, FALSE), k)
<1> DEFINE s == W!Sent(k)
           b == [s EXCEPT !.state = "CS_RESP_BILD"]
           l == [s EXCEPT !.lastT = TRUE]
           m == [b EXCEPT !.pre = n.size]
           o == [b EXCEPT !.chunked = 2]
           w == W!write_cb(k, n, e, r, FALSE)
<1>1. Typed(k)
  BY DEF Placed
<1>2. \/ w = W!close_connection(s)
      \/ W!Exhausted(k, n) /\ w = W!FinishResponse(l, e, r, FALSE)
      \/ w = W!close_connection(b)
      \/ w = W!WriteMore(m)
      \/ w = W!WriteMore(o)
  BY <1>1, WriteCases DEF Typed
<1>3. k.written + k.pre \in Nat /\ 0 \in Nat /\ n.size \in Nat
  BY <1>1 DEF Typed, Shape, W!Pull
<1>4. Keeps(s, k) /\ s.keep = k.keep
  <2>1. Shape(s) /\ Values(s)
    BY <1>1, <1>3 DEF W!Sent, Typed, Shape, Fields, Values, W!ClientState
  <2>2. Flags(s)
    BY <1>1 DEF W!Sent, Typed, Shape, Fields, Flags
  <2> QED
    BY <1>1, <2>1, <2>2 DEF W!Sent, Keeps, Typed, Shape, Fields, W!Alive
<1> HIDE DEF s, w
<1>5. Keeps(l, s) /\ l.keep = s.keep /\ Keeps(b, s)
  <2>1. Shape(l) /\ Values(l) /\ Shape(b) /\ Values(b)
    BY <1>4 DEF Keeps, Typed, Shape, Fields, Values, W!ClientState
  <2>2. Flags(l) /\ Flags(b)
    BY <1>4 DEF Keeps, Typed, Shape, Fields, Flags
  <2> QED
    BY <1>4, <2>1, <2>2 DEF Keeps, Typed, Shape, Fields, W!Alive
<1> HIDE DEF l, b, m, o
<1>6. Keeps(m, b) /\ Keeps(o, b)
  <2> DEFINE size == n.size
  <2>3. size \in Nat /\ m = [b EXCEPT !.pre = size] /\ 2 \in 0 .. 2
    BY <1>3 DEF m
  <2> HIDE DEF size
  <2>4. Shape(m) /\ Shape(o)
    BY <1>5, <2>3 DEF o, Keeps, Typed, Shape, Fields
  <2>5. Values(m) /\ Values(o)
    BY <1>5, <2>3 DEF o, Keeps, Typed, Shape, Fields, Values
  <2>6. Flags(m) /\ Flags(o)
    BY <1>5, <2>3 DEF o, Keeps, Typed, Shape, Fields, Flags
  <2> QED
    BY <1>5, <2>3, <2>4, <2>5, <2>6 DEF o, Keeps, Typed, Shape, Fields, W!Alive
<1>7. Keeps(b, k) /\ Keeps(l, k)
  BY <1>4, <1>5, KeepsOn
<1>8. Keeps(m, k) /\ Keeps(o, k)
  BY <1>6, <1>7, KeepsOn
<1>9. Keeps(W!close_connection(s), k) /\ Keeps(W!close_connection(b), k)
  BY <1>4, <1>7, CloseKeeps, KeepsOn DEF Keeps
<1>10. Keeps(W!WriteMore(m), k) /\ Keeps(W!WriteMore(o), k)
  BY <1>8, MoreKeeps, KeepsOn DEF Keeps
<1>11. ASSUME W!Exhausted(k, n)
       PROVE  Advances(W!FinishResponse(l, e, r, FALSE), k)
  <2>1. Placed(l)
    BY <1>7, KeepsPlaced
  <2>2. l.buf = k.buf /\ l.parsed = k.parsed /\ l.rx = k.rx /\ l.keep = k.keep
    BY <1>4, <1>5 DEF Keeps
  <2>3. W!Resumes(l) => W!EndsAt(l, e)
    BY <1>11, <2>2
       DEF W!Resumes, W!Persistent, W!EndsAt, W!Unparsed
  <2>4. Advances(W!FinishResponse(l, e, r, FALSE), l)
    BY <2>1, <2>3, FinishAdvances
  <2> QED
    BY <1>7, <2>4, AdvancesFrom
<1>12. Advances(w, k)
  BY <1>2, <1>9, <1>10, <1>11, KeepsAdvances
<1> QED
  BY <1>12 DEF w

-----------------------------------------------------------------------------
(* What can be read of the units that SSL holds.                           *)

LEMMA MinIs ==
  ASSUME NEW T \in SUBSET Nat, T # {}
  PROVE  Min(T) \in T /\ \A n \in T : Min(T) <= n
<1>1. \E m \in T : \A n \in T : m <= n
  BY Least
<1> QED
  BY <1>1, Zenon DEF Min

LEMMA MaxIs ==
  ASSUME NEW b \in Nat, NEW T \in SUBSET (0 .. b), T # {}
  PROVE  Max(T) \in T /\ \A n \in T : Max(T) >= n
<1> DEFINE D == {b - n : n \in T}
<1>0. \A n \in T : n \in Nat /\ b - n \in Nat
  OBVIOUS
<1>1. D \in SUBSET Nat /\ D # {}
  BY <1>0
<1>2. PICK d \in D : \A n \in D : d <= n
  BY <1>1, Least
<1>3. PICK m \in T : d = b - m
  BY <1>2
<1>4. ASSUME NEW n \in T PROVE m >= n
  <2>1. b - n \in D
    OBVIOUS
  <2>2. b - m <= b - n /\ m \in Nat /\ n \in Nat
    BY <1>0, <1>2, <1>3, <2>1
  <2> QED
    BY <2>2
<1>5. \E x \in T : \A n \in T : x >= n
  BY <1>4
<1> QED
  BY <1>5, Zenon DEF Max

(* An alert or junk, after which the peer sends no more. *)
Ends(u) == u.piece \in {"notify", "junk"}

(* Readable stops in front of an alert or of junk, or behind the last      *)
(* record that is complete.                                                *)
LEMMA ReadableIs ==
  ASSUME NEW s \in Units
  PROVE  LET r == Readable(s)
         IN /\ r \in 0 .. Len(s)
            /\ \A i \in 1 .. r : ~(s[i].last /\ Ends(s[i]))
            /\ \/ r < Len(s) /\ Ends(s[r + 1])
               \/ \A i \in r + 1 .. Len(s) : ~s[i].last
            /\ (\A i \in 1 .. Len(s) : ~s[i].last) => r = 0
<1> DEFINE m == Len(s)
           whole == {i \in DOMAIN s : s[i].last}
           ends == {i \in whole : s[i].piece \in {"notify", "junk"}}
           r == Readable(s)
<1>1. m \in Nat /\ DOMAIN s = 1 .. m
  BY DEF Units
<1>2. /\ whole \in SUBSET (0 .. m) /\ ends \in SUBSET Nat
      /\ \A i : i \in whole <=> i \in 1 .. m /\ s[i].last
      /\ \A i : i \in ends <=> i \in 1 .. m /\ s[i].last /\ Ends(s[i])
  BY <1>1 DEF Ends
<1>3. r = IF ends # {} THEN Min(ends) - 1
          ELSE IF whole = {} THEN 0 ELSE Max(whole)
  BY DEF Readable
<1> HIDE DEF m, whole, ends, r
<1>4. CASE ends # {}
  <2>1. Min(ends) \in ends /\ \A n \in ends : Min(ends) <= n
    BY <1>2, <1>4, MinIs
  <2>2. r = Min(ends) - 1
    BY <1>3, <1>4
  <2>3. /\ Min(ends) \in 1 .. m /\ Ends(s[Min(ends)])
        /\ Min(ends) = r + 1 /\ r \in 0 .. m /\ r < m
    BY <1>1, <1>2, <2>1, <2>2
  <2>4. \A i \in 1 .. r : ~(s[i].last /\ Ends(s[i]))
    <3> SUFFICES ASSUME NEW i \in 1 .. r, s[i].last /\ Ends(s[i]) PROVE FALSE
      OBVIOUS
    <3>1. i \in ends
      BY <1>1, <1>2, <2>3
    <3> QED
      BY <1>1, <2>1, <2>3, <3>1
  <2>5. ~ \A i \in 1 .. m : ~s[i].last
    BY <1>2, <2>1
  <2> QED
    BY <2>3, <2>4, <2>5 DEF r, m
<1>5. CASE ends = {} /\ whole = {}
  BY <1>1, <1>2, <1>3, <1>5 DEF r, m
<1>6. CASE ends = {} /\ whole # {}
  <2>1. Max(whole) \in whole /\ \A n \in whole : Max(whole) >= n
    BY <1>1, <1>2, <1>6, MaxIs
  <2>2. r = Max(whole)
    BY <1>3, <1>6
  <2>3. r \in 0 .. m
    BY <1>1, <1>2, <2>1, <2>2
  <2>4. \A i \in 1 .. r : ~(s[i].last /\ Ends(s[i]))
    BY <1>1, <1>2, <1>6, <2>3
  <2>5. \A i \in r + 1 .. m : ~s[i].last
    <3> SUFFICES ASSUME NEW i \in r + 1 .. m, s[i].last PROVE FALSE
      OBVIOUS
    <3>1. i \in whole
      BY <1>1, <1>2, <2>3
    <3> QED
      BY <1>1, <2>1, <2>2, <2>3, <3>1
  <2>6. ~ \A i \in 1 .. m : ~s[i].last
    BY <1>2, <2>1
  <2> QED
    BY <2>3, <2>4, <2>5, <2>6 DEF r, m
<1> QED
  BY <1>4, <1>5, <1>6

(* The loop of SSL_read stops when rx.buf is full, or with all read. *)
LEMMA DecryptedIs ==
  ASSUME NEW t, t.ssl \in Units
  PROVE  LET n == Len(Decrypted(t))
             r == Readable(t.ssl)
         IN /\ n \in 0 .. r /\ n <= MaxRead /\ r \in 0 .. Len(t.ssl)
            /\ n < MaxRead => n = r
            /\ Decrypted(t) = SubSeq(t.ssl, 1, n)
<1> DEFINE s == t.ssl
           r == Readable(s)
           n == Min({MaxRead, r})
<1>1. r \in 0 .. Len(s) /\ Len(s) \in Nat /\ r \in Nat /\ MaxRead \in Nat
  BY ReadableIs, BoundsAssumption DEF Units
<1> HIDE DEF r
<1>2. n \in {MaxRead, r} /\ n <= MaxRead /\ n <= r
  BY <1>1, MinIs
<1>3. Decrypted(t) = SubSeq(s, 1, n)
  BY DEF Decrypted, r
<1> HIDE DEF n
<1>4. Len(SubSeq(s, 1, n)) = n
  BY <1>1, <1>2 DEF Units
<1> QED
  BY <1>1, <1>2, <1>3, <1>4 DEF r

(* The flights at the head of what SSL holds: hellos, and the one that     *)
(* ends the handshake.                                                     *)
LEMMA FlightsIs ==
  ASSUME NEW s \in Units
  PROVE  LET n == Flights(s)
         IN /\ n \in 0 .. Len(s)
            /\ \A i \in 1 .. n : s[i].piece \in {"hello", "finished"}
            /\ \A i \in 1 .. n : s[i].piece = "finished" => i = n
<1> DEFINE m == Len(s)
           other == {i \in DOMAIN s : s[i].piece # "hello"}
           n == Flights(s)
           f == s[Min(other)].piece = "finished"
<1>1. m \in Nat /\ DOMAIN s = 1 .. m
  BY DEF Units
<1>2. /\ other \in SUBSET Nat
      /\ \A i : i \in other <=> i \in 1 .. m /\ s[i].piece # "hello"
  BY <1>1
<1>3. n = IF other = {} THEN m ELSE Min(other) - (IF f THEN 0 ELSE 1)
  BY DEF Flights
<1> HIDE DEF m, other, n
<1>4. CASE other = {}
  <2>1. n = m /\ \A i \in 1 .. m : s[i].piece = "hello"
    BY <1>2, <1>3, <1>4
  <2>2. /\ n \in 0 .. m
        /\ \A i \in 1 .. n : s[i].piece = "hello"
    BY <1>1, <2>1
  <2> QED
    BY <2>2 DEF n, m
<1>5. CASE other # {}
  <2>1. Min(other) \in other /\ \A i \in other : Min(other) <= i
    BY <1>2, <1>5, MinIs
  <2> DEFINE a == Min(other)
  <2>2. a \in 1 .. m /\ n = (IF f THEN a ELSE a - 1)
        /\ f = (s[a].piece = "finished")
    BY <1>2, <1>3, <1>5, <2>1
  <2>3. \A i \in 1 .. m : i < a => s[i].piece = "hello"
    <3> SUFFICES ASSUME NEW i \in 1 .. m, i < a, s[i].piece # "hello"
                 PROVE  FALSE
      OBVIOUS
    <3>1. i \in other
      BY <1>2
    <3> QED
      BY <1>1, <2>1, <2>2, <3>1
  <2> HIDE DEF a, f
  <2>4. n \in 0 .. m /\ \A i \in 1 .. n : i \in 1 .. m /\ i <= a
    BY <1>1, <2>2
  <2>5. \A i \in 1 .. n :
          s[i].piece = "hello" \/ (i = n /\ s[i].piece = "finished")
    <3> SUFFICES ASSUME NEW i \in 1 .. n, s[i].piece # "hello"
                 PROVE  i = n /\ s[i].piece = "finished"
      OBVIOUS
    <3>1. i = a
      BY <1>1, <2>2, <2>3, <2>4
    <3>2. f
      BY <1>1, <2>2, <3>1
    <3> QED
      BY <2>2, <3>1, <3>2
  <2> QED
    BY <2>4, <2>5 DEF n, m
<1> QED
  BY <1>4, <1>5

-----------------------------------------------------------------------------
(* The units that SSL holds.                                               *)

(* A sequence is its first n elements and the others. *)
LEMMA Split ==
  ASSUME NEW S, NEW s \in Seq(S), NEW n \in 0 .. Len(s)
  PROVE  LET a == SubSeq(s, 1, n)
             b == SubSeq(s, n + 1, Len(s))
         IN /\ a \in Seq(S) /\ b \in Seq(S) /\ s = a \o b
            /\ Len(a) = n /\ Len(b) = Len(s) - n
            /\ \A i \in 1 .. n : a[i] = s[i]
            /\ \A i \in 1 .. Len(s) - n : b[i] = s[n + i]
<1>1. Len(s) \in Nat /\ n \in Nat
  OBVIOUS
<1>2. SubSeq(s, 1, n) \o SubSeq(s, n + 1, Len(s)) = SubSeq(s, 1, Len(s))
  <2>1. 1 \in 1 .. Len(s) + 1 /\ n \in 1 - 1 .. Len(s) /\ Len(s) \in n .. Len(s)
    BY <1>1
  <2> QED
    BY <2>1, ConcatAdjacentSubSeq
<1>3. SubSeq(s, 1, Len(s)) = s
  BY SubSeqFull
<1> DEFINE a == SubSeq(s, 1, n)
           b == SubSeq(s, n + 1, Len(s))
<1>4. \A i \in 1 .. Len(s) : s[i] \in S
  OBVIOUS
<1>5. /\ a \in Seq(S) /\ Len(a) = n
      /\ \A i \in 1 .. n : a[i] = s[i]
  BY <1>1
<1>6. /\ b \in Seq(S) /\ Len(b) = Len(s) - n
      /\ \A i \in 1 .. Len(s) - n : b[i] = s[n + i]
  BY <1>1
<1> QED
  BY <1>2, <1>3, <1>5, <1>6, Zenon

Stop(u) == Ends(u) /\ u.last = TRUE

(* Request data, and what may end it. *)
Open(s) == \A i \in 1 .. Len(s) : Asked(s[i]) \/ Stop(s[i])

(* A record is one unit or two, and a peer that is inside one has sent the *)
(* first of them.                                                          *)
Joined(s, p) ==
  \A i \in 1 .. Len(s) : s[i].last = FALSE =>
    IF i = Len(s) THEN p = "inside" ELSE s[i + 1].last = TRUE

Late == {"secure", "inside", "over"}

(* Before the end of the handshake SSL keeps nothing; after it, what it    *)
(* holds is request data, and what may end it.                             *)
Handshake(t) ==
  \/ t.hs = "TLS_HS_PENDING" /\ t.ssl = <<>> /\ t.peer \in {"start", "hello"}
  \/ /\ t.hs = "TLS_HS_DONE" /\ t.peer \in Late
     /\ Open(t.ssl) /\ Joined(t.ssl, t.peer)

LEMMA LegalLate ==
  ASSUME NEW p, NEW u, NEW q, Legal(p, u, q)
  PROVE  /\ p \in Late => q \in Late /\ (Asked(u) \/ Stop(u))
         /\ u.piece = "finished" => q = "secure"
         /\ u.piece = "hello" => q = "hello"
         /\ u.last = FALSE => q = "inside"
         /\ p = "inside" => u.last = TRUE
  BY NotAsked DEF Legal, Late, Stop, Ends, Asked

(* What follows the handshake. *)
LEMMA LegalRun ==
  ASSUME NEW m \in Nat, NEW s, NEW U, NEW n \in 0 .. m, U[n] \in Late,
         \A i \in 1 .. m : Legal(U[i - 1], s[i], U[i])
  PROVE  /\ \A i \in n .. m : U[i] \in Late
         /\ \A i \in n + 1 .. m : Asked(s[i]) \/ Stop(s[i])
<1> DEFINE S == {j \in Nat : n + j <= m => U[n + j] \in Late}
<1>1. 0 \in S
  BY n + 0 = n
<1>2. ASSUME NEW j \in Nat, j \in S PROVE j + 1 \in S
  <2> SUFFICES ASSUME n + (j + 1) <= m PROVE U[n + (j + 1)] \in Late
    OBVIOUS
  <2>1. n + (j + 1) \in 1 .. m /\ n + (j + 1) - 1 = n + j /\ U[n + j] \in Late
    BY <1>2
  <2>2. Legal(U[n + j], s[n + (j + 1)], U[n + (j + 1)])
    BY <2>1
  <2> DEFINE x == U[n + j]
             y == U[n + (j + 1)]
             u == s[n + (j + 1)]
  <2>3. x \in Late /\ Legal(x, u, y)
    BY <2>1, <2>2
  <2> HIDE DEF x, y, u
  <2>4. y \in Late
    BY <2>3, LegalLate
  <2> QED
    BY <2>4 DEF y
<1> HIDE DEF S
<1>3. ASSUME NEW i \in n .. m PROVE U[i] \in Late
  <2>1. i - n \in Nat /\ n + (i - n) = i /\ i <= m
    OBVIOUS
  <2>2. i - n \in S
    BY <1>1, <1>2, <2>1, Induct
  <2> QED
    BY <2>1, <2>2 DEF S
<1>4. ASSUME NEW i \in n + 1 .. m PROVE Asked(s[i]) \/ Stop(s[i])
  <2>1. i \in 1 .. m /\ i - 1 \in n .. m
    OBVIOUS
  <2>2. U[i - 1] \in Late /\ Legal(U[i - 1], s[i], U[i])
    BY <1>3, <2>1
  <2> QED
    BY <2>2, LegalLate
<1> QED
  BY <1>3, <1>4

(* Legal units keep records joined. *)
LEMMA LegalJoined ==
  ASSUME NEW v \in Units, NEW s \in Units, NEW U, Len(s) > 0,
         Joined(v, U[0]),
         \A i \in 1 .. Len(s) : Legal(U[i - 1], s[i], U[i])
  PROVE  Joined(v \o s, U[Len(s)])
<1> DEFINE a == Len(v)
           b == Len(s)
           w == v \o s
<1>1. /\ a \in Nat /\ b \in Nat /\ b > 0 /\ Len(w) = a + b
      /\ \A i \in 1 .. a : w[i] = v[i]
      /\ \A i \in 1 .. b : w[a + i] = s[i]
  BY DEF Units
<1>2. \A i \in 1 .. b : /\ s[i].last = FALSE => U[i] = "inside"
                        /\ U[i - 1] = "inside" => s[i].last = TRUE
  BY LegalLate
<1>3. \A i \in 1 .. a : v[i].last = FALSE =>
        IF i = a THEN U[0] = "inside" ELSE v[i + 1].last = TRUE
  BY DEF Joined
<1> HIDE DEF a, b, w
<1>4. ASSUME NEW i \in 1 .. a + b, w[i].last = FALSE
      PROVE  IF i = a + b THEN U[b] = "inside" ELSE w[i + 1].last = TRUE
  <2>1. CASE i < a
    <3>1. i \in 1 .. a /\ i + 1 \in 1 .. a /\ i # a /\ i # a + b
      BY <1>1, <2>1
    <3> QED
      BY <1>1, <1>3, <1>4, <3>1
  <2>2. CASE i = a
    <3>1. i \in 1 .. a /\ 1 \in 1 .. b /\ 1 - 1 = 0 /\ i # a + b
      BY <1>1, <2>2
    <3>2. U[0] = "inside"
      BY <1>1, <1>3, <1>4, <2>2, <3>1
    <3>3. s[1].last = TRUE /\ w[a + 1] = s[1]
      BY <1>1, <1>2, <3>1, <3>2
    <3> QED
      BY <2>2, <3>1, <3>3
  <2>3. CASE i > a
    <3> DEFINE j == i - a
    <3>1. j \in 1 .. b /\ i = a + j
      BY <1>1, <2>3
    <3> HIDE DEF j
    <3>2. U[j] = "inside"
      BY <1>1, <1>2, <1>4, <3>1
    <3>3. CASE j = b
      BY <3>1, <3>2, <3>3
    <3>4. CASE j # b
      <4>1. j + 1 \in 1 .. b /\ (j + 1) - 1 = j /\ i + 1 = a + (j + 1)
            /\ i # a + b
        BY <1>1, <3>1, <3>4
      <4>2. s[j + 1].last = TRUE
        BY <1>2, <3>2, <4>1
      <4> QED
        BY <1>1, <4>1, <4>2
    <3> QED
      BY <3>3, <3>4
  <2>4. i < a \/ i = a \/ i > a
    BY <1>1
  <2> QED
    BY <2>1, <2>2, <2>3, <2>4, Zenon
<1> QED
  BY <1>1, <1>4 DEF Joined, w, b

(* The rest of what was joined, and what was open. *)
LEMMA RestJoined ==
  ASSUME NEW s \in Units, NEW n \in 0 .. Len(s), NEW p
  PROVE  LET b == SubSeq(s, n + 1, Len(s))
         IN /\ Joined(s, p) => Joined(b, p)
            /\ (\A i \in n + 1 .. Len(s) : Asked(s[i]) \/ Stop(s[i])) => Open(b)
<1> DEFINE b == SubSeq(s, n + 1, Len(s))
           m == Len(s)
<1>1. /\ m \in Nat /\ n \in Nat /\ n <= m /\ Len(b) = m - n
      /\ \A i \in 1 .. m - n : b[i] = s[n + i]
  BY Split DEF Units
<1> HIDE DEF b
<1>2. ASSUME Joined(s, p) PROVE Joined(b, p)
  <2> SUFFICES ASSUME NEW i \in 1 .. m - n, b[i].last = FALSE
               PROVE  IF i = m - n THEN p = "inside" ELSE b[i + 1].last = TRUE
    BY <1>1 DEF Joined
  <2>1. /\ n + i \in 1 .. m /\ s[n + i].last = FALSE
        /\ i = m - n <=> n + i = m
    BY <1>1
  <2>2. IF n + i = m THEN p = "inside" ELSE s[(n + i) + 1].last = TRUE
    BY <1>2, <2>1 DEF Joined, m
  <2>3. CASE i = m - n
    BY <2>1, <2>2, <2>3
  <2>4. CASE i # m - n
    <3>1. i + 1 \in 1 .. m - n /\ n + (i + 1) = (n + i) + 1
      BY <1>1, <2>4
    <3>2. b[i + 1] = s[(n + i) + 1]
      BY <1>1, <3>1
    <3> QED
      BY <2>1, <2>2, <2>4, <3>2
  <2> QED
    BY <2>3, <2>4
<1>3. ASSUME \A i \in n + 1 .. m : Asked(s[i]) \/ Stop(s[i]) PROVE Open(b)
  <2> SUFFICES ASSUME NEW i \in 1 .. m - n PROVE Asked(b[i]) \/ Stop(b[i])
    BY <1>1 DEF Open
  <2>1. n + i \in n + 1 .. m /\ b[i] = s[n + i]
    BY <1>1
  <2> QED
    BY <1>3, <2>1
<1> QED
  BY <1>2, <1>3 DEF b, m

-----------------------------------------------------------------------------
(* The tls_client_t in read_cb.                                            *)

(* All but what is read is as before. *)
Beside(q, t) ==
  /\ q \in Tls /\ q.plain = t.plain /\ q.peer = t.peer
  /\ q.made = t.made /\ q.out = t.out /\ q.copies = t.copies
  /\ q.eager = t.eager /\ q.seen = t.seen /\ q.gap = t.gap

(* BIO_write to bio_in. *)
LEMMA GivenIs ==
  ASSUME tls \in Tls, NEW units \in PeerData
  PROVE  LET g == Given(units)
         IN /\ g \in Tls /\ g.hs = tls.hs /\ g.notify = tls.notify
            /\ g.ssl = tls.ssl \o units /\ g.plain = tls.plain \o Plain(units)
            /\ g.peer = Phases(units)[Len(units)]
            /\ g.made = tls.made /\ g.out = tls.out /\ g.copies = tls.copies
            /\ g.eager = tls.eager /\ g.seen = tls.seen /\ g.gap = tls.gap
<1> DEFINE p == Phases(units)[Len(units)]
           d == Plain(units)
           g == [tls EXCEPT !.ssl = @ \o units, !.plain = @ \o d, !.peer = p]
<1>1. tls.peer \in PeerPhase /\ tls.ssl \in Units /\ tls.plain \in Seq(PeerTokens)
  BY DEF Tls, Units
<1>2. units \in Units /\ p \in PeerPhase
  BY <1>1, PeerDataLegal
<1>3. d \in Seq(PeerTokens)
  BY <1>2, PlainOfConcat
<1>4. Given(units) = g
  BY DEF Given
<1> HIDE DEF p, d
<1>5. tls.ssl \o units \in Seq(Unit) /\ tls.plain \o d \in Seq(PeerTokens)
  BY <1>1, <1>2, <1>3 DEF Units
<1> DEFINE x == tls.ssl \o units
           y == tls.plain \o d
<1>6. g = [tls EXCEPT !.ssl = x, !.plain = y, !.peer = p]
  OBVIOUS
<1> HIDE DEF x, y, g
<1>7. /\ g \in Tls /\ g.hs = tls.hs /\ g.notify = tls.notify
      /\ g.ssl = x /\ g.plain = y /\ g.peer = p
      /\ g.made = tls.made /\ g.out = tls.out /\ g.copies = tls.copies
      /\ g.eager = tls.eager /\ g.seen = tls.seen /\ g.gap = tls.gap
  BY <1>2, <1>5, <1>6 DEF Tls, x, y
<1> QED
  BY <1>4, <1>7 DEF x, y, p, d

(* tls_do_handshake takes flights from what SSL holds. *)
LEMMA ShakesIs ==
  ASSUME NEW t \in Tls
  PROVE  LET n == Flights(t.ssl)
             h == tls_do_handshake(t)
         IN /\ Beside(h, t) /\ n \in 0 .. Len(t.ssl)
            /\ h.ssl = SubSeq(t.ssl, n + 1, Len(t.ssl))
            /\ \/ h.hs = "TLS_HS_DONE" /\ n > 0 /\ t.ssl[n].piece = "finished"
               \/ h.hs = "TLS_HS_ERROR"
               \/ h.hs = t.hs /\ h.ssl = <<>>
                  /\ ~(n > 0 /\ t.ssl[n].piece = "finished")
<1> DEFINE n == Flights(t.ssl)
           rest == SubSeq(t.ssl, n + 1, Len(t.ssl))
           ended == n > 0 /\ t.ssl[n].piece = "finished"
           hs == IF ended THEN "TLS_HS_DONE"
                 ELSE IF rest # <<>> THEN "TLS_HS_ERROR" ELSE t.hs
           h == [t EXCEPT !.ssl = rest, !.hs = hs]
<1>1. t.ssl \in Units
  BY DEF Tls, Units
<1>2. n \in 0 .. Len(t.ssl)
  BY <1>1, FlightsIs
<1>3. rest \in Seq(Unit)
  BY <1>1, <1>2, Split DEF Units
<1>4. tls_do_handshake(t) = h
  BY DEF tls_do_handshake
<1>5. \/ ended /\ hs = "TLS_HS_DONE"
      \/ hs = "TLS_HS_ERROR"
      \/ ~ended /\ rest = <<>> /\ hs = t.hs
  OBVIOUS
<1>6. hs \in {"TLS_HS_PENDING", "TLS_HS_DONE", "TLS_HS_ERROR"}
  BY <1>5 DEF Tls
<1> HIDE DEF n, rest, ended, hs
<1>7. Beside(h, t) /\ h.ssl = rest /\ h.hs = hs
  BY <1>3, <1>6 DEF Tls, Beside
<1> HIDE DEF h
<1> QED
  BY <1>2, <1>4, <1>5, <1>7 DEF rest, ended, n

(* The request data in what a flight leaves behind. *)
LEMMA PlainOfRest ==
  ASSUME NEW s \in Units, NEW n \in 0 .. Len(s),
         \A i \in 1 .. n : ~Asked(s[i])
  PROVE  Plain(SubSeq(s, n + 1, Len(s))) = Plain(s)
<1> DEFINE a == SubSeq(s, 1, n)
           b == SubSeq(s, n + 1, Len(s))
<1>1. /\ a \in Units /\ b \in Units /\ s = a \o b /\ Len(a) = n
      /\ \A i \in 1 .. n : a[i] = s[i]
  BY Split DEF Units
<1> HIDE DEF a, b
<1>2. \A i \in 1 .. Len(a) : ~Asked(a[i])
  BY <1>1
<1>3. Plain(a) = <<>>
  BY <1>1, <1>2, PlainOfNone
<1>4. Plain(s) = Plain(a) \o Plain(b) /\ Plain(b) \in Seq(PeerTokens)
  BY <1>1, PlainOfConcat
<1>5. Plain(s) = <<>> \o Plain(b)
  BY <1>3, <1>4, Zenon
<1>6. <<>> \o Plain(b) = Plain(b)
  BY <1>4, ConcatEmptySeq
<1> QED
  BY <1>5, <1>6 DEF b

(* What read_cb has after the handshake step. *)
Stepped(g) == IF g.hs = "TLS_HS_DONE" THEN g ELSE tls_do_handshake(g)

(* The handshake step loses no request data, and ends where Handshake says *)
(* when it does not fail.                                                  *)
LEMMA StepIs ==
  ASSUME tls \in Tls, NEW units \in PeerData
  PROVE  LET g == Given(units)
             h == Stepped(g)
         IN /\ Beside(h, g)
            /\ Handshake(tls) =>
                 /\ Plain(h.ssl) = Plain(g.ssl)
                 /\ h.hs = "TLS_HS_ERROR" \/ Handshake(h)
                 /\ Len(h.ssl) <= Len(tls.ssl) + MaxRead
<1> DEFINE g == Given(units)
           h == Stepped(g)
           U == Phases(units)
           m == Len(units)
<1>1. /\ tls.peer \in PeerPhase /\ tls.ssl \in Units /\ tls.plain \in Seq(PeerTokens)
  BY DEF Tls, Units
<1>2. /\ units \in Units /\ m \in 1 .. MaxRead /\ U[0] = tls.peer
      /\ \A n \in 1 .. m : Legal(U[n - 1], units[n], U[n])
  BY <1>1, PeerDataLegal
<1>3. /\ g \in Tls /\ g.hs = tls.hs /\ g.ssl = tls.ssl \o units /\ g.peer = U[m]
  BY GivenIs
<1>4. /\ m \in Nat /\ MaxRead \in Nat /\ m > 0 /\ m <= MaxRead
      /\ Len(g.ssl) = Len(tls.ssl) + m /\ Len(tls.ssl) \in Nat
      /\ g.ssl \in Units
  <2>1. MaxRead \in Nat
    BY BoundsAssumption
  <2>2. Len(tls.ssl \o units) = Len(tls.ssl) + m /\ Len(tls.ssl) \in Nat
        /\ tls.ssl \o units \in Units
    BY <1>1, <1>2 DEF Units
  <2> QED
    BY <1>2, <1>3, <2>1, <2>2
<1> HIDE DEF g, U, m
<1>5. CASE g.hs = "TLS_HS_DONE"
  <2>1. h = g
    BY <1>5 DEF Stepped
  <2>2. Beside(h, g)
    BY <1>3, <2>1 DEF Beside
  <2>3. ASSUME Handshake(tls) PROVE Handshake(h)
    <3>1. tls.peer \in Late /\ Open(tls.ssl) /\ Joined(tls.ssl, tls.peer)
      BY <1>3, <1>5, <2>3 DEF Handshake
    <3>2. 0 \in 0 .. m /\ U[0] \in Late
      BY <1>2, <1>4, <3>1
    <3>3. U[m] \in Late /\ \A i \in 1 .. m : Asked(units[i]) \/ Stop(units[i])
      <4>1. /\ \A i \in 0 .. m : U[i] \in Late
            /\ \A i \in 0 + 1 .. m : Asked(units[i]) \/ Stop(units[i])
        BY <1>2, <1>4, <3>2, LegalRun
      <4>2. m \in 0 .. m /\ 0 + 1 = 1
        BY <1>4
      <4> QED
        BY <4>1, <4>2
    <3>4. Joined(tls.ssl \o units, U[m])
      BY <1>1, <1>2, <1>4, <3>1, LegalJoined DEF m
    <3>5. Open(tls.ssl \o units)
      <4> DEFINE a == Len(tls.ssl)
                 w == tls.ssl \o units
      <4>1. /\ a \in Nat /\ Len(w) = a + m
            /\ \A i \in 1 .. a : w[i] = tls.ssl[i]
            /\ \A i \in 1 .. m : w[a + i] = units[i]
        BY <1>1, <1>2 DEF Units, m
      <4>2. \A i \in 1 .. a : Asked(tls.ssl[i]) \/ Stop(tls.ssl[i])
        BY <3>1 DEF Open
      <4> HIDE DEF a, w
      <4>3. ASSUME NEW i \in 1 .. a + m PROVE Asked(w[i]) \/ Stop(w[i])
        <5>1. CASE i <= a
          BY <4>1, <4>2, <5>1
        <5>2. CASE i > a
          <6> DEFINE j == i - a
          <6>1. j \in 1 .. m /\ i = a + j
            BY <1>4, <4>1, <5>2
          <6> HIDE DEF j
          <6> QED
            BY <3>3, <4>1, <6>1
        <5> QED
          BY <4>1, <5>1, <5>2
      <4> QED
        BY <4>1, <4>3 DEF Open, w
    <3> QED
      BY <1>3, <1>5, <2>1, <3>3, <3>4, <3>5 DEF Handshake
  <2> QED
    BY <1>4, <2>1, <2>2, <2>3 DEF h, g
<1>6. CASE g.hs # "TLS_HS_DONE"
  <2> DEFINE n == Flights(g.ssl)
             rest == SubSeq(g.ssl, n + 1, Len(g.ssl))
  <2>1. /\ Beside(h, g) /\ n \in 0 .. Len(g.ssl) /\ h.ssl = rest
        /\ \/ h.hs = "TLS_HS_DONE" /\ n > 0 /\ g.ssl[n].piece = "finished"
           \/ h.hs = "TLS_HS_ERROR"
           \/ h.hs = g.hs /\ h.ssl = <<>>
              /\ ~(n > 0 /\ g.ssl[n].piece = "finished")
    BY <1>3, <1>6, ShakesIs DEF Stepped
  <2>2. /\ \A i \in 1 .. n : g.ssl[i].piece \in {"hello", "finished"}
        /\ \A i \in 1 .. n : g.ssl[i].piece = "finished" => i = n
    BY <1>4, FlightsIs
  <2> HIDE DEF n, h
  <2>3. Plain(rest) = Plain(g.ssl)
    <3>1. \A i \in 1 .. n : ~Asked(g.ssl[i])
      BY <2>2, NotAsked DEF Asked
    <3> QED
      BY <1>4, <2>1, <3>1, PlainOfRest
  <2>4. Len(rest) = Len(g.ssl) - n /\ Len(rest) <= Len(tls.ssl) + MaxRead
    <3>1. Len(rest) = Len(g.ssl) - n
      BY <1>4, <2>1, Split DEF Units
    <3> QED
      BY <1>4, <2>1, <3>1
  <2>5. ASSUME Handshake(tls) PROVE h.hs = "TLS_HS_ERROR" \/ Handshake(h)
    <3>1. tls.hs = "TLS_HS_PENDING" /\ tls.ssl = <<>>
          /\ tls.peer \in {"start", "hello"}
      BY <1>3, <1>6, <2>5 DEF Handshake
    <3>2. g.ssl = units
      <4>1. <<>> \o units = units
        BY <1>2, ConcatEmptySeq DEF Units
      <4> QED
        BY <1>3, <3>1, <4>1
    <3>3. Len(g.ssl) = m
      BY <3>2 DEF m
    <3>4. CASE h.hs = "TLS_HS_DONE"
      <4>1. n > 0 /\ g.ssl[n].piece = "finished"
        BY <1>3, <2>1, <3>1, <3>4
      <4>2. n \in 1 .. m /\ n \in 0 .. m
        BY <1>4, <2>1, <3>3, <4>1
      <4>3. U[n] = "secure"
        BY <1>2, <3>2, <4>1, <4>2, LegalLate
      <4>4. /\ \A i \in n .. m : U[i] \in Late
            /\ \A i \in n + 1 .. m : Asked(units[i]) \/ Stop(units[i])
        <5>1. U[n] \in Late
          BY <4>3 DEF Late
        <5> QED
          BY <1>2, <1>4, <4>2, <5>1, LegalRun
      <4>5. U[m] \in Late
        BY <1>4, <4>2, <4>4
      <4>6. Joined(units, U[m])
        <5>1. Joined(<<>>, U[0]) /\ <<>> \in Units
          BY DEF Joined, Units
        <5>2. Joined(<<>> \o units, U[m])
          BY <1>2, <1>4, <5>1, LegalJoined DEF m
        <5>3. <<>> \o units = units
          BY <1>2, ConcatEmptySeq DEF Units
        <5> QED
          BY <5>2, <5>3
      <4>7. Open(rest) /\ Joined(rest, U[m])
        BY <1>4, <2>1, <3>2, <3>3, <4>4, <4>6, RestJoined
      <4>8. h.peer = U[m]
        BY <1>3, <2>1 DEF Beside
      <4> QED
        BY <2>1, <3>4, <4>5, <4>7, <4>8 DEF Handshake
    <3>5. CASE h.hs = "TLS_HS_PENDING"
      <4>1. h.ssl = <<>> /\ ~(n > 0 /\ g.ssl[n].piece = "finished")
        BY <2>1, <3>5
      <4>2. n = m
        <5>1. Len(rest) = 0
          BY <2>1, <4>1
        <5> QED
          BY <1>4, <2>1, <2>4, <3>3, <5>1
      <4>3. g.ssl[m].piece = "hello" /\ m \in 1 .. m
        BY <1>4, <2>2, <4>1, <4>2
      <4>4. U[m] = "hello"
        BY <1>2, <3>2, <4>3, LegalLate
      <4>5. h.peer = "hello"
        BY <1>3, <2>1, <4>4 DEF Beside
      <4> QED
        BY <3>5, <4>1, <4>5 DEF Handshake
    <3>6. h.hs \in {"TLS_HS_PENDING", "TLS_HS_DONE", "TLS_HS_ERROR"}
      BY <2>1 DEF Beside, Tls
    <3> QED
      BY <3>4, <3>5, <3>6
  <2> QED
    BY <2>1, <2>3, <2>4, <2>5 DEF h, g
<1> QED
  BY <1>5, <1>6

(* The flight of a handshake step is written. *)
LEMMA FlushIs ==
  ASSUME NEW t \in Tls
  PROVE  LET q == tls_flush_enc_out(Drained(t, TRUE))
         IN /\ q \in Tls /\ q.hs = t.hs /\ q.ssl = t.ssl /\ q.plain = t.plain
            /\ q.peer = t.peer /\ q.eager = t.eager /\ q.seen = t.seen
            /\ q.gap = t.gap /\ q.made = t.made + 1 /\ q.out = NoRecords
            /\ q.copies = Append(t.copies, [a |-> t.made + 1, b |-> t.made + 1])
<1> DEFINE x == t.made + 1
           r == [a |-> x, b |-> x]
           d == [t EXCEPT !.made = x, !.out = r]
           q == [d EXCEPT !.copies = Append(t.copies, r), !.out = NoRecords]
<1>1. t.made \in Nat /\ t.copies \in Seq(Records) /\ x \in Nat
  BY DEF Tls
<1>2. r \in Records /\ NoRecords \in Records
  BY <1>1 DEF Records, NoRecords
<1>3. Drained(t, TRUE) = d
  BY DEF Drained
<1> HIDE DEF r, x
<1>4. d \in Tls /\ d.copies = t.copies /\ d.out = r
  BY <1>1, <1>2 DEF Tls
<1>5. tls_flush_enc_out(d) = q
  BY <1>4 DEF tls_flush_enc_out
<1>6. Append(t.copies, r) \in Seq(Records)
  BY <1>1, <1>2
<1> DEFINE c == Append(t.copies, r)
<1> HIDE DEF c
<1>7. /\ q \in Tls /\ q.hs = t.hs /\ q.ssl = t.ssl /\ q.plain = t.plain
      /\ q.peer = t.peer /\ q.eager = t.eager /\ q.seen = t.seen
      /\ q.gap = t.gap /\ q.made = x /\ q.out = NoRecords
      /\ q.copies = c
  <2>1. q = [t EXCEPT !.made = x, !.copies = c, !.out = NoRecords]
    BY DEF c, Tls
  <2> HIDE DEF q, d
  <2> QED
    BY <1>1, <1>2, <1>6, <2>1 DEF Tls, c
<1> QED
  BY <1>3, <1>5, <1>7 DEF c, r, x

(* SSL_read takes what was decrypted from what SSL holds. *)
LEMMA ReadIs ==
  ASSUME NEW t \in Tls
  PROVE  LET q == SSL_read(t)
         IN /\ Beside(q, t) /\ q.hs = t.hs
            /\ q.ssl = SubSeq(t.ssl, Len(Decrypted(t)) + 1, Len(t.ssl))
<1> DEFINE n == Len(Decrypted(t))
           rest == SubSeq(t.ssl, n + 1, Len(t.ssl))
           stop == ComesNext(t, "notify")
           q == [t EXCEPT !.ssl = rest, !.notify = stop]
<1>1. t.ssl \in Units
  BY DEF Tls, Units
<1>2. n \in 0 .. Len(t.ssl)
  BY <1>1, DecryptedIs DEF Units
<1>3. rest \in Seq(Unit)
  BY <1>1, <1>2, Split DEF Units
<1>4. stop \in BOOLEAN
  BY DEF ComesNext
<1>5. SSL_read(t) = q
  BY DEF SSL_read
<1> HIDE DEF n, rest, stop
<1>6. Beside(q, t) /\ q.hs = t.hs /\ q.ssl = rest
  BY <1>3, <1>4 DEF Tls, Beside
<1> QED
  BY <1>5, <1>6 DEF rest, n

(* What the SSL object returns after the handshake is request data, and    *)
(* with it what the object keeps is what it was given.  When there is room *)
(* in the buffer it keeps the first unit of a record at most.              *)
LEMMA LeavesIs ==
  ASSUME NEW t \in Tls, Handshake(t), t.hs = "TLS_HS_DONE", ~Closes(t)
  PROVE  LET d == Decrypted(t)
             n == Len(d)
             q == SubSeq(t.ssl, n + 1, Len(t.ssl))
         IN /\ n \in Nat /\ n <= MaxRead
            /\ Pieces(d) \in Seq(PeerTokens) /\ Len(Pieces(d)) = n
            /\ q \in Units /\ Open(q) /\ Joined(q, t.peer)
            /\ Plain(t.ssl) = Pieces(d) \o Plain(q)
            /\ n < MaxRead => Readable(q) = 0 /\ Len(q) <= 1
            /\ n = MaxRead => Len(q) = Len(t.ssl) - MaxRead
<1> DEFINE s == t.ssl
           d == Decrypted(t)
           n == Len(d)
           r == Readable(s)
           q == SubSeq(s, n + 1, Len(s))
<1>1. s \in Units /\ Open(s) /\ Joined(s, t.peer)
  BY DEF Tls, Units, Handshake
<1>2. Len(s) \in Nat /\ MaxRead \in Nat /\ \A i \in 1 .. Len(s) : s[i] \in Unit
  BY <1>1, BoundsAssumption DEF Units
<1>3. /\ n \in 0 .. r /\ n <= MaxRead /\ r \in 0 .. Len(s)
      /\ (n < MaxRead => n = r) /\ d = SubSeq(s, 1, n)
  BY <1>1, DecryptedIs
<1>4. /\ \A i \in 1 .. r : ~(s[i].last /\ Ends(s[i]))
      /\ \/ r < Len(s) /\ Ends(s[r + 1])
         \/ \A i \in r + 1 .. Len(s) : ~s[i].last
  BY <1>1, ReadableIs
<1>5. r < Len(s) /\ Ends(s[r + 1]) => n = MaxRead
  <2> SUFFICES ASSUME r < Len(s), Ends(s[r + 1]), n # MaxRead PROVE FALSE
    OBVIOUS
  <2>1. n = r /\ n < MaxRead
    BY <1>2, <1>3
  <2>2. ComesNext(t, "notify") \/ ComesNext(t, "junk")
    BY <2>1 DEF ComesNext, Ends
  <2> QED
    BY <2>2 DEF Closes
<1> HIDE DEF s, n, r, d, q
<1>6. n \in 0 .. Len(s) /\ n \in Nat
  BY <1>2, <1>3
<1>7. /\ d \in Units /\ q \in Units /\ s = d \o q /\ Len(d) = n
      /\ Len(q) = Len(s) - n
      /\ \A i \in 1 .. n : d[i] = s[i]
      /\ \A i \in 1 .. Len(s) - n : q[i] = s[n + i]
  BY <1>1, <1>3, <1>6, Split DEF Units, q
<1>8. \A i \in 1 .. Len(d) : Asked(d[i])
  <2> SUFFICES ASSUME NEW i \in 1 .. n PROVE Asked(d[i])
    BY <1>7
  <2>1. i \in 1 .. Len(s) /\ i \in 1 .. r /\ d[i] = s[i]
    BY <1>2, <1>3, <1>7
  <2>2. Asked(s[i]) \/ Stop(s[i])
    BY <1>1, <2>1 DEF Open
  <2> QED
    BY <1>4, <2>1, <2>2 DEF Stop
<1>9. Plain(d) = Pieces(d) /\ Plain(s) = Plain(d) \o Plain(q)
  BY <1>7, <1>8, PlainOfAll, PlainOfConcat
<1>10. Pieces(d) \in Seq(PeerTokens) /\ Len(Pieces(d)) = n
  <2>1. DOMAIN d = 1 .. n
    BY <1>7 DEF Units
  <2>2. Pieces(d) = [i \in 1 .. n |-> d[i].piece]
    BY <2>1 DEF Pieces
  <2>3. Plain(d) \in Seq(PeerTokens)
    BY <1>7, PlainOfConcat
  <2>4. Len(Pieces(d)) = n
    BY <1>6, <2>2
  <2> QED
    BY <1>9, <2>3, <2>4
<1>11. Open(q) /\ Joined(q, t.peer)
  <2>1. \A i \in n + 1 .. Len(s) : Asked(s[i]) \/ Stop(s[i])
    BY <1>1, <1>2, <1>6 DEF Open
  <2> QED
    BY <1>1, <1>6, <2>1, RestJoined DEF q
<1>12. ASSUME n < MaxRead PROVE Readable(q) = 0 /\ Len(q) <= 1
  <2>1. n = r /\ n # MaxRead
    BY <1>2, <1>3, <1>6, <1>12
  <2>2. \A i \in r + 1 .. Len(s) : ~s[i].last
    BY <1>4, <1>5, <2>1
  <2>3. \A i \in 1 .. Len(q) : ~q[i].last
    <3> SUFFICES ASSUME NEW i \in 1 .. Len(q) PROVE ~q[i].last
      OBVIOUS
    <3>1. n + i \in r + 1 .. Len(s) /\ q[i] = s[n + i]
      BY <1>2, <1>6, <1>7, <2>1
    <3> QED
      BY <2>2, <3>1
  <2>4. Readable(q) = 0
    BY <1>7, <2>3, ReadableIs
  <2>5. Len(q) <= 1
    <3> SUFFICES ASSUME ~(Len(q) <= 1) PROVE FALSE
      OBVIOUS
    <3>1. Len(q) \in Nat /\ 1 \in 1 .. Len(q) /\ 2 \in 1 .. Len(q) /\ 1 # Len(q)
      BY <1>2, <1>6, <1>7
    <3>2. q[1].last \in BOOLEAN
      <4>1. q[1] \in Unit
        BY <1>7, <3>1 DEF Units
      <4> QED
        BY <4>1 DEF Unit
    <3>3. q[1].last = FALSE
      BY <2>3, <3>1, <3>2
    <3>4. q[1 + 1].last = TRUE
      BY <1>11, <3>1, <3>3 DEF Joined
    <3> QED
      BY <2>3, <3>1, <3>4
  <2> QED
    BY <2>4, <2>5
<1>13. n = MaxRead => Len(q) = Len(s) - MaxRead
  BY <1>7
<1>14. n <= MaxRead
  BY <1>3
<1> QED
  BY <1>6, <1>7, <1>9, <1>10, <1>11, <1>12, <1>13, <1>14 DEF s, n, d, q

-----------------------------------------------------------------------------
(* Flights and the writes that own their records.                          *)

(* The places F in the queue are those of n flights, in order. *)
Matched(F, n) ==
  \E f \in [1 .. n -> F] :
    /\ \A i, j \in 1 .. n : i < j => f[i] < f[j]
    /\ \A p \in F : \E i \in 1 .. n : f[i] = p

LEMMA MatchedNone == Matched({}, 0)
<1> DEFINE f == [i \in 1 .. 0 |-> 0]
<1>1. f \in [1 .. 0 -> {}]
  OBVIOUS
<1> HIDE DEF f
<1> QED
  BY <1>1 DEF Matched

(* A flight joins the queue. *)
LEMMA MatchedMore ==
  ASSUME NEW m \in Nat, NEW F \in SUBSET (1 .. m), NEW n \in Nat, Matched(F, n)
  PROVE  Matched(F \cup {m + 1}, n + 1)
<1>1. PICK f \in [1 .. n -> F] :
        /\ \A i, j \in 1 .. n : i < j => f[i] < f[j]
        /\ \A p \in F : \E i \in 1 .. n : f[i] = p
  BY DEF Matched
<1>6. \A i \in 1 .. n : f[i] \in F /\ f[i] \in 1 .. m
  <2>1. \A p \in F : p \in 1 .. m
    OBVIOUS
  <2> QED
    BY <2>1
<1> DEFINE g == [i \in 1 .. n + 1 |-> IF i = n + 1 THEN m + 1 ELSE f[i]]
<1>2. /\ g \in [1 .. n + 1 -> F \cup {m + 1}]
      /\ g[n + 1] = m + 1 /\ \A i \in 1 .. n : g[i] = f[i] /\ g[i] \in 1 .. m
  <2>1. g[n + 1] = m + 1 /\ \A i \in 1 .. n : g[i] = f[i] /\ g[i] \in 1 .. m
    BY <1>6
  <2>2. \A i \in 1 .. n + 1 : i = n + 1 \/ i \in 1 .. n
    OBVIOUS
  <2>3. \A i \in 1 .. n + 1 : g[i] \in F \cup {m + 1}
    BY <1>6, <2>1, <2>2
  <2> QED
    BY <2>1, <2>3
<1> HIDE DEF g
<1>3. ASSUME NEW i \in 1 .. n + 1, NEW j \in 1 .. n + 1, i < j
      PROVE  g[i] < g[j]
  <2>1. i \in 1 .. n /\ (j = n + 1 \/ j \in 1 .. n)
    BY <1>3
  <2>2. CASE j = n + 1
    <3>1. g[i] \in 1 .. m /\ g[j] = m + 1
      BY <1>2, <2>1, <2>2
    <3> QED
      BY <3>1
  <2>3. CASE j \in 1 .. n
    <3>1. f[i] < f[j] /\ g[i] = f[i] /\ g[j] = f[j]
      BY <1>1, <1>2, <1>3, <2>1, <2>3
    <3> QED
      BY <3>1
  <2> QED
    BY <2>1, <2>2, <2>3
<1>4. ASSUME NEW p \in F \cup {m + 1} PROVE \E i \in 1 .. n + 1 : g[i] = p
  <2>1. n + 1 \in 1 .. n + 1 /\ \A i \in 1 .. n : i \in 1 .. n + 1
    OBVIOUS
  <2> QED
    BY <1>1, <1>2, <2>1
<1> QED
  BY <1>2, <1>3, <1>4 DEF Matched

(* The first flight in the queue is written first. *)
LEMMA MatchedFirst ==
  ASSUME NEW m \in Nat, NEW F \in SUBSET (1 .. m), NEW n \in Nat, Matched(F, n),
         1 \in F
  PROVE  n > 0 /\ Matched({p - 1 : p \in F \ {1}}, n - 1)
<1>1. PICK f \in [1 .. n -> F] :
        /\ \A i, j \in 1 .. n : i < j => f[i] < f[j]
        /\ \A p \in F : \E i \in 1 .. n : f[i] = p
  BY DEF Matched
<1>2. PICK a \in 1 .. n : f[a] = 1
  BY <1>1
<1>11. \A p \in F : p \in 1 .. m
  OBVIOUS
<1>3. a = 1 /\ n > 0
  <2>3. 1 \in 1 .. n
    BY <1>2
  <2>1. 1 \in 1 .. n /\ f[1] \in 1 .. m
    BY <1>11, <2>3
  <2>2. ~(1 < a)
    BY <1>1, <1>2, <2>1
  <2> QED
    BY <1>2, <2>2
<1> DEFINE G == {p - 1 : p \in F \ {1}}
           g == [i \in 1 .. n - 1 |-> f[i + 1] - 1]
<1>4. /\ \A i \in 1 .. n - 1 : i + 1 \in 1 .. n /\ 1 < i + 1
      /\ \A i \in 1 .. n - 1 : g[i] = f[i + 1] - 1
  BY <1>3
<1>5. ASSUME NEW i \in 1 .. n - 1 PROVE f[i + 1] \in F \ {1} /\ f[i + 1] \in 1 .. m
  <2>1. i + 1 \in 1 .. n /\ 1 \in 1 .. n /\ 1 < i + 1
    BY <1>3, <1>4
  <2>2. f[1] < f[i + 1] /\ f[1] = 1
    BY <1>1, <1>2, <1>3, <2>1
  <2>3. f[i + 1] \in F /\ f[i + 1] \in 1 .. m
    BY <1>11, <2>1
  <2> QED
    BY <2>2, <2>3
<1>6. g \in [1 .. n - 1 -> G]
  BY <1>4, <1>5
<1> HIDE DEF g
<1>7. ASSUME NEW i \in 1 .. n - 1, NEW j \in 1 .. n - 1, i < j
      PROVE  g[i] < g[j]
  <2>1. f[i + 1] < f[j + 1]
    BY <1>1, <1>4, <1>7
  <2>2. f[i + 1] \in 1 .. m /\ f[j + 1] \in 1 .. m
    BY <1>5
  <2> QED
    BY <1>4, <2>1, <2>2
<1>8. ASSUME NEW p \in G PROVE \E i \in 1 .. n - 1 : g[i] = p
  <2>1. PICK q \in F \ {1} : p = q - 1
    OBVIOUS
  <2>2. PICK i \in 1 .. n : f[i] = q
    BY <1>1
  <2>3. i # 1
    BY <1>2, <1>3, <2>2
  <2> DEFINE h == i - 1
  <2>4. h \in 1 .. n - 1 /\ i = h + 1
    BY <2>3
  <2> HIDE DEF h
  <2>5. g[h] = p
    BY <1>4, <2>1, <2>2, <2>4
  <2> QED
    BY <2>4, <2>5
<1> HIDE DEF G
<1>9. n - 1 \in Nat
  BY <1>3
<1>10. Matched(G, n - 1)
  BY <1>6, <1>7, <1>8 DEF Matched
<1> QED
  BY <1>3, <1>10 DEF G

(* Another write leaves the queue. *)
LEMMA MatchedOther ==
  ASSUME NEW m \in Nat, NEW F \in SUBSET (1 .. m), NEW n \in Nat, Matched(F, n)
  PROVE  Matched({p - 1 : p \in F}, n)
<1>1. PICK f \in [1 .. n -> F] :
        /\ \A i, j \in 1 .. n : i < j => f[i] < f[j]
        /\ \A p \in F : \E i \in 1 .. n : f[i] = p
  BY DEF Matched
<1> DEFINE G == {p - 1 : p \in F}
           g == [i \in 1 .. n |-> f[i] - 1]
<1>2. g \in [1 .. n -> G] /\ \A i \in 1 .. n : g[i] = f[i] - 1 /\ f[i] \in 1 .. m
  OBVIOUS
<1> HIDE DEF g
<1>3. \A i, j \in 1 .. n : i < j => g[i] < g[j]
  BY <1>1, <1>2
<1>4. \A p \in G : \E i \in 1 .. n : g[i] = p
  BY <1>1, <1>2
<1> HIDE DEF G
<1>5. Matched(G, n)
  BY <1>2, <1>3, <1>4 DEF Matched
<1> QED
  BY <1>5 DEF G

(* What becomes of the places when a write joins or leaves the queue. *)
LEMMA FlightJoins ==
  ASSUME NEW wq \in Seq(Writes)
  PROVE  /\ FlightsIn(wq) \in SUBSET (1 .. Len(wq)) /\ Len(wq) \in Nat
         /\ FlightsIn(Append(wq, "flight")) = FlightsIn(wq) \cup {Len(wq) + 1}
<1> DEFINE v == Append(wq, "flight")
<1>1. /\ Len(wq) \in Nat /\ Len(v) = Len(wq) + 1 /\ v[Len(wq) + 1] = "flight"
      /\ \A i \in 1 .. Len(wq) : v[i] = wq[i]
  BY DEF Writes
<1> HIDE DEF v
<1>2. \A i \in 1 .. Len(v) : i \in 1 .. Len(wq) \/ i = Len(wq) + 1
  BY <1>1
<1>3. Len(wq) + 1 \in 1 .. Len(v) /\ \A i \in 1 .. Len(wq) : i \in 1 .. Len(v)
  BY <1>1
<1>4. FlightsIn(v) = FlightsIn(wq) \cup {Len(wq) + 1}
  BY <1>1, <1>2, <1>3 DEF FlightsIn
<1> QED
  BY <1>1, <1>4 DEF v, FlightsIn

LEMMA WriteLeaves ==
  ASSUME NEW wq \in Seq(Writes), wq # <<>>
  PROVE  /\ FlightsIn(Tail(wq)) = {p - 1 : p \in FlightsIn(wq) \ {1}}
         /\ 1 \in FlightsIn(wq) <=> Head(wq) = "flight"
<1> DEFINE v == Tail(wq)
           m == Len(wq)
<1>1. /\ m \in Nat /\ m > 0 /\ Len(v) = m - 1 /\ wq[1] = Head(wq)
      /\ \A i \in 1 .. Len(v) : v[i] = wq[i + 1]
  <2>1. m \in Nat /\ m # 0
    BY EmptySeq
  <2> QED
    BY <2>1
<1> HIDE DEF v, m
<1>2. \A i : i \in FlightsIn(wq) <=> i \in 1 .. m /\ wq[i] = "flight"
  BY DEF FlightsIn, m
<1>3. \A i : i \in FlightsIn(v) <=> i \in 1 .. m - 1 /\ wq[i + 1] = "flight"
  BY <1>1 DEF FlightsIn
<1>4. ASSUME NEW i \in FlightsIn(v)
      PROVE  i \in {p - 1 : p \in FlightsIn(wq) \ {1}}
  <2>1. i \in 1 .. m - 1 /\ wq[i + 1] = "flight"
    BY <1>3
  <2>2. i + 1 \in FlightsIn(wq) \ {1} /\ i = (i + 1) - 1
    BY <1>1, <1>2, <2>1
  <2> QED
    BY <2>2
<1>5. ASSUME NEW p \in FlightsIn(wq) \ {1} PROVE p - 1 \in FlightsIn(v)
  <2>1. p \in 1 .. m /\ wq[p] = "flight" /\ p # 1
    BY <1>2
  <2>2. p - 1 \in 1 .. m - 1 /\ (p - 1) + 1 = p
    BY <1>1, <2>1
  <2> QED
    BY <1>3, <2>1, <2>2
<1>6. FlightsIn(v) = {p - 1 : p \in FlightsIn(wq) \ {1}}
  BY <1>4, <1>5
<1>7. 1 \in FlightsIn(wq) <=> Head(wq) = "flight"
  BY <1>1, <1>2
<1> QED
  BY <1>6, <1>7 DEF v

-----------------------------------------------------------------------------
(* Where the request data is.                                              *)

(* What the parser has not consumed is in rx.buf, then in SSL. *)
Unread(k, t) ==
  \E before \in Seq(W!Token) :
    /\ Len(before) = k.ppos
    /\ t.plain = before \o (SubSeq(k.buf, k.parsed + 1, Len(k.buf)) \o Plain(t.ssl))

LEMMA UnreadMeans ==
  ASSUME NEW k, NEW t, Typed(k), t \in Tls, Unread(k, t)
  PROVE  SubSeq(t.plain, k.ppos + 1, Len(t.plain)) =
           SubSeq(k.buf, k.parsed + 1, Len(k.buf)) \o Plain(t.ssl)
<1>1. PICK before \in Seq(W!Token) :
        /\ Len(before) = k.ppos
        /\ t.plain = before \o (SubSeq(k.buf, k.parsed + 1, Len(k.buf))
                                  \o Plain(t.ssl))
  BY DEF Unread
<1> DEFINE x == SubSeq(k.buf, k.parsed + 1, Len(k.buf)) \o Plain(t.ssl)
<1>2. x \in Seq(W!Token)
  <2>1. t.ssl \in Units
    BY DEF Tls, Units
  <2>2. Plain(t.ssl) \in Seq(W!Token)
    <3>1. Plain(t.ssl) \in Seq(PeerTokens)
      BY <2>1, PlainOfConcat
    <3> QED
      BY <3>1, PeersAssumption
  <2>3. SubSeq(k.buf, k.parsed + 1, Len(k.buf)) \in Seq(W!Token)
    <3>1. k.buf \in Seq(W!Token) /\ k.parsed \in Nat
      BY DEF Typed, Values
    <3>2. \A i \in k.parsed + 1 .. Len(k.buf) : k.buf[i] \in W!Token
      BY <3>1
    <3> QED
      BY <3>1, <3>2
  <2> QED
    BY <2>2, <2>3
<1>3. t.plain = before \o x
  BY <1>1
<1> HIDE DEF x
<1>4. SubSeq(before \o x, Len(before) + 1, Len(before \o x)) = x
  BY <1>2
<1> QED
  BY <1>1, <1>3, <1>4 DEF x

(* The parser consumes what comes first. *)
LEMMA UnreadAdvances ==
  ASSUME NEW k, NEW t, NEW q, NEW u, Typed(k), t \in Tls, Unread(k, t),
         Advances(q, k), u.plain = t.plain, u.ssl = t.ssl
  PROVE  Unread(q, u)
<1>1. PICK before \in Seq(W!Token) :
        /\ Len(before) = k.ppos
        /\ t.plain = before \o (SubSeq(k.buf, k.parsed + 1, Len(k.buf))
                                  \o Plain(t.ssl))
  BY DEF Unread
<1> DEFINE b == k.buf
           m == Len(b)
           i == k.parsed
           j == q.parsed
           x == SubSeq(b, i + 1, j)
           y == SubSeq(b, j + 1, m)
           z == Plain(t.ssl)
<1>2. /\ b \in Seq(W!Token) /\ m \in Nat /\ i \in Nat /\ j \in i .. m
      /\ q.buf = b /\ q.ppos = k.ppos + (j - i) /\ k.ppos \in Nat
  BY DEF Typed, Values, Advances
<1>3. z \in Seq(W!Token)
  <2>1. t.ssl \in Units
    BY DEF Tls, Units
  <2>2. z \in Seq(PeerTokens)
    BY <2>1, PlainOfConcat
  <2> QED
    BY <2>2, PeersAssumption
<1> HIDE DEF b, m, i, j, z
<1>4. x \in Seq(W!Token) /\ y \in Seq(W!Token) /\ Len(x) = j - i
  <2>1. \A n \in i + 1 .. j : b[n] \in W!Token
    BY <1>2 DEF m
  <2>2. \A n \in j + 1 .. m : b[n] \in W!Token
    BY <1>2 DEF m
  <2> QED
    BY <1>2, <2>1, <2>2 DEF m
<1>5. SubSeq(b, i + 1, m) = x \o y
  <2>1. m = Len(b)
    BY DEF m
  <2> HIDE DEF x, y
  <2>2. /\ i + 1 \in 1 .. Len(b) + 1 /\ j \in (i + 1) - 1 .. Len(b)
        /\ m \in j .. Len(b)
    BY <1>2, <2>1
  <2> DEFINE h == i + 1
  <2>3. h \in 1 .. Len(b) + 1 /\ j \in h - 1 .. Len(b) /\ m \in j .. Len(b)
    BY <2>2
  <2> HIDE DEF h
  <2>4. SubSeq(b, h, j) \o SubSeq(b, j + 1, m) = SubSeq(b, h, m)
    BY <1>2, <2>3, ConcatAdjacentSubSeq
  <2> QED
    BY <2>4 DEF h, x, y
<1> HIDE DEF x, y
<1>6. t.plain = before \o ((x \o y) \o z)
  BY <1>1, <1>5 DEF b, m, i, z
<1>7. before \o ((x \o y) \o z) = (before \o x) \o (y \o z)
  BY <1>3, <1>4
<1>8. before \o x \in Seq(W!Token) /\ Len(before \o x) = q.ppos
  <2>1. /\ before \o x \in Seq(W!Token)
        /\ Len(before \o x) = Len(before) + Len(x)
    BY <1>4
  <2>2. Len(before) = k.ppos
    BY <1>1
  <2> QED
    BY <1>2, <1>4, <2>1, <2>2
<1>9. u.plain = (before \o x) \o (SubSeq(q.buf, q.parsed + 1, Len(q.buf))
                                    \o Plain(u.ssl))
  BY <1>2, <1>6, <1>7 DEF y, z, m, j
<1> QED
  BY <1>8, <1>9 DEF Unread

-----------------------------------------------------------------------------
(* The invariant.                                                          *)

(* At most the first unit of a record, or one unit after a full read, is   *)
(* left in SSL.                                                            *)
Tight(k, t) ==
  /\ Len(t.ssl) <= 1
  /\ t.hs = "TLS_HS_DONE" /\ Len(k.buf) < MaxRead => Readable(t.ssl) = 0

Whole(k, t) ==
  /\ Placed(k) /\ t \in Tls
  /\ Matched(FlightsIn(k.wq), Len(t.copies))
  /\ k.uv = "open" => Handshake(t)
  /\ t.hs = "TLS_HS_PENDING" => k.buf = <<>>
  /\ W!Alive(k) => Unread(k, t) /\ Tight(k, t)

Unborn(k, t) ==
  k.uv = "none" => k = W!Fresh /\ \E eager \in Eager : t = tls_client_init(eager)

Ordered == Whole(conn, tls) /\ Unborn(conn, tls)

(* What the HTTP connection does with the plaintext it has. *)
LEMMA WholeAdvances ==
  ASSUME NEW k, NEW t, NEW q, NEW u, Whole(k, t), Advances(q, k), u \in Tls,
         u.ssl = t.ssl, u.plain = t.plain, u.hs = t.hs, u.peer = t.peer,
         u.copies = t.copies
  PROVE  Whole(q, u)
<1>1. Placed(k) /\ Typed(k) /\ t \in Tls
  BY DEF Whole, Placed
<1>2. Placed(q)
  BY <1>1, AdvancesPlaced DEF Placed
<1>3. Matched(FlightsIn(q.wq), Len(u.copies))
  BY DEF Whole, Advances
<1>4. q.uv = "open" => Handshake(u)
  BY DEF Whole, Advances, Handshake
<1>5. u.hs = "TLS_HS_PENDING" => q.buf = <<>>
  BY DEF Whole, Advances
<1>6. ASSUME W!Alive(q) PROVE Unread(q, u) /\ Tight(q, u)
  <2>1. W!Alive(k)
    BY <1>6 DEF Advances
  <2>2. Unread(k, t) /\ Tight(k, t)
    BY <2>1 DEF Whole
  <2>3. Unread(q, u)
    BY <1>1, <2>2, UnreadAdvances
  <2>4. Tight(q, u)
    BY <2>2 DEF Tight, Advances
  <2> QED
    BY <2>3, <2>4
<1> QED
  BY <1>2, <1>3, <1>4, <1>5, <1>6 DEF Whole

LEMMA WholeKeeps ==
  ASSUME NEW k, NEW t, NEW q, Whole(k, t), Keeps(q, k) PROVE Whole(q, t)
<1>1. Advances(q, k)
  BY KeepsAdvances DEF Whole
<1> QED
  BY <1>1, WholeAdvances DEF Whole

(* A write is reported; a flight's records go with it. *)
LEMMA WholeLeaves ==
  ASSUME NEW k, NEW t, Whole(k, t), k.wq # <<>>
  PROVE  LET q == [k EXCEPT !.wq = Tail(@)]
         IN /\ q.uv = k.uv /\ q.pre = k.pre /\ q.total = k.total
            /\ q.written = k.written /\ q.chunked = k.chunked
            /\ q.buf = k.buf
            /\ Head(k.wq) # "flight" => Whole(q, t)
            /\ Head(k.wq) = "flight" =>
                 /\ t.copies # <<>>
                 /\ \A u \in Tls :
                      /\ u.ssl = t.ssl /\ u.plain = t.plain /\ u.hs = t.hs
                      /\ u.peer = t.peer /\ u.copies = Tail(t.copies)
                      => Whole(q, u)
<1> DEFINE q == [k EXCEPT !.wq = Tail(@)]
           F == FlightsIn(k.wq)
           n == Len(t.copies)
<1>1. Placed(k) /\ Typed(k) /\ t \in Tls /\ Shape(k)
  BY DEF Whole, Placed, Typed
<1>2. /\ Shape(q) /\ q.wq = Tail(k.wq) /\ q.uv = k.uv /\ q.shut = k.shut
      /\ q.state = k.state /\ q.reading = k.reading
      /\ q.reqT = k.reqT /\ q.lastT = k.lastT /\ q.pre = k.pre
      /\ q.total = k.total /\ q.written = k.written
      /\ q.chunked = k.chunked
  BY <1>1, Shortens
<1>3. /\ q.rx = k.rx /\ q.buf = k.buf /\ q.parsed = k.parsed
      /\ q.parser = k.parser /\ q.recvd = k.recvd /\ q.ppos = k.ppos
      /\ q.asked = k.asked /\ q.calls = k.calls /\ q.begun = k.begun
      /\ q.done = k.done /\ q.status = k.status
      /\ q.keep = k.keep /\ q.iter = k.iter
  BY <1>1 DEF Shape, Fields
<1> HIDE DEF q
<1>4. Typed(q)
  BY <1>1, <1>2, <1>3 DEF Typed, Values, Flags
<1>5. Placed(q) /\ (W!Alive(q) <=> W!Alive(k))
  BY <1>1, <1>2, <1>3, <1>4 DEF Placed, Settled, W!Alive
<1>6. /\ F \in SUBSET (1 .. Len(k.wq)) /\ Len(k.wq) \in Nat
      /\ FlightsIn(q.wq) = {p - 1 : p \in F \ {1}}
      /\ 1 \in F <=> Head(k.wq) = "flight"
  BY <1>1, <1>2, FlightJoins, WriteLeaves DEF Shape
<1>7. n \in Nat /\ Matched(F, n) /\ t.copies \in Seq(Records)
  <2>1. t.copies \in Seq(Records)
    BY <1>1 DEF Tls
  <2> QED
    BY <2>1 DEF Whole
<1>8. ASSUME NEW u, u.ssl = t.ssl, u.plain = t.plain
      PROVE  Unread(k, t) => Unread(q, u)
  BY <1>3, <1>8 DEF Unread
<1>9. ASSUME Head(k.wq) # "flight" PROVE Whole(q, t)
  <2>1. F \ {1} = F
    BY <1>6, <1>9
  <2>2. FlightsIn(q.wq) = {p - 1 : p \in F}
    BY <1>6, <2>1
  <2>3. Matched(FlightsIn(q.wq), n)
    BY <1>6, <1>7, <2>2, MatchedOther
  <2>4. Tight(k, t) => Tight(q, t)
    BY <1>3 DEF Tight
  <2> QED
    BY <1>1, <1>2, <1>3, <1>5, <1>8, <2>3, <2>4 DEF Whole
<1>10. ASSUME Head(k.wq) = "flight" PROVE t.copies # <<>>
  <2>1. n > 0
    BY <1>6, <1>7, <1>10, MatchedFirst
  <2> QED
    BY <2>1
<1>11. ASSUME Head(k.wq) = "flight", NEW u \in Tls,
              u.ssl = t.ssl, u.plain = t.plain, u.hs = t.hs,
              u.peer = t.peer, u.copies = Tail(t.copies)
       PROVE  Whole(q, u)
  <2>1. Matched(FlightsIn(q.wq), n - 1)
    BY <1>6, <1>7, <1>11, MatchedFirst
  <2>2. Len(u.copies) = n - 1
    BY <1>7, <1>10, <1>11
  <2>3. Tight(k, t) => Tight(q, u)
    BY <1>3, <1>11 DEF Tight
  <2>4. Handshake(t) => Handshake(u)
    BY <1>11 DEF Handshake
  <2> QED
    BY <1>2, <1>3, <1>5, <1>8, <1>11, <2>1, <2>2, <2>3, <2>4 DEF Whole
<1> QED
  BY <1>2, <1>3, <1>9, <1>10, <1>11 DEF q

-----------------------------------------------------------------------------
(* Reads.                                                                  *)

(* After BIO_write and the handshake step; rx.buf starts over. *)
Fed(w, t) ==
  /\ Typed(w) /\ w.uv = "open" /\ w.buf = <<>> /\ w.parsed = 0
  /\ w.rx = "RXS_READING" /\ (W!Alive(w) => w.parser # "error")
  /\ t \in Tls /\ Matched(FlightsIn(w.wq), Len(t.copies))
  /\ t.hs = "TLS_HS_ERROR" \/ Handshake(t)
  /\ W!Alive(w) => Unread(w, t) /\ Len(t.ssl) <= MaxRead + 1

LEMMA FedPlaced ==
  ASSUME NEW w, NEW t, Fed(w, t) PROVE Placed(w)
  BY DEF Fed, Placed, Settled

LEMMA AllocIs ==
  ASSUME NEW k, Typed(k)
  PROVE  LET a == W!alloc_cb(k, <<>>)
         IN /\ Typed(a) /\ a.uv = k.uv /\ a.shut = k.shut /\ a.wq = k.wq
            /\ a.buf = <<>> /\ a.parsed = 0 /\ a.rx = "RXS_READING"
            /\ a.parser = k.parser /\ a.ppos = k.ppos
<1> DEFINE a == W!alloc_cb(k, <<>>)
<1>1. Shape(k) /\ Values(k) /\ Flags(k)
  BY DEF Typed
<1>2. /\ DOMAIN a = Fields
      /\ a.rx = "RXS_READING" /\ a.buf = <<>> /\ a.parsed = 0
      /\ a.recvd = k.recvd + Len(<<>>)
      /\ a.state = k.state /\ a.reading = k.reading /\ a.parser = k.parser
      /\ a.keep = k.keep /\ a.reqT = k.reqT /\ a.lastT = k.lastT
      /\ a.chunked = k.chunked /\ a.pre = k.pre /\ a.total = k.total
      /\ a.written = k.written /\ a.iter = k.iter /\ a.uv = k.uv
      /\ a.shut = k.shut /\ a.wq = k.wq /\ a.ppos = k.ppos
      /\ a.asked = k.asked /\ a.calls = k.calls /\ a.begun = k.begun
      /\ a.done = k.done /\ a.status = k.status
  BY <1>1 DEF W!alloc_cb, Shape, Fields
<1> HIDE DEF a
<1>3. Len(<<>>) = 0 /\ <<>> \in Seq(W!Token) /\ "RXS_READING" \in W!RxStatus
  BY DEF W!RxStatus
<1>4. Typed(a)
  BY <1>1, <1>2, <1>3 DEF Typed, Shape, Values, Flags
<1> QED
  BY <1>2, <1>4 DEF a

LEMMA Feeding ==
  ASSUME Whole(conn, tls), conn.uv = "open", conn.reading, NEW units \in PeerData
  PROVE  Fed(W!alloc_cb(conn, <<>>), Stepped(Given(units)))
<1> DEFINE a == W!alloc_cb(conn, <<>>)
           g == Given(units)
           h == Stepped(g)
<1>1. Typed(conn) /\ Placed(conn) /\ tls \in Tls /\ Handshake(tls)
  BY DEF Whole, Placed
<1>2. /\ Typed(a) /\ a.uv = "open" /\ a.shut = conn.shut /\ a.wq = conn.wq
      /\ a.buf = <<>> /\ a.parsed = 0 /\ a.rx = "RXS_READING"
      /\ a.parser = conn.parser /\ a.ppos = conn.ppos
  BY <1>1, AllocIs
<1>3. /\ g \in Tls /\ g.ssl = tls.ssl \o units
      /\ g.plain = tls.plain \o Plain(units) /\ g.copies = tls.copies
  BY <1>1, GivenIs
<1>4. /\ Beside(h, g) /\ Plain(h.ssl) = Plain(g.ssl)
      /\ h.hs = "TLS_HS_ERROR" \/ Handshake(h)
      /\ Len(h.ssl) <= Len(tls.ssl) + MaxRead
  BY <1>1, StepIs
<1>5. units \in Units /\ tls.ssl \in Units
  <2>1. tls.peer \in PeerPhase
    BY <1>1 DEF Tls
  <2> QED
    BY <1>1, <2>1, PeerDataLegal DEF Tls, Units
<1> HIDE DEF a, g, h
<1>6. W!Alive(a) <=> W!Alive(conn)
  BY <1>2 DEF W!Alive
<1>7. ASSUME W!Alive(conn) PROVE Unread(a, h) /\ Len(h.ssl) <= MaxRead + 1
  <2>1. conn.parsed = Len(conn.buf) /\ conn.parsed \in Nat
    BY <1>1, <1>7 DEF Placed, Settled, Typed, Values
  <2>2. PICK before \in Seq(W!Token) :
          /\ Len(before) = conn.ppos
          /\ tls.plain = before \o (SubSeq(conn.buf, conn.parsed + 1, Len(conn.buf))
                                      \o Plain(tls.ssl))
    BY <1>7 DEF Whole, Unread
  <2> DEFINE x == Plain(tls.ssl)
             y == Plain(units)
  <2>3. x \in Seq(W!Token) /\ y \in Seq(W!Token) /\ Plain(g.ssl) = x \o y
    <3>1. /\ x \in Seq(PeerTokens) /\ y \in Seq(PeerTokens)
          /\ Plain(tls.ssl \o units) = x \o y
      BY <1>5, PlainOfConcat
    <3> QED
      BY <1>3, <3>1, PeersAssumption
  <2> HIDE DEF x, y
  <2>4. SubSeq(conn.buf, conn.parsed + 1, Len(conn.buf)) = <<>>
    <3> DEFINE m == Len(conn.buf)
    <3>1. m \in Nat /\ conn.parsed = m
      BY <2>1
    <3> HIDE DEF m
    <3>2. SubSeq(conn.buf, m + 1, m) = <<>>
      BY <3>1
    <3> QED
      BY <3>1, <3>2 DEF m
  <2>5. tls.plain = before \o x
    <3>1. <<>> \o x = x
      BY <2>3
    <3> QED
      BY <2>2, <2>4, <3>1 DEF x
  <2>6. g.plain = before \o (x \o y)
    BY <1>3, <2>3, <2>5 DEF y
  <2>7. SubSeq(a.buf, a.parsed + 1, Len(a.buf)) = <<>>
    BY <1>2
  <2>8. <<>> \o (x \o y) = x \o y
    BY <2>3
  <2>9. h.plain = before \o (SubSeq(a.buf, a.parsed + 1, Len(a.buf))
                               \o Plain(h.ssl))
    BY <1>4, <2>3, <2>6, <2>7, <2>8 DEF Beside
  <2>10. Unread(a, h)
    BY <1>2, <2>2, <2>9 DEF Unread
  <2>11. Len(h.ssl) <= MaxRead + 1
    <3>1. Len(tls.ssl) <= 1
      BY <1>7 DEF Whole, Tight
    <3>2. Len(tls.ssl) \in Nat /\ Len(h.ssl) \in Nat /\ MaxRead \in Nat
      <4>1. h \in Tls
        BY <1>4 DEF Beside
      <4>2. h.ssl \in Seq(Unit)
        BY <4>1 DEF Tls
      <4> QED
        BY <1>5, <4>2, BoundsAssumption DEF Units
    <3> QED
      BY <1>4, <3>1, <3>2
  <2> QED
    BY <2>10, <2>11
<1>8. W!Alive(a) => a.parser # "error"
  BY <1>1, <1>2, <1>6 DEF Placed, Settled
<1>9. h \in Tls /\ Matched(FlightsIn(a.wq), Len(h.copies))
  BY <1>2, <1>3, <1>4 DEF Whole, Beside
<1>10. Fed(a, h)
  BY <1>2, <1>4, <1>6, <1>7, <1>8, <1>9 DEF Fed
<1> QED
  BY <1>10 DEF a, g, h

(* The handshake step has an answer. *)
LEMMA FlightFed ==
  ASSUME NEW w, NEW t, Fed(w, t)
  PROVE  Fed([w EXCEPT !.wq = Append(@, "flight")],
             tls_flush_enc_out(Drained(t, TRUE)))
<1> DEFINE q == [w EXCEPT !.wq = Append(@, "flight")]
           u == tls_flush_enc_out(Drained(t, TRUE))
           n == Len(t.copies)
           r == [a |-> t.made + 1, b |-> t.made + 1]
<1>1. Typed(w) /\ Shape(w) /\ t \in Tls
  BY DEF Fed, Typed
<1>2. w.wq \in Seq(Writes) /\ "flight" \in Writes
  BY <1>1 DEF Shape, Writes
<1>3. /\ DOMAIN q = Fields /\ q.wq = Append(w.wq, "flight")
      /\ q.state = w.state /\ q.rx = w.rx /\ q.reading = w.reading
      /\ q.buf = w.buf /\ q.parsed = w.parsed /\ q.parser = w.parser
      /\ q.keep = w.keep /\ q.reqT = w.reqT /\ q.lastT = w.lastT
      /\ q.chunked = w.chunked /\ q.pre = w.pre /\ q.total = w.total
      /\ q.written = w.written /\ q.iter = w.iter /\ q.uv = w.uv
      /\ q.shut = w.shut /\ q.recvd = w.recvd /\ q.ppos = w.ppos
      /\ q.asked = w.asked /\ q.calls = w.calls /\ q.begun = w.begun
      /\ q.done = w.done /\ q.status = w.status
  BY <1>1 DEF Shape, Fields
<1> HIDE DEF q
<1>4. q.wq \in Seq(Writes)
  BY <1>2, <1>3
<1>5. Typed(q)
  BY <1>1, <1>3, <1>4 DEF Typed, Shape, Values, Flags
<1>6. /\ u \in Tls /\ u.hs = t.hs /\ u.ssl = t.ssl /\ u.plain = t.plain
      /\ u.peer = t.peer /\ u.copies = Append(t.copies, r)
  BY <1>1, FlushIs
<1> HIDE DEF u, r
<1>7. n \in Nat /\ Len(u.copies) = n + 1
  <2>1. t.copies \in Seq(Records)
    BY <1>1 DEF Tls
  <2> QED
    BY <1>6, <2>1
<1>8. Matched(FlightsIn(q.wq), n + 1)
  <2>1. /\ FlightsIn(w.wq) \in SUBSET (1 .. Len(w.wq)) /\ Len(w.wq) \in Nat
        /\ FlightsIn(q.wq) = FlightsIn(w.wq) \cup {Len(w.wq) + 1}
    BY <1>2, <1>3, FlightJoins
  <2>2. Matched(FlightsIn(w.wq), n)
    BY DEF Fed
  <2> QED
    BY <1>7, <2>1, <2>2, MatchedMore
<1>9. W!Alive(q) <=> W!Alive(w)
  BY <1>3 DEF W!Alive
<1>10. Unread(w, t) => Unread(q, u)
  BY <1>3, <1>6 DEF Unread
<1>11. Handshake(t) => Handshake(u)
  BY <1>6 DEF Handshake
<1>12. Fed(q, u)
  BY <1>3, <1>5, <1>6, <1>7, <1>8, <1>9, <1>10, <1>11 DEF Fed
<1> QED
  BY <1>12 DEF q, u

(* Encrypting touches the records only. *)
Encrypts(u, t) ==
  /\ u \in Tls /\ u.hs = t.hs /\ u.ssl = t.ssl /\ u.plain = t.plain
  /\ u.peer = t.peer /\ u.copies = t.copies

LEMMA EncodeIs ==
  ASSUME NEW t \in Tls, NEW n \in Nat
  PROVE  Encrypts(tls_data_encode(t, n), t) /\ Encrypts(StatusLost(t), t)
<1> DEFINE r == [a |-> t.made + 1, b |-> t.made + n]
           m == t.made + n
           o == t.made + 1
<1>1. t.made \in Nat /\ m \in Nat /\ o \in Nat
  BY DEF Tls
<1>2. r \in Records /\ NoRecords \in Records
  BY <1>1 DEF Records, NoRecords
<1> HIDE DEF r, m, o
<1>3. [t EXCEPT !.made = m, !.out = r] \in Tls
  BY <1>1, <1>2 DEF Tls
<1>4. [t EXCEPT !.made = o, !.out = NoRecords] \in Tls
  BY <1>1, <1>2 DEF Tls
<1>5. Encrypts([t EXCEPT !.made = m, !.out = r], t)
  BY <1>3 DEF Encrypts, Tls
<1>6. Encrypts([t EXCEPT !.made = o, !.out = NoRecords], t)
  BY <1>4 DEF Encrypts, Tls
<1>7. tls_data_encode(t, n) = [t EXCEPT !.made = m, !.out = r]
  BY DEF tls_data_encode, m, r
<1>8. StatusLost(t) = [t EXCEPT !.made = o, !.out = NoRecords]
  BY DEF StatusLost, o
<1> QED
  BY <1>5, <1>6, <1>7, <1>8

LEMMA EncodedIs ==
  ASSUME NEW t \in Tls, NEW k, NEW l, Shape(l)
  PROVE  Encrypts(Encoded(t, k, l), t)
<1>1. Encrypts(t, t)
  BY DEF Encrypts
<1>2. Buffers(l) \in Nat
  BY DEF Buffers
<1> DEFINE new == SubSeq(l.wq, Len(k.wq) + 1, Len(l.wq))
           queued == {new[i] : i \in DOMAIN new}
           u == IF "status" \in queued THEN StatusLost(t) ELSE t
<1>3. Encoded(t, k, l) =
        IF "resp" \in queued THEN tls_data_encode(u, Buffers(l)) ELSE u
  BY DEF Encoded
<1>4. u = StatusLost(t) \/ u = t
  OBVIOUS
<1> HIDE DEF queued, u
<1>5. Encrypts(u, t) /\ u \in Tls
  BY <1>1, <1>2, <1>4, EncodeIs DEF Encrypts
<1>6. Encrypts(tls_data_encode(u, Buffers(l)), u)
  BY <1>2, <1>5, EncodeIs
<1> QED
  BY <1>3, <1>5, <1>6 DEF Encrypts

(* SSL_read and all that follows. *)
LEMMA Decrypting ==
  ASSUME NEW t, NEW w, Fed(w, t), ~Closes(t), ~Waits(t), Decrypts(t, w)
  PROVE  Whole(conn', tls') /\ conn'.uv # "none"
<1> DEFINE D == Decrypted(t)
           n == Len(D)
           rest == SubSeq(t.ssl, n + 1, Len(t.ssl))
           s == SSL_read(t)
           k == [w EXCEPT !.buf = Pieces(D), !.recvd = @ + n]
<1>1. t \in Tls /\ Typed(w)
  BY DEF Fed
<1>2. t.hs = "TLS_HS_DONE" /\ Handshake(t)
  BY <1>1 DEF Fed, Closes, Waits, Tls
<1>3. D # <<>>
  BY DEF Waits
<1>4. /\ n \in Nat /\ n <= MaxRead
      /\ Pieces(D) \in Seq(PeerTokens) /\ Len(Pieces(D)) = n
      /\ Plain(t.ssl) = Pieces(D) \o Plain(rest)
      /\ rest \in Units /\ Open(rest) /\ Joined(rest, t.peer)
      /\ n < MaxRead => Readable(rest) = 0 /\ Len(rest) <= 1
      /\ n = MaxRead => Len(rest) = Len(t.ssl) - MaxRead
  BY <1>1, <1>2, LeavesIs
<1>5. Beside(s, t) /\ s.hs = t.hs /\ s.ssl = rest
  BY <1>1, ReadIs
<1>6. PICK e \in 1 .. Len(k.buf), r \in W!Reply :
        /\ W!EndsAt(k, e)
        /\ conn' = W!Parse(k, e, r, FALSE)
        /\ tls' = IF W!NotConn(w) /\ conn'.state = "CS_DESTROY"
                  THEN tls_data_encode(s, 1) ELSE Encoded(s, w, conn')
  BY DEF Decrypts
<1>7. /\ Typed(k) /\ k.uv = w.uv /\ k.shut = w.shut /\ k.wq = w.wq
      /\ k.buf = Pieces(D) /\ k.parsed = 0 /\ k.rx = "RXS_READING"
      /\ k.parser = w.parser /\ k.ppos = w.ppos
  <2>1. Shape(w) /\ Values(w) /\ Flags(w)
    BY <1>1 DEF Typed
  <2>2. /\ DOMAIN k = Fields
        /\ k.buf = Pieces(D) /\ k.recvd = w.recvd + n
        /\ k.rx = w.rx /\ k.parsed = w.parsed
        /\ k.state = w.state /\ k.reading = w.reading /\ k.parser = w.parser
        /\ k.keep = w.keep /\ k.reqT = w.reqT /\ k.lastT = w.lastT
        /\ k.chunked = w.chunked /\ k.pre = w.pre /\ k.total = w.total
        /\ k.written = w.written /\ k.iter = w.iter /\ k.uv = w.uv
        /\ k.shut = w.shut /\ k.wq = w.wq /\ k.ppos = w.ppos
        /\ k.asked = w.asked /\ k.calls = w.calls /\ k.begun = w.begun
        /\ k.done = w.done /\ k.status = w.status
    BY <2>1 DEF Shape, Fields
  <2> HIDE DEF k, n, D
  <2>3. Pieces(D) \in Seq(W!Token)
    BY <1>4, PeersAssumption
  <2>4. Typed(k)
    BY <1>4, <2>1, <2>2, <2>3 DEF Typed, Shape, Values, Flags
  <2> QED
    BY <2>2, <2>4 DEF Fed
<1> HIDE DEF D, n, rest, s, k
<1>8. W!Alive(k) <=> W!Alive(w)
  BY <1>7 DEF W!Alive
<1>9. Advances(conn', k)
  <2>1. W!Alive(k) => k.parser # "error" /\ (k.reading => k.rx # "RXS_FREEZED")
    BY <1>7, <1>8 DEF Fed
  <2> QED
    BY <1>6, <1>7, <2>1, ParseAdvances
<1>10. Typed(conn') /\ Shape(conn') /\ Placed(conn')
  <2>1. k.rx = "RXS_FREEZED" => Len(k.buf) > 0
    BY <1>7
  <2> QED
    BY <1>7, <1>9, <2>1, AdvancesPlaced DEF Placed, Typed
<1>11. Encrypts(tls', s)
  <2>1. s \in Tls /\ 1 \in Nat
    BY <1>5 DEF Beside
  <2>2. Encrypts(tls_data_encode(s, 1), s) /\ Encrypts(Encoded(s, w, conn'), s)
    BY <1>10, <2>1, EncodeIs, EncodedIs
  <2> QED
    BY <1>6, <2>2
<1>12. /\ tls' \in Tls /\ tls'.hs = "TLS_HS_DONE" /\ tls'.ssl = rest
       /\ tls'.plain = t.plain /\ tls'.peer = t.peer /\ tls'.copies = t.copies
  BY <1>2, <1>5, <1>11 DEF Encrypts, Beside
<1>13. Handshake(tls')
  <2>1. t.peer \in Late
    BY <1>2 DEF Handshake
  <2> QED
    BY <1>4, <1>12, <2>1 DEF Handshake
<1>14. Matched(FlightsIn(conn'.wq), Len(tls'.copies))
  BY <1>7, <1>9, <1>12 DEF Advances, Fed
<1>15. ASSUME W!Alive(conn') PROVE Unread(conn', tls') /\ Tight(conn', tls')
  <2>1. W!Alive(w)
    BY <1>8, <1>9, <1>15 DEF Advances
  <2>2. Unread(w, t) /\ Len(t.ssl) <= MaxRead + 1
    BY <2>1 DEF Fed
  <2>3. Unread(k, s)
    <3>1. PICK before \in Seq(W!Token) :
            /\ Len(before) = w.ppos
            /\ t.plain = before \o (SubSeq(w.buf, w.parsed + 1, Len(w.buf))
                                      \o Plain(t.ssl))
      BY <2>2 DEF Unread
    <3> DEFINE x == Pieces(D)
               y == Plain(rest)
    <3>2. x \in Seq(W!Token) /\ y \in Seq(W!Token)
      <4>1. x \in Seq(PeerTokens) /\ y \in Seq(PeerTokens)
        BY <1>4, PlainOfConcat
      <4> QED
        BY <4>1, PeersAssumption
    <3>3. Plain(t.ssl) = x \o y
      BY <1>4
    <3>4. SubSeq(w.buf, w.parsed + 1, Len(w.buf)) = <<>>
      <4>1. w.buf = <<>> /\ w.parsed = 0
        BY DEF Fed
      <4> QED
        BY <4>1
    <3>5. SubSeq(k.buf, k.parsed + 1, Len(k.buf)) = x
      <4>1. k.buf = x /\ k.parsed + 1 = 1
        BY <1>7
      <4> HIDE DEF x
      <4>2. SubSeq(x, 1, Len(x)) = x
        BY <3>2
      <4> QED
        BY <4>1, <4>2
    <3> HIDE DEF x, y
    <3>6. <<>> \o (x \o y) = x \o y
      BY <3>2
    <3>7. s.plain = before \o (SubSeq(k.buf, k.parsed + 1, Len(k.buf))
                                 \o Plain(s.ssl))
      BY <1>5, <3>1, <3>3, <3>4, <3>5, <3>6 DEF Beside, y
    <3> QED
      BY <1>7, <3>1, <3>7 DEF Unread
  <2>4. Unread(conn', tls')
    <3>1. s \in Tls
      BY <1>5 DEF Beside
    <3> QED
      BY <1>5, <1>7, <1>9, <1>12, <2>3, <3>1, UnreadAdvances DEF Beside
  <2>5. Len(rest) <= 1
    <3>1. Len(t.ssl) \in Nat /\ Len(rest) \in Nat /\ MaxRead \in Nat
      <4>1. t.ssl \in Seq(Unit)
        BY <1>1 DEF Tls
      <4> QED
        BY <1>4, <4>1, BoundsAssumption DEF Units
    <3>2. n < MaxRead \/ n = MaxRead
      BY <1>4, <3>1
    <3> QED
      BY <1>4, <2>2, <3>1, <3>2
  <2>6. Len(conn'.buf) = n
    BY <1>4, <1>7, <1>9 DEF Advances
  <2>7. Tight(conn', tls')
    BY <1>4, <1>12, <2>5, <2>6 DEF Tight
  <2> QED
    BY <2>4, <2>7
<1>16. conn'.uv # "none"
  BY <1>7, <1>9 DEF Advances, Fed
<1> QED
  BY <1>10, <1>12, <1>13, <1>14, <1>15, <1>16 DEF Whole

LEMMA ReadsWhole ==
  ASSUME Ordered, read_cb PROVE Ordered'
<1>1. /\ Whole(conn, tls) /\ conn.uv = "open" /\ conn.reading
      /\ Placed(conn) /\ Typed(conn) /\ Handshake(tls) /\ tls \in Tls
  BY DEF Ordered, read_cb, Whole, Placed
<1>2. PICK units \in PeerData : LET g == Given(units) IN
       IF Refuses(conn, tls)
       THEN conn' = W!TakeAction(conn, "CA_SHUTDOWN") /\ tls' = g
       ELSE \E output \in Outputs(g) :
              LET h == Stepped(g)
                  t == IF output THEN tls_flush_enc_out(Drained(h, TRUE)) ELSE h
                  k == W!alloc_cb(conn, <<>>)
                  w == IF output THEN [k EXCEPT !.wq = Append(@, "flight")] ELSE k
              IN CASE output /\ W!NotConn(conn) ->
                        conn' = W!TakeAction(k, "CA_SHUTDOWN") /\ tls' = h
                   [] ~(output /\ W!NotConn(conn)) /\ Closes(t) ->
                        /\ conn' = W!TakeAction(w, "CA_CLOSE")
                        /\ tls' = SSL_read(t)
                   [] ~(output /\ W!NotConn(conn)) /\ Waits(t) ->
                        conn' = W!stream_read_start(w) /\ tls' = t
                   [] OTHER -> Decrypts(t, w)
  BY DEF read_cb, Stepped
<1> DEFINE g == Given(units)
           h == Stepped(g)
           k == W!alloc_cb(conn, <<>>)
<1>3. CASE Refuses(conn, tls)
  <2>1. conn' = W!TakeAction(conn, "CA_SHUTDOWN") /\ tls' = g
    BY <1>2, <1>3
  <2>2. tls.hs = "TLS_HS_DONE"
    <3>1. ASSUME tls.ssl = <<>> PROVE Readable(tls.ssl) = 0
      <4>1. <<>> \in Units /\ Len(<<>>) = 0
        BY DEF Units
      <4>2. Readable(<<>>) \in 0 .. 0
        BY <4>1, ReadableIs
      <4> QED
        BY <3>1, <4>2
    <3>2. ASSUME tls.hs = "TLS_HS_PENDING" PROVE conn.rx # "RXS_FREEZED"
      <4>1. conn.buf = <<>>
        BY <1>1, <3>2 DEF Whole
      <4> QED
        BY <1>1, <4>1 DEF Placed
    <3> QED
      BY <1>1, <1>3, <3>1, <3>2 DEF Refuses, Handshake
  <2>3. /\ g \in Tls /\ g.hs = "TLS_HS_DONE" /\ g.copies = tls.copies
    BY <1>1, <2>2, GivenIs
  <2>4. Handshake(g)
    <3>1. Stepped(g) = g
      BY <2>3 DEF Stepped
    <3>2. g.hs = "TLS_HS_ERROR" \/ Handshake(g)
      BY <1>1, <3>1, StepIs
    <3> QED
      BY <2>3, <3>2
  <2> HIDE DEF g
  <2>5. "CA_SHUTDOWN" \in W!Action /\ "CA_SHUTDOWN" \in {"CA_CLOSE", "CA_SHUTDOWN"}
    BY DEF W!Action
  <2>6. Keeps(conn', conn)
    BY <1>1, <2>1, <2>5, ActKeeps
  <2>7. ~W!Alive(conn')
    <3>1. Dead(W!TakeAction(conn, "CA_SHUTDOWN"))
      BY <1>1, <2>5, Acts DEF Typed
    <3> QED
      BY <2>1, <3>1 DEF Dead
  <2>8. Placed(conn')
    BY <1>1, <2>6, KeepsPlaced
  <2>9. Whole(conn', tls')
    BY <1>1, <2>1, <2>3, <2>4, <2>6, <2>7, <2>8 DEF Whole, Keeps
  <2>10. conn'.uv # "none"
    BY <1>1, <2>6 DEF Keeps
  <2> QED
    BY <2>9, <2>10 DEF Ordered, Unborn
<1>4. CASE ~Refuses(conn, tls)
  <2>1. PICK output \in Outputs(g) :
          LET t == IF output THEN tls_flush_enc_out(Drained(h, TRUE)) ELSE h
              w == IF output THEN [k EXCEPT !.wq = Append(@, "flight")] ELSE k
          IN CASE output /\ W!NotConn(conn) ->
                    conn' = W!TakeAction(k, "CA_SHUTDOWN") /\ tls' = h
               [] ~(output /\ W!NotConn(conn)) /\ Closes(t) ->
                    /\ conn' = W!TakeAction(w, "CA_CLOSE")
                    /\ tls' = SSL_read(t)
               [] ~(output /\ W!NotConn(conn)) /\ Waits(t) ->
                    conn' = W!stream_read_start(w) /\ tls' = t
               [] OTHER -> Decrypts(t, w)
    BY <1>2, <1>4
  <2>2. Fed(k, h)
    BY <1>1, Feeding
  <2> DEFINE t == IF output THEN tls_flush_enc_out(Drained(h, TRUE)) ELSE h
             w == IF output THEN [k EXCEPT !.wq = Append(@, "flight")] ELSE k
             Refused == output /\ W!NotConn(conn)
  <2>3. Fed(w, t)
    BY <2>2, FlightFed
  <2>4. k.uv = "open" /\ k.shut = conn.shut
    BY <1>1, AllocIs
  <2>5. \/ Refused /\ conn' = W!TakeAction(k, "CA_SHUTDOWN") /\ tls' = h
        \/ /\ Closes(t)
           /\ conn' = W!TakeAction(w, "CA_CLOSE") /\ tls' = SSL_read(t)
        \/ Waits(t) /\ conn' = W!stream_read_start(w) /\ tls' = t
        \/ ~Closes(t) /\ ~Waits(t) /\ Decrypts(t, w)
    BY <2>1
  <2> HIDE DEF g, h, k, t, w
  <2>6. ASSUME Refused, conn' = W!TakeAction(k, "CA_SHUTDOWN"), tls' = h
        PROVE  Ordered'
    <3>1. conn'.uv = "closing"
      <4>1. Typed(k) /\ Shape(k)
        BY <2>2 DEF Fed, Typed
      <4>2. W!NotConn(conn) /\ conn.uv = "open"
        BY <1>1, <2>6
      <4>3. k.shut
        BY <2>4, <4>2 DEF W!NotConn
      <4>4. conn' = W!shutdown_connection(W!stream_read_stop(k))
        BY <2>6 DEF W!TakeAction
      <4> DEFINE s == W!stream_read_stop(k)
      <4>5. s.uv = "open" /\ s.shut = k.shut /\ Shape(s)
        BY <2>4, <4>1, Stops DEF Like
      <4> HIDE DEF s
      <4>6. conn' = W!close_connection(s)
        BY <4>3, <4>4, <4>5 DEF s, W!shutdown_connection, W!NotConn
      <4> QED
        BY <4>5, <4>6 DEF W!close_connection, Shape, Fields
    <3>2. "CA_SHUTDOWN" \in W!Action
      BY DEF W!Action
    <3>3. Keeps(conn', k)
      BY <2>2, <2>6, <3>2, ActKeeps DEF Fed
    <3>4. Placed(conn')
      BY <2>2, <3>3, FedPlaced, KeepsPlaced
    <3>5. Whole(conn', tls')
      BY <2>2, <2>6, <3>1, <3>3, <3>4 DEF Whole, Fed, Keeps, W!Alive
    <3> QED
      BY <3>1, <3>5 DEF Ordered, Unborn
  <2>7. ASSUME Closes(t), conn' = W!TakeAction(w, "CA_CLOSE"), tls' = SSL_read(t)
        PROVE  Ordered'
    <3>1. conn'.uv = "closing"
      <4>1. Shape(w) /\ w.uv = "open"
        BY <2>3 DEF Fed, Typed
      <4>2. conn' = W!close_connection(W!stream_read_stop(w))
        BY <2>7 DEF W!TakeAction
      <4> DEFINE s == W!stream_read_stop(w)
      <4>3. s.uv = "open" /\ Shape(s)
        BY <4>1, Stops DEF Like
      <4> HIDE DEF s
      <4> QED
        BY <4>2, <4>3 DEF s, W!close_connection, Shape, Fields
    <3>2. "CA_CLOSE" \in W!Action
      BY DEF W!Action
    <3>3. Keeps(conn', w)
      BY <2>3, <2>7, <3>2, ActKeeps DEF Fed
    <3>4. Placed(conn')
      BY <2>3, <3>3, FedPlaced, KeepsPlaced
    <3>5. Beside(tls', t) /\ tls'.hs = t.hs
      BY <2>3, <2>7, ReadIs DEF Fed
    <3>6. Whole(conn', tls')
      BY <2>3, <3>1, <3>3, <3>4, <3>5 DEF Whole, Fed, Keeps, Beside, W!Alive
    <3> QED
      BY <3>1, <3>6 DEF Ordered, Unborn
  <2>8. ASSUME Waits(t), conn' = W!stream_read_start(w), tls' = t
        PROVE  Ordered'
    <3>1. Keeps(conn', w)
      BY <2>3, <2>8, StartKeeps DEF Fed
    <3>2. t \in Tls /\ Handshake(t)
      BY <2>3, <2>8 DEF Waits, Closes, Fed
    <3>3. ASSUME W!Alive(w) PROVE Tight(w, t)
      <4>1. CASE t.hs = "TLS_HS_PENDING"
        <5>1. t.ssl = <<>>
          BY <3>2, <4>1 DEF Handshake
        <5> QED
          BY <4>1, <5>1 DEF Tight
      <4>2. CASE t.hs = "TLS_HS_DONE"
        <5>1. ~Closes(t) /\ Decrypted(t) = <<>>
          BY <2>8, <4>2 DEF Waits
        <5>2. Len(Decrypted(t)) = 0
          BY <5>1
        <5>3. MaxRead \in Nat /\ MaxRead > 0
          <6>1. Len(units) \in 1 .. MaxRead
            BY <1>1, PeerDataLegal DEF Tls
          <6> QED
            BY <6>1, BoundsAssumption
        <5> DEFINE q == SubSeq(t.ssl, 0 + 1, Len(t.ssl))
        <5>4. Readable(q) = 0 /\ Len(q) <= 1
          BY <3>2, <4>2, <5>1, <5>2, <5>3, LeavesIs
        <5>5. q = t.ssl
          <6>1. t.ssl \in Seq(Unit) /\ 0 + 1 = 1
            BY <3>2 DEF Tls
          <6> QED
            BY <6>1
        <5> HIDE DEF q
        <5> QED
          BY <5>4, <5>5 DEF Tight
      <4> QED
        BY <3>2, <4>1, <4>2 DEF Handshake
    <3>4. Whole(w, t)
      BY <2>3, <3>2, <3>3, FedPlaced DEF Whole, Fed
    <3>5. Whole(conn', tls')
      BY <2>8, <3>1, <3>4, WholeKeeps
    <3>6. conn'.uv # "none"
      BY <2>3, <3>1 DEF Keeps, Fed
    <3> QED
      BY <3>5, <3>6 DEF Ordered, Unborn
  <2>9. ASSUME ~Closes(t), ~Waits(t), Decrypts(t, w) PROVE Ordered'
    <3>1. Whole(conn', tls') /\ conn'.uv # "none"
      BY <2>3, <2>9, Decrypting
    <3> QED
      BY <3>1 DEF Ordered, Unborn
  <2> QED
    BY <2>5, <2>6, <2>7, <2>8, <2>9
<1> QED
  BY <1>3, <1>4

-----------------------------------------------------------------------------
(* The other callbacks.                                                    *)

LEMMA FreshIs == Typed(W!Fresh) /\ Placed(W!Fresh) /\ FlightsIn(<<>>) = {}
<1> DEFINE k == W!Fresh
<1>1. /\ DOMAIN k = Fields /\ k.state = "CS_ACCEPT" /\ k.rx = "RXS_RESTING"
      /\ k.reading = FALSE /\ k.buf = <<>> /\ k.parsed = 0 /\ k.parser = "idle"
      /\ k.keep = FALSE /\ k.reqT = FALSE /\ k.lastT = FALSE /\ k.chunked = 0
      /\ k.pre = 0 /\ k.total = 0 /\ k.written = 0 /\ k.iter = FALSE
      /\ k.uv = "none" /\ k.shut = FALSE /\ k.wq = <<>> /\ k.recvd = 0
      /\ k.ppos = 0 /\ k.asked = 0 /\ k.calls = 0 /\ k.begun = 0
      /\ k.done = 0 /\ k.status = "none"
  BY DEF W!Fresh, Fields
<1> HIDE DEF k
<1>2. <<>> \in Seq(Writes) /\ <<>> \in Seq(W!Token) /\ Len(<<>>) = 0
  OBVIOUS
<1>3. Typed(k)
  <2>1. Flags(k)
    BY <1>1, Zenon DEF Flags
  <2>2. Shape(k)
    BY <1>1, <1>2 DEF Shape
  <2>3. Values(k)
    BY <1>1, <1>2 DEF Values, W!ClientState, W!RxStatus, W!Status
  <2> QED
    BY <2>1, <2>2, <2>3 DEF Typed
<1>4. Placed(k)
  BY <1>1, <1>2, <1>3 DEF Placed, Settled, W!Alive
<1>5. FlightsIn(<<>>) = {}
  BY DEF FlightsIn
<1> QED
  BY <1>3, <1>4, <1>5 DEF k

LEMMA InitialTls ==
  ASSUME NEW eager \in Eager
  PROVE  LET t == tls_client_init(eager)
         IN /\ t \in Tls /\ Handshake(t) /\ t.copies = <<>> /\ t.plain = <<>>
            /\ t.ssl = <<>> /\ t.hs = "TLS_HS_PENDING" /\ Plain(t.ssl) = <<>>
<1> DEFINE t == tls_client_init(eager)
<1>1. /\ DOMAIN t = {"hs", "notify", "ssl", "made", "out", "copies", "plain",
                     "peer", "eager", "seen", "gap"}
      /\ t.hs = "TLS_HS_PENDING" /\ t.notify = FALSE /\ t.ssl = <<>>
      /\ t.made = 0 /\ t.out = NoRecords /\ t.copies = <<>> /\ t.plain = <<>>
      /\ t.peer = "start" /\ t.eager = eager /\ t.seen = 0 /\ t.gap = FALSE
  BY DEF tls_client_init
<1>2. /\ NoRecords \in Records /\ <<>> \in Seq(Records) /\ <<>> \in Seq(Unit)
      /\ <<>> \in Seq(PeerTokens) /\ 0 \in Nat
  BY DEF NoRecords, Records
<1>3. eager \in BOOLEAN
  BY EagerAssumption
<1>4. t \in Tls
  BY <1>2, <1>3 DEF tls_client_init, Tls, PeerPhase
<1>5. Plain(<<>>) = <<>>
  <2>1. <<>> \in Units /\ \A i \in 1 .. Len(<<>>) : ~Asked(<<>>[i])
    BY DEF Units
  <2> QED
    BY <2>1, PlainOfNone
<1> HIDE DEF t
<1>6. Handshake(t)
  BY <1>1 DEF Handshake
<1> QED
  BY <1>1, <1>4, <1>5, <1>6 DEF t

LEMMA InitialWhole == Init => Ordered
<1> SUFFICES ASSUME Init PROVE Ordered
  OBVIOUS
<1>1. PICK eager \in Eager : tls = tls_client_init(eager)
  BY DEF Init
<1>2. conn = W!Fresh
  BY DEF Init
<1>3. /\ tls \in Tls /\ tls.copies = <<>>
  BY <1>1, InitialTls
<1>4. conn.uv = "none" /\ conn.wq = <<>> /\ conn.buf = <<>> /\ ~W!Alive(conn)
  BY <1>2 DEF W!Fresh, W!Alive
<1>5. Matched(FlightsIn(conn.wq), Len(tls.copies))
  BY <1>3, <1>4, FreshIs, MatchedNone
<1>6. Whole(conn, tls)
  BY <1>2, <1>3, <1>4, <1>5, FreshIs DEF Whole
<1> QED
  BY <1>1, <1>2, <1>6 DEF Ordered, Unborn

LEMMA ConnectsWhole ==
  ASSUME Ordered, connection_cb PROVE Ordered'
<1> DEFINE a == [W!Fresh EXCEPT !.uv = "open", !.state = "CS_REQ_READ",
                                !.reading = TRUE, !.reqT = TRUE]
           b == [W!Fresh EXCEPT !.uv = "closing", !.state = "CS_DESTROY"]
<1>1. conn.uv = "none" /\ conn' \in {a, b} /\ tls' = tls
  BY DEF connection_cb
<1>2. PICK eager \in Eager : tls = tls_client_init(eager)
  BY <1>1 DEF Ordered, Unborn
<1>3. /\ tls \in Tls /\ Handshake(tls) /\ tls.copies = <<>> /\ tls.plain = <<>>
      /\ tls.ssl = <<>> /\ tls.hs = "TLS_HS_PENDING" /\ Plain(tls.ssl) = <<>>
  BY <1>2, InitialTls
<1>4. ASSUME NEW k \in {a, b}
      PROVE  /\ Placed(k) /\ k.uv # "none" /\ k.wq = <<>> /\ k.buf = <<>>
             /\ k.ppos = 0 /\ k.parsed = 0
  <2> DEFINE o == W!Fresh
  <2>1. /\ Typed(o) /\ o.wq = <<>> /\ o.buf = <<>> /\ o.ppos = 0 /\ o.parsed = 0
        /\ o.rx = "RXS_RESTING" /\ o.parser = "idle"
    BY FreshIs DEF W!Fresh
  <2> HIDE DEF o
  <2>2. /\ DOMAIN k = Fields
        /\ k.state \in {"CS_REQ_READ", "CS_DESTROY"} /\ k.rx = o.rx
        /\ k.buf = o.buf /\ k.parsed = o.parsed /\ k.parser = o.parser
        /\ k.chunked = o.chunked /\ k.pre = o.pre /\ k.total = o.total
        /\ k.written = o.written /\ k.uv \in {"open", "closing"}
        /\ k.wq = o.wq /\ k.recvd = o.recvd /\ k.ppos = o.ppos
        /\ k.asked = o.asked /\ k.calls = o.calls /\ k.begun = o.begun
        /\ k.done = o.done /\ k.status = o.status
    BY <1>4, <2>1 DEF o, Typed, Shape, Fields
  <2>3. Flags(k)
    <3>1. /\ k.keep = o.keep /\ k.lastT = o.lastT /\ k.iter = o.iter
          /\ k.shut = o.shut
          /\ k.reading = TRUE \/ k.reading = o.reading
          /\ k.reqT = TRUE \/ k.reqT = o.reqT
      BY <1>4, <2>1 DEF o, Typed, Shape, Fields
    <3> HIDE DEF a, b
    <3>2. Flags(o)
      BY <2>1 DEF Typed
    <3> QED
      BY <3>1, <3>2, Zenon DEF Flags
  <2> HIDE DEF a, b
  <2>4. Typed(k)
    <3>1. k.state \in W!ClientState
      BY <2>2 DEF W!ClientState
    <3> QED
      BY <2>1, <2>2, <2>3, <3>1 DEF Typed, Shape, Values
  <2>5. Placed(k)
    <3>1. Len(k.buf) = 0 /\ k.parsed = 0
      BY <2>1, <2>2
    <3> QED
      BY <2>1, <2>2, <2>4, <3>1 DEF Placed, Settled
  <2> QED
    BY <2>1, <2>2, <2>5
<1> HIDE DEF a, b
<1>5. Matched(FlightsIn(conn'.wq), Len(tls.copies))
  BY <1>1, <1>3, <1>4, FreshIs, MatchedNone
<1>6. Unread(conn', tls)
  <2>1. <<>> \in Seq(W!Token) /\ Len(<<>>) = 0 /\ <<>> \o (<<>> \o <<>>) = <<>>
    OBVIOUS
  <2>2. SubSeq(conn'.buf, conn'.parsed + 1, Len(conn'.buf)) = <<>>
    BY <1>1, <1>4
  <2> QED
    BY <1>1, <1>3, <1>4, <2>1, <2>2 DEF Unread
<1>7. Tight(conn', tls)
  BY <1>3 DEF Tight
<1>8. Whole(conn', tls')
  BY <1>1, <1>3, <1>4, <1>5, <1>6, <1>7 DEF Whole
<1> QED
  BY <1>1, <1>4, <1>8 DEF Ordered, Unborn

LEMMA ClosingWhole == ASSUME Ordered, PeerCloses PROVE Ordered'
<1>1. Whole(conn, tls) /\ Typed(conn) /\ conn.uv = "open" /\ tls' = tls
  BY DEF Ordered, Whole, Placed, PeerCloses
<1>2. PICK act \in W!Action : conn' = W!TakeAction(conn, act)
  BY DEF PeerCloses, W!Action
<1>3. Keeps(conn', conn)
  BY <1>1, <1>2, ActKeeps
<1>4. Whole(conn', tls') /\ conn'.uv # "none"
  BY <1>1, <1>3, WholeKeeps DEF Keeps
<1> QED
  BY <1>4 DEF Ordered, Unborn

LEMMA FlownWhole == ASSUME Ordered, FlightWritten PROVE Ordered'
<1> DEFINE q == [conn EXCEPT !.wq = Tail(@)]
           s == W!stream_read_start(q)
           T == [tls EXCEPT !.copies = Tail(@)]
           U == [Received(tls, Head(tls.copies)) EXCEPT !.copies = Tail(@)]
<1>1. /\ Whole(conn, tls) /\ Unborn(conn, tls) /\ conn.wq # <<>>
      /\ Head(conn.wq) = "flight" /\ tls \in Tls
  BY DEF Ordered, FlightWritten, Reports, Whole
<1>2. \/ conn' = W!Drain(s) /\ tls' = U
      \/ conn' = W!close_connection(q) /\ tls' = T
  BY DEF FlightWritten, Reported, tls_write_cb
<1>3. /\ q.uv = conn.uv /\ tls.copies # <<>>
      /\ \A u \in Tls :
           /\ u.ssl = tls.ssl /\ u.plain = tls.plain /\ u.hs = tls.hs
           /\ u.peer = tls.peer /\ u.copies = Tail(tls.copies)
           => Whole(q, u)
  BY <1>1, WholeLeaves
<1>4. /\ Head(tls.copies) \in Records /\ Tail(tls.copies) \in Seq(Records)
  <2>1. tls.copies \in Seq(Records)
    BY <1>1 DEF Tls
  <2> QED
    BY <1>3, <2>1
<1>5. T \in Tls /\ Whole(q, T)
  <2>1. /\ T \in Tls /\ T.ssl = tls.ssl /\ T.plain = tls.plain
        /\ T.hs = tls.hs /\ T.peer = tls.peer /\ T.copies = Tail(tls.copies)
    BY <1>1, <1>4 DEF Tls
  <2> HIDE DEF q, T
  <2> QED
    BY <1>3, <2>1
<1>6. U \in Tls /\ Whole(q, U)
  <2> DEFINE r == Head(tls.copies)
             x == tls.gap \/ (r.a <= r.b /\ r.a # tls.seen + 1)
  <2>1. r.b \in Nat /\ x \in BOOLEAN
    BY <1>1, <1>4 DEF Records, Tls
  <2>2. U = [tls EXCEPT !.seen = r.b, !.gap = x, !.copies = Tail(@)]
    BY <1>1 DEF Received, Tls
  <2> HIDE DEF U, r, x
  <2>3. /\ U \in Tls /\ U.ssl = tls.ssl /\ U.plain = tls.plain
        /\ U.hs = tls.hs /\ U.peer = tls.peer /\ U.copies = Tail(tls.copies)
    BY <1>1, <1>4, <2>1, <2>2 DEF Tls
  <2> HIDE DEF q
  <2> QED
    BY <1>3, <2>3
<1> HIDE DEF q, T, U
<1>7. Typed(q)
  BY <1>5 DEF Whole, Placed
<1>8. Keeps(s, q) /\ Keeps(W!close_connection(q), q)
  BY <1>7, StartKeeps, CloseKeeps
<1>9. Keeps(W!Drain(s), q)
  <2>1. Keeps(W!Drain(s), s)
    BY <1>8, DrainKeeps DEF Keeps
  <2> HIDE DEF s
  <2> QED
    BY <1>8, <2>1, KeepsOn
<1> HIDE DEF s
<1>10. Whole(conn', tls') /\ Keeps(conn', q)
  BY <1>2, <1>5, <1>6, <1>8, <1>9, WholeKeeps
<1>11. conn'.uv # "none"
  <2>1. conn.uv # "none"
    BY <1>1 DEF Unborn, W!Fresh
  <2> QED
    BY <1>3, <1>10, <2>1 DEF Keeps
<1> QED
  BY <1>10, <1>11 DEF Ordered, Unborn

(* The records in enc_out reach the peer with the response. *)
LEMMA ReceivedIs ==
  ASSUME NEW t \in Tls
  PROVE  Encrypts(Received(t, t.out), t)
<1> DEFINE r == t.out
           x == t.gap \/ (r.a <= r.b /\ r.a # t.seen + 1)
           u == [t EXCEPT !.seen = r.b, !.gap = x]
<1>1. r.b \in Nat /\ x \in BOOLEAN
  BY DEF Tls, Records
<1>2. Received(t, t.out) = u
  BY DEF Received
<1> HIDE DEF r, x
<1>3. u \in Tls /\ Encrypts(u, t)
  BY <1>1 DEF Tls, Encrypts
<1> QED
  BY <1>2, <1>3

LEMMA WrittenWhole == ASSUME Ordered, ResponseWritten PROVE Ordered'
<1> DEFINE k == Reported
<1>1. /\ Whole(conn, tls) /\ Unborn(conn, tls) /\ conn.wq # <<>>
      /\ Head(conn.wq) # "flight" /\ tls \in Tls
  BY DEF Ordered, ResponseWritten, Reports, Whole
<1>2. /\ Whole(k, tls) /\ k.uv = conn.uv /\ k.written = conn.written
      /\ k.pre = conn.pre /\ k.total = conn.total /\ k.chunked = conn.chunked
  BY <1>1, WholeLeaves DEF Reported
<1>3. PICK n \in W!NextPull(conn) : \E r \in W!Reply : \E e :
        /\ IF W!Resumes(k) /\ W!Exhausted(k, n) THEN W!EndsAt(k, e)
                                                ELSE e = 0 /\ r.kind = "fail"
        /\ conn' = W!Drain(W!write_cb(k, n, e, r, FALSE))
        /\ tls' = Encoded(Received(tls, tls.out), k,
                          W!write_cb(k, n, e, r, FALSE))
  BY Zenon DEF ResponseWritten
<1>4. PICK r \in W!Reply : \E e :
        /\ IF W!Resumes(k) /\ W!Exhausted(k, n) THEN W!EndsAt(k, e)
                                                ELSE e = 0 /\ r.kind = "fail"
        /\ conn' = W!Drain(W!write_cb(k, n, e, r, FALSE))
        /\ tls' = Encoded(Received(tls, tls.out), k,
                          W!write_cb(k, n, e, r, FALSE))
  BY <1>3
<1>5. PICK e :
        /\ IF W!Resumes(k) /\ W!Exhausted(k, n) THEN W!EndsAt(k, e)
                                                ELSE e = 0 /\ r.kind = "fail"
        /\ conn' = W!Drain(W!write_cb(k, n, e, r, FALSE))
        /\ tls' = Encoded(Received(tls, tls.out), k,
                          W!write_cb(k, n, e, r, FALSE))
  BY <1>4
<1> HIDE DEF k
<1> DEFINE l == W!write_cb(k, n, e, r, FALSE)
<1>6. /\ n \in W!Pull
      /\ n.kind = "end" /\ k.chunked = 0 => k.written + k.pre >= k.total
  BY <1>2 DEF W!NextPull
<1>7. Advances(l, k)
  <2>1. W!Resumes(k) /\ W!Exhausted(k, n) => W!EndsAt(k, e)
    BY <1>5
  <2>2. Placed(k)
    BY <1>2 DEF Whole
  <2> QED
    BY <1>6, <2>1, <2>2, WriteAdvances
<1> HIDE DEF l
<1>8. conn' = W!Drain(l) /\ tls' = Encoded(Received(tls, tls.out), k, l)
  BY <1>5 DEF l
<1>9. Typed(l) /\ Shape(l)
  BY <1>7 DEF Advances, Typed
<1>10. Advances(conn', k)
  BY <1>7, <1>8, <1>9, DrainKeeps, AdvancesOn
<1>11. Encrypts(tls', tls)
  <2>1. Encrypts(Received(tls, tls.out), tls)
    BY <1>1, ReceivedIs
  <2> DEFINE t == Received(tls, tls.out)
  <2>2. t \in Tls /\ Encrypts(t, tls)
    BY <2>1 DEF Encrypts
  <2> HIDE DEF t
  <2>3. Encrypts(Encoded(t, k, l), t)
    BY <1>9, <2>2, EncodedIs
  <2> QED
    BY <1>8, <2>2, <2>3 DEF Encrypts, t
<1>12. Whole(conn', tls')
  BY <1>2, <1>10, <1>11, WholeAdvances DEF Encrypts
<1>13. conn'.uv # "none"
  <2>1. conn.uv # "none"
    BY <1>1 DEF Unborn, W!Fresh
  <2> QED
    BY <1>2, <1>10, <2>1 DEF Advances
<1> QED
  BY <1>12, <1>13 DEF Ordered, Unborn

LEMMA FailedWhole == ASSUME Ordered, WriteFailed PROVE Ordered'
<1> DEFINE k == Reported
           q == [k EXCEPT !.pre = 0]
<1>1. /\ Whole(conn, tls) /\ Unborn(conn, tls) /\ conn.wq # <<>>
      /\ Head(conn.wq) # "flight" /\ tls' = tls
  BY DEF Ordered, WriteFailed, Reports
<1>2. Whole(k, tls) /\ k.uv = conn.uv
  BY <1>1, WholeLeaves DEF Reported
<1>3. conn' = W!close_connection(q)
  BY DEF WriteFailed
<1> HIDE DEF k
<1>4. Typed(k) /\ Placed(k)
  BY <1>2 DEF Whole, Placed
<1>5. Keeps(q, k)
  <2>1. /\ DOMAIN q = Fields /\ q.pre = 0
        /\ q.state = k.state /\ q.rx = k.rx /\ q.reading = k.reading
        /\ q.buf = k.buf /\ q.parsed = k.parsed /\ q.parser = k.parser
        /\ q.keep = k.keep /\ q.reqT = k.reqT /\ q.lastT = k.lastT
        /\ q.chunked = k.chunked /\ q.total = k.total
        /\ q.written = k.written /\ q.iter = k.iter /\ q.uv = k.uv
        /\ q.shut = k.shut /\ q.wq = k.wq /\ q.recvd = k.recvd
        /\ q.ppos = k.ppos
        /\ q.asked = k.asked /\ q.calls = k.calls /\ q.begun = k.begun
        /\ q.done = k.done /\ q.status = k.status
    BY <1>4 DEF Typed, Shape, Fields
  <2> HIDE DEF q
  <2>2. Typed(q)
    BY <1>4, <2>1 DEF Typed, Shape, Values, Flags
  <2> QED
    BY <2>1, <2>2 DEF Keeps, W!Alive
<1> HIDE DEF q
<1>6. Keeps(conn', k)
  <2>1. Keeps(conn', q)
    BY <1>3, <1>5, CloseKeeps DEF Keeps
  <2> QED
    BY <1>5, <2>1, KeepsOn
<1>7. Whole(conn', tls')
  BY <1>1, <1>2, <1>6, WholeKeeps
<1>8. conn'.uv # "none"
  <2>1. conn.uv # "none"
    BY <1>1 DEF Unborn, W!Fresh
  <2> QED
    BY <1>2, <1>6, <2>1 DEF Keeps
<1> QED
  BY <1>7, <1>8 DEF Ordered, Unborn

LEMMA StatedWhole == ASSUME Ordered, StatusWritten PROVE Ordered'
<1> DEFINE k == Reported
           s == W!stream_read_start(k)
<1>1. /\ Whole(conn, tls) /\ Unborn(conn, tls) /\ conn.wq # <<>>
      /\ Head(conn.wq) # "flight" /\ tls' = tls
  BY DEF Ordered, StatusWritten, Reports
<1>2. Whole(k, tls) /\ k.uv = conn.uv
  BY <1>1, WholeLeaves DEF Reported
<1>3. conn' = W!Drain(s)
  BY DEF StatusWritten
<1> HIDE DEF k
<1>4. Keeps(s, k)
  BY <1>2, StartKeeps DEF Whole, Placed
<1> HIDE DEF s
<1>5. Keeps(conn', k)
  <2>1. Keeps(conn', s)
    BY <1>3, <1>4, DrainKeeps DEF Keeps
  <2> QED
    BY <1>4, <2>1, KeepsOn
<1>6. Whole(conn', tls')
  BY <1>1, <1>2, <1>5, WholeKeeps
<1>7. conn'.uv # "none"
  <2>1. conn.uv # "none"
    BY <1>1 DEF Unborn, W!Fresh
  <2> QED
    BY <1>2, <1>5, <2>1 DEF Keeps
<1> QED
  BY <1>6, <1>7 DEF Ordered, Unborn

LEMMA ShutDownWhole == ASSUME Ordered, shutdown_cb PROVE Ordered'
<1>1. Whole(conn, tls) /\ Typed(conn) /\ conn.uv = "open" /\ tls' = tls
  BY DEF Ordered, Whole, Placed, shutdown_cb
<1>2. Keeps(conn', conn)
  BY <1>1, CloseKeeps DEF shutdown_cb
<1>3. Whole(conn', tls') /\ conn'.uv # "none"
  BY <1>1, <1>2, WholeKeeps DEF Keeps
<1> QED
  BY <1>3 DEF Ordered, Unborn

LEMMA ChecksWhole == ASSUME Ordered, client_aux_check PROVE Ordered'
<1> DEFINE s == W!stream_read_stop(conn)
<1>1. Whole(conn, tls) /\ Typed(conn) /\ conn.uv = "open" /\ tls' = tls
  BY DEF Ordered, Whole, Placed, client_aux_check
<1>2. Keeps(s, conn) /\ conn' = W!shutdown_connection(s)
  BY <1>1, StopKeeps DEF client_aux_check
<1> HIDE DEF s
<1>3. Keeps(conn', conn)
  <2>1. Keeps(conn', s)
    BY <1>2, ShutKeeps DEF Keeps
  <2> QED
    BY <1>2, <2>1, KeepsOn
<1>4. Whole(conn', tls') /\ conn'.uv # "none"
  BY <1>1, <1>3, WholeKeeps DEF Keeps
<1> QED
  BY <1>4 DEF Ordered, Unborn

LEMMA ClosedDownWhole == ASSUME Ordered, close_cb PROVE Ordered'
<1> DEFINE b == W!reset_response_body(conn)
           q == [b EXCEPT !.uv = "closed", !.rx = "RXS_RESTING",
                          !.reading = FALSE]
           u == [tls EXCEPT !.ssl = <<>>, !.out = NoRecords]
<1>1. Whole(conn, tls) /\ Placed(conn) /\ Typed(conn) /\ tls \in Tls
  BY DEF Ordered, Whole, Placed
<1>2. Keeps(b, conn)
  BY <1>1, ResetKeeps
<1>3. conn' = q /\ tls' = u
  BY DEF close_cb
<1> HIDE DEF b
<1>4. Placed(b) /\ Typed(b)
  BY <1>1, <1>2, KeepsPlaced DEF Placed
<1>5. /\ DOMAIN q = Fields /\ q.rx = "RXS_RESTING" /\ q.reading = FALSE
      /\ q.uv = "closed"
      /\ q.state = b.state /\ q.buf = b.buf /\ q.parsed = b.parsed
      /\ q.parser = b.parser /\ q.keep = b.keep /\ q.reqT = b.reqT
      /\ q.lastT = b.lastT /\ q.chunked = b.chunked /\ q.pre = b.pre
      /\ q.total = b.total /\ q.written = b.written /\ q.iter = b.iter
      /\ q.shut = b.shut /\ q.wq = b.wq /\ q.recvd = b.recvd
      /\ q.ppos = b.ppos
      /\ q.asked = b.asked /\ q.calls = b.calls /\ q.begun = b.begun
      /\ q.done = b.done /\ q.status = b.status
  BY <1>4 DEF Typed, Shape, Fields
<1> HIDE DEF q
<1>6. Placed(q)
  <2>1. Flags(q)
    BY <1>4, <1>5, Zenon DEF Flags, Typed
  <2>2. Shape(q) /\ Values(q)
    BY <1>4, <1>5 DEF Typed, Shape, Values, W!RxStatus
  <2> QED
    BY <1>4, <1>5, <2>1, <2>2 DEF Placed, Settled, Typed, W!Alive
<1>7. /\ u \in Tls /\ u.copies = tls.copies /\ u.hs = tls.hs
  <2>1. NoRecords \in Records /\ <<>> \in Seq(Unit)
    BY DEF NoRecords, Records
  <2> QED
    BY <1>1, <2>1 DEF Tls
<1> HIDE DEF u
<1>8. Whole(q, u)
  BY <1>1, <1>2, <1>5, <1>6, <1>7 DEF Whole, Keeps, W!Alive
<1> QED
  BY <1>3, <1>5, <1>8 DEF Ordered, Unborn

(* The bytes are in order before the first connection. *)
THEOREM OrderedInitially == Init => Ordered
  BY InitialWhole

(* Each callback of libuv leaves them in order. *)
THEOREM OrderedInductive == Ordered /\ [Next]_vars => Ordered'
<1> SUFFICES ASSUME Ordered, [Next]_vars PROVE Ordered'
  OBVIOUS
<1>1. CASE connection_cb
  BY <1>1, ConnectsWhole
<1>2. CASE read_cb
  BY <1>2, ReadsWhole
<1>3. CASE PeerCloses
  BY <1>3, ClosingWhole
<1>4. CASE FlightWritten
  BY <1>4, FlownWhole
<1>5. CASE ResponseWritten
  BY <1>5, WrittenWhole
<1>6. CASE WriteFailed
  BY <1>6, FailedWhole
<1>7. CASE StatusWritten
  BY <1>7, StatedWhole
<1>8. CASE shutdown_cb
  BY <1>8, ShutDownWhole
<1>9. CASE close_cb
  BY <1>9, ClosedDownWhole
<1>10. CASE client_aux_check
  BY <1>10, ChecksWhole
<1>11. CASE UNCHANGED vars
  BY <1>11 DEF vars, Ordered
<1> QED
  BY <1>1, <1>2, <1>3, <1>4, <1>5, <1>6, <1>7, <1>8, <1>9, <1>10, <1>11 DEF Next

(* The request data of a TLS connection is in order in every reachable     *)
(* state (server.c:526-541, tls.c:528-615).                                *)
THEOREM AlwaysOrdered == Spec => []Ordered
  BY OrderedInitially, OrderedInductive, PTL DEF Spec

(* client_t and tls_client_t keep the shape of their declarations          *)
(* (server.h, tls.h:30-62), for any peer and any number of units.          *)
THEOREM TypeCorrect == Spec => []TypeOK
<1>1. Ordered => TypeOK
  <2> SUFFICES ASSUME Ordered PROVE TypeOK
    OBVIOUS
  <2>1. Typed(conn) /\ Shape(conn) /\ Values(conn) /\ Flags(conn) /\ tls \in Tls
    BY DEF Ordered, Whole, Placed, Typed
  <2> DEFINE k == [conn EXCEPT !.wq = <<>>]
  <2>2. <<>> \in Seq({"status", "resp"})
    OBVIOUS
  <2>3. k \in W!Conn
    <3>1. /\ k.wq = <<>> /\ DOMAIN k = Fields
          /\ k = [x \in Fields |-> k[x]]
      BY <2>1 DEF Shape, Fields
    <3>2. /\ k.state = conn.state /\ k.rx = conn.rx /\ k.reading = conn.reading
          /\ k.buf = conn.buf /\ k.parsed = conn.parsed
          /\ k.parser = conn.parser /\ k.keep = conn.keep
          /\ k.reqT = conn.reqT /\ k.lastT = conn.lastT
          /\ k.chunked = conn.chunked /\ k.pre = conn.pre
          /\ k.total = conn.total /\ k.written = conn.written
          /\ k.iter = conn.iter /\ k.uv = conn.uv /\ k.shut = conn.shut
          /\ k.recvd = conn.recvd /\ k.ppos = conn.ppos
          /\ k.asked = conn.asked /\ k.calls = conn.calls
          /\ k.begun = conn.begun /\ k.done = conn.done
          /\ k.status = conn.status
      BY <2>1 DEF Shape, Fields
    <3> HIDE DEF k
    <3>3. k = [state |-> k.state, rx |-> k.rx, reading |-> k.reading,
               buf |-> k.buf, parsed |-> k.parsed, parser |-> k.parser,
               keep |-> k.keep, reqT |-> k.reqT, lastT |-> k.lastT,
               chunked |-> k.chunked, pre |-> k.pre, total |-> k.total,
               written |-> k.written, iter |-> k.iter, uv |-> k.uv,
               shut |-> k.shut, wq |-> k.wq, recvd |-> k.recvd,
               ppos |-> k.ppos, asked |-> k.asked, calls |-> k.calls,
               begun |-> k.begun, done |-> k.done, status |-> k.status]
      BY <3>1 DEF Fields
    <3>4. /\ k.state \in W!ClientState /\ k.rx \in W!RxStatus
          /\ k.buf \in Seq(W!Token) /\ k.parsed \in Nat
          /\ k.parser \in {"idle", "mid", "error"}
          /\ k.uv \in {"none", "open", "closing", "closed"}
          /\ k.recvd \in Nat /\ k.ppos \in Nat /\ k.asked \in Nat
          /\ k.calls \in Nat /\ k.begun \in Nat /\ k.done \in Nat
          /\ k.status \in W!Status /\ k.chunked \in 0 .. 2
          /\ k.pre \in Nat /\ k.total \in Nat /\ k.written \in Nat
          /\ k.wq \in Seq({"status", "resp"})
      BY <2>1, <2>2, <3>1, <3>2 DEF Shape, Values
    <3>5. /\ k.reading \in BOOLEAN /\ k.keep \in BOOLEAN /\ k.reqT \in BOOLEAN
          /\ k.lastT \in BOOLEAN /\ k.iter \in BOOLEAN /\ k.shut \in BOOLEAN
      BY <2>1, <3>2 DEF Flags
    <3> QED
      BY <3>3, <3>4, <3>5 DEF W!Conn
  <2> QED
    BY <2>1, <2>3 DEF TypeOK, Shape, Writes
<1> QED
  BY <1>1, AlwaysOrdered, PTL

(* read_cb, which starts rx.buf over on every read, neither loses nor      *)
(* repeats a byte of the peer, also when SSL_read filled the buffer        *)
(* (server.c:526-541, tls.c:585-611).                                      *)
THEOREM NothingLostOrRepeated == Spec => []PlaintextInOrder
<1>1. Ordered => PlaintextInOrder
  BY UnreadMeans DEF Ordered, Whole, Placed, PlaintextInOrder, Alive
<1> QED
  BY <1>1, AlwaysOrdered, PTL

(* A live connection that waits for its peer has no record left in SSL     *)
(* that a read could have returned (tls.c:608), and alloc_cb has a buffer  *)
(* for the next read (server.c:747-766).  A read buffer has 32K at least   *)
(* (MIN_read_buffer_size, server.h:20) and a record at most 16K, so that   *)
(* it has room for two units.                                              *)
THEOREM NothingForgotten ==
  ASSUME MaxRead >= 2 PROVE Spec => []NothingLeftBehind
<1>1. Ordered => NothingLeftBehind
  <2> SUFFICES ASSUME Ordered, Alive PROVE
        /\ InFlight = {} /\ tls.hs = "TLS_HS_DONE" /\ Len(conn.buf) < MaxRead =>
             Readable(tls.ssl) = 0
        /\ conn.reading => ~Refuses(conn, tls)
    BY DEF NothingLeftBehind
  <2>1. Placed(conn) /\ Tight(conn, tls) /\ W!Alive(conn) /\ tls \in Tls
    BY DEF Ordered, Whole, Alive
  <2>2. conn.reading => conn.rx # "RXS_FREEZED"
    BY <2>1 DEF Placed, Settled
  <2>3. ~(Len(tls.ssl) > MaxRead \div 2)
    <3>1. Len(tls.ssl) \in Nat /\ Len(tls.ssl) <= 1 /\ MaxRead \in Nat
      <4>1. tls.ssl \in Seq(Unit)
        BY <2>1 DEF Tls
      <4> QED
        BY <2>1, <4>1, BoundsAssumption DEF Tight
    <3> HIDE DEF Tight
    <3>2. MaxRead \div 2 \in Nat /\ MaxRead \div 2 >= 1
      BY <3>1
    <3> QED
      BY <3>1, <3>2
  <2> QED
    BY <2>1, <2>2, <2>3 DEF Tight, Refuses
<1> QED
  BY <1>1, AlwaysOrdered, PTL

=============================================================================
