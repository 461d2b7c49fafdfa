--------------------------- MODULE WsgiResponseProofs ---------------------------
(***************************************************************************)
(* TLAPS proofs about WsgiResponse, for any bodies and any size of the     *)
(* array of preloaded items.                                               *)
(*                                                                         *)
(* What a response holds and what was written of it are sums and sequences *)
(* over the items of a body, so the proofs need induction over those       *)
(* (RecursiveFunctions).                                                   *)
(***************************************************************************)
EXTENDS WsgiResponse, RecursiveFunctions

-----------------------------------------------------------------------------
(* Bodies.                                                                 *)

(* What an application may return, and what there is before it has.        *)
AnyBody == Sources \cup {NoSource}

LEMMA BodyType ==
  ASSUME NEW s \in AnyBody
  PROVE  /\ s \in Source /\ s.items \in Seq(Int) /\ Len(s.items) \in Nat
         /\ \A i \in 1 .. Len(s.items) : s.items[i] \in Item
         /\ s.kind = "bytes" => Len(s.items) = 1 /\ s.items[1] >= 0
<1>1. NoSource \in Source
  BY DEF NoSource, Source, Absent
<1>2. s \in Source /\ (s.kind = "bytes" => Len(s.items) = 1 /\ s.items[1] >= 0)
  <2>1. CASE s \in Sources
    BY <2>1, SourcesAssumption
  <2>2. CASE s = NoSource
    BY <1>1, <2>2 DEF NoSource
  <2> QED
    BY <2>1, <2>2 DEF AnyBody
<1>3. s.items \in Seq(Item)
  BY <1>2 DEF Source
<1>4. Item \subseteq Int
  BY SizesAssumption DEF Item, NotBytes, Raises
<1>5. s.items \in Seq(Int) /\ Len(s.items) \in Nat
      /\ \A i \in 1 .. Len(s.items) : s.items[i] \in Item
  <2> DEFINE t == s.items
  <2>1. t \in Seq(Item)
    BY <1>3
  <2> HIDE DEF t
  <2>2. /\ Len(t) \in Nat /\ DOMAIN t = 1 .. Len(t) /\ t = [i \in DOMAIN t |-> t[i]]
        /\ \A i \in 1 .. Len(t) : t[i] \in Item
    BY <2>1
  <2>3. \A i \in 1 .. Len(t) : t[i] \in Int
    BY <1>4, <2>2
  <2>4. t \in Seq(Int)
    BY <2>2, <2>3
  <2> QED
    BY <2>2, <2>4 DEF t
<1> QED
  BY <1>2, <1>5

(* Items of s, by their numbers. *)
Given(s) == Seq(1 .. Len(s.items))

(* The sums that Bytes is defined by: they exist, and are the only ones.   *)
Sums(f, s, d) ==
  f[0] = 0 /\ \A n \in 1 .. Len(d) : f[n] = f[n - 1] + s.items[d[n]]

LEMMA SumsExist ==
  ASSUME NEW s, s.items \in Seq(Int), NEW d \in Given(s)
  PROVE  \E f \in [0 .. Len(d) -> Int] :
           Sums(f, s, d) /\ Bytes(s, d) = f[Len(d)]
<1> DEFINE m == Len(d)
           step == [n \in 1 .. m |-> [v \in Int |-> v + s.items[d[n]]]]
<1>1. m \in Nat /\ \A n \in 1 .. m : d[n] \in 1 .. Len(s.items)
  BY DEF Given
<1>2. \A n \in 1 .. m : s.items[d[n]] \in Int
  BY <1>1
<1>3. step \in [1 .. m -> [Int -> Int]]
  BY <1>2
<1>11. \A n \in 1 .. m : \A v \in Int : step[n][v] = v + s.items[d[n]]
  OBVIOUS
<1> HIDE DEF m, step
<1>4. PICK f \in [0 .. m -> Int] :
        f[0] = 0 /\ \A n \in 1 .. m : f[n] = step[n][f[n - 1]]
  <2>1. Recursive(m, Int, 0, step)
    BY <1>1, <1>3 DEF Recursive
  <2> QED
    BY <2>1, Recursion
<1>5. \A n \in 1 .. m : f[n] = f[n - 1] + s.items[d[n]]
  <2> SUFFICES ASSUME NEW n \in 1 .. m PROVE f[n] = f[n - 1] + s.items[d[n]]
    OBVIOUS
  <2>1. n - 1 \in 0 .. m
    BY <1>1
  <2>2. f[n - 1] \in Int
    BY <2>1
  <2> QED
    BY <1>11, <1>4, <2>2
<1>6. f = [n \in 0 .. Len(d) |->
             IF n = 0 THEN 0 ELSE f[n - 1] + s.items[d[n]]]
  <2>1. \A n \in 0 .. m :
          f[n] = IF n = 0 THEN 0 ELSE f[n - 1] + s.items[d[n]]
    BY <1>1, <1>4, <1>5
  <2> QED
    BY <2>1 DEF m
<1>7. PICK g : /\ g = [n \in 0 .. Len(d) |->
                        IF n = 0 THEN 0 ELSE g[n - 1] + s.items[d[n]]]
               /\ Bytes(s, d) = g[Len(d)]
  BY <1>6, Zenon DEF Bytes
<1>8. g[0] = 0 /\ \A n \in 1 .. m : g[n] = g[n - 1] + s.items[d[n]]
  <2>1. g = [n \in 0 .. m |-> IF n = 0 THEN 0 ELSE g[n - 1] + s.items[d[n]]]
    BY <1>7 DEF m
  <2>2. \A n \in 0 .. m : g[n] = IF n = 0 THEN 0 ELSE g[n - 1] + s.items[d[n]]
    BY <2>1
  <2> QED
    BY <1>1, <2>2
<1>9. \A n \in 0 .. m : g[n] = f[n]
  <2> DEFINE S == {n \in Nat : n <= m => g[n] = f[n]}
  <2>1. 0 \in S
    BY <1>4, <1>8
  <2>2. ASSUME NEW n \in Nat, n \in S PROVE n + 1 \in S
    BY <1>1, <1>5, <1>8, <2>2
  <2> HIDE DEF S
  <2>3. \A n \in Nat : n \in S
    BY <2>1, <2>2, Induct
  <2> QED
    BY <1>1, <2>3 DEF S
<1>10. f[m] = g[m]
  BY <1>1, <1>9
<1> QED
  BY <1>4, <1>5, <1>7, <1>10 DEF Sums, m

(* Sums are determined by their first value and their steps. *)
LEMMA BytesIs ==
  ASSUME NEW s, s.items \in Seq(Int), NEW d \in Given(s), NEW f, Sums(f, s, d)
  PROVE  Bytes(s, d) = f[Len(d)] /\ Bytes(s, d) \in Int
<1> DEFINE m == Len(d)
<1>1. m \in Nat
  BY DEF Given
<1>2. PICK g \in [0 .. m -> Int] : Sums(g, s, d) /\ Bytes(s, d) = g[m]
  BY SumsExist
<1>3. f[0] = 0 /\ \A n \in 1 .. m : f[n] = f[n - 1] + s.items[d[n]]
  BY DEF Sums
<1>8. g[0] = 0 /\ \A n \in 1 .. m : g[n] = g[n - 1] + s.items[d[n]]
  BY <1>2 DEF Sums
<1> HIDE DEF m
<1> DEFINE S == {n \in Nat : n <= m => g[n] = f[n]}
<1>4. 0 \in S
  BY <1>3, <1>8
<1>5. ASSUME NEW n \in Nat, n \in S PROVE n + 1 \in S
  <2>1. n + 1 <= m => n + 1 \in 1 .. m /\ (n + 1) - 1 = n
    BY <1>1
  <2> QED
    BY <1>1, <1>3, <1>5, <1>8, <2>1
<1> HIDE DEF S
<1>6. m \in S
  BY <1>1, <1>4, <1>5, Induct
<1>7. g[m] = f[m] /\ g[m] \in Int
  BY <1>1, <1>2, <1>6 DEF S
<1> QED
  BY <1>2, <1>7 DEF m

LEMMA BytesOfNone ==
  ASSUME NEW s, s.items \in Seq(Int) PROVE Bytes(s, <<>>) = 0
<1> DEFINE f == [n \in 0 .. 0 |-> 0]
<1>1. <<>> \in Given(s) /\ Len(<<>>) = 0
  BY DEF Given
<1>2. f[0] = 0
  OBVIOUS
<1>3. Sums(f, s, <<>>)
  BY <1>1, <1>2 DEF Sums
<1> HIDE DEF f
<1> QED
  BY <1>1, <1>2, <1>3, BytesIs

(* The bytes of two sequences of items. *)
LEMMA BytesOfConcat ==
  ASSUME NEW s, s.items \in Seq(Int), NEW d \in Given(s), NEW e \in Given(s)
  PROVE  /\ Bytes(s, d \o e) = Bytes(s, d) + Bytes(s, e)
         /\ d \o e \in Given(s) /\ Bytes(s, d) \in Int /\ Bytes(s, e) \in Int
<1> DEFINE m == Len(d)
           k == Len(e)
           c == d \o e
<1>1. /\ m \in Nat /\ k \in Nat /\ c \in Given(s) /\ Len(c) = m + k
      /\ \A n \in 1 .. m : c[n] = d[n]
      /\ \A n \in 1 .. k : c[m + n] = e[n]
  BY DEF Given
<1>2. PICK f \in [0 .. m -> Int] : Sums(f, s, d) /\ Bytes(s, d) = f[m]
  BY SumsExist
<1>3. PICK g \in [0 .. k -> Int] : Sums(g, s, e) /\ Bytes(s, e) = g[k]
  BY SumsExist
<1>4. f[m] \in Int /\ g[k] \in Int
  BY <1>1, <1>2, <1>3
<1> DEFINE h == [n \in 0 .. m + k |-> IF n <= m THEN f[n] ELSE f[m] + g[n - m]]
<1>5. \A n \in 1 .. k : e[n] \in 1 .. Len(s.items) /\ s.items[e[n]] \in Int
  BY DEF Given
<1> HIDE DEF m, k, c
<1>6. h[0] = 0
  BY <1>1, <1>2 DEF Sums
<1>7. ASSUME NEW n \in 1 .. m + k PROVE h[n] = h[n - 1] + s.items[c[n]]
  <2>1. CASE n <= m
    <3>1. n \in 1 .. m /\ n - 1 \in 0 .. m
      BY <1>1, <2>1
    <3>2. h[n] = f[n] /\ h[n - 1] = f[n - 1]
      BY <1>1, <3>1
    <3>3. f[n] = f[n - 1] + s.items[d[n]]
      BY <1>2, <3>1 DEF Sums, m
    <3>4. c[n] = d[n]
      BY <1>1, <3>1
    <3> QED
      BY <3>2, <3>3, <3>4
  <2>2. CASE n = m + 1
    <3>1. h[n] = f[m] + g[1] /\ h[n - 1] = f[m]
      BY <1>1, <1>7, <2>2
    <3>2. 1 \in 1 .. k
      BY <1>1, <2>2
    <3>3. g[0] = 0 /\ g[1] = g[1 - 1] + s.items[e[1]]
      BY <1>3, <3>2 DEF Sums, k
    <3>4. c[n] = e[1] /\ s.items[e[1]] \in Int
      BY <1>1, <1>5, <2>2, <3>2
    <3> QED
      BY <1>4, <3>1, <3>3, <3>4
  <2>3. CASE n > m + 1
    <3> DEFINE j == n - m
    <3>1. j \in 2 .. k /\ n = m + j
      BY <1>1, <2>3
    <3> HIDE DEF j
    <3>2. h[n] = f[m] + g[j] /\ h[n - 1] = f[m] + g[j - 1]
      BY <1>1, <1>7, <2>3, <3>1
    <3>3. j \in 1 .. k /\ c[m + j] = e[j]
      BY <1>1, <3>1
    <3>5. g[j] = g[j - 1] + s.items[e[j]]
      BY <1>3, <3>3 DEF Sums, k
    <3>4. s.items[e[j]] \in Int
      BY <1>5, <3>3
    <3>6. j - 1 \in 0 .. k
      BY <1>1, <3>1
    <3>7. g[j - 1] \in Int
      BY <1>3, <3>6
    <3>8. c[n] = e[j]
      BY <3>1, <3>3
    <3>9. f[m] + (g[j - 1] + s.items[e[j]]) = (f[m] + g[j - 1]) + s.items[e[j]]
      BY <1>4, <3>4, <3>7
    <3> QED
      BY <3>2, <3>5, <3>8, <3>9
  <2> QED
    BY <1>1, <2>1, <2>2, <2>3
<1>8. h[m + k] = f[m] + g[k]
  <2>1. g[0] = 0
    BY <1>3 DEF Sums
  <2>2. CASE k = 0
    BY <1>1, <1>4, <2>1, <2>2
  <2>3. CASE k > 0
    <3>1. m + k \in 0 .. m + k /\ ~(m + k <= m) /\ (m + k) - m = k
      BY <1>1, <2>3
    <3> QED
      BY <3>1
  <2> QED
    BY <1>1, <2>2, <2>3
<1> HIDE DEF h
<1>9. Sums(h, s, c)
  BY <1>1, <1>6, <1>7 DEF Sums
<1>10. Bytes(s, c) = h[m + k]
  BY <1>1, <1>9, BytesIs
<1> QED
  BY <1>1, <1>2, <1>3, <1>4, <1>8, <1>10 DEF c

(* The bytes of one item, and of one more. *)
LEMMA BytesOfOne ==
  ASSUME NEW s, s.items \in Seq(Int), NEW i \in 1 .. Len(s.items)
  PROVE  <<i>> \in Given(s) /\ Bytes(s, <<i>>) = s.items[i]
<1> DEFINE f == [n \in 0 .. 1 |-> IF n = 0 THEN 0 ELSE s.items[i]]
<1>1. /\ <<i>> \in Given(s) /\ Len(<<i>>) = 1 /\ <<i>>[1] = i
      /\ s.items[i] \in Int
  BY DEF Given
<1>2. f[0] = 0 /\ f[1] = s.items[i]
  OBVIOUS
<1>3. Sums(f, s, <<i>>)
  <2>1. \A n \in 1 .. 1 : n = 1
    OBVIOUS
  <2>2. f[1] = f[1 - 1] + s.items[<<i>>[1]]
    BY <1>1, <1>2
  <2> HIDE DEF f
  <2> QED
    BY <1>1, <1>2, <2>1, <2>2 DEF Sums
<1> HIDE DEF f
<1> QED
  BY <1>1, <1>2, <1>3, BytesIs

LEMMA BytesOfAppend ==
  ASSUME NEW s, s.items \in Seq(Int), NEW d \in Given(s),
         NEW i \in 1 .. Len(s.items)
  PROVE  /\ Append(d, i) \in Given(s)
         /\ Bytes(s, Append(d, i)) = Bytes(s, d) + s.items[i]
         /\ Bytes(s, d) \in Int
<1>1. Append(d, i) = d \o <<i>>
  <2>1. d \in Seq(1 .. Len(s.items)) /\ i \in 1 .. Len(s.items)
    BY DEF Given
  <2> DEFINE T == 1 .. Len(s.items)
  <2> HIDE DEF T
  <2>2. \A x \in Seq(T), y \in T : Append(x, y) = x \o <<y>>
    OBVIOUS
  <2> QED
    BY <2>1, <2>2 DEF T
<1> QED
  BY <1>1, BytesOfOne, BytesOfConcat

-----------------------------------------------------------------------------
(* The items that are not empty.                                           *)

(* The recursion that NonEmptyUpTo is defined by. *)
LEMMA NonEmptyUpToIs ==
  ASSUME NEW s, s.items \in Seq(Int)
  PROVE  /\ NonEmptyUpTo(s)[0] = <<>>
         /\ \A n \in 1 .. Len(s.items) :
              NonEmptyUpTo(s)[n] =
                IF s.items[n] = 0 THEN NonEmptyUpTo(s)[n - 1]
                                  ELSE Append(NonEmptyUpTo(s)[n - 1], n)
         /\ \A n \in 0 .. Len(s.items) : NonEmptyUpTo(s)[n] \in Given(s)
<1> DEFINE m == Len(s.items)
           D == Given(s)
           step == [n \in 1 .. m |->
                      [v \in D |-> IF s.items[n] = 0 THEN v ELSE Append(v, n)]]
           U == NonEmptyUpTo(s)
<1>1. m \in Nat /\ <<>> \in D
  BY DEF Given
<1>2. \A n \in 1 .. m : \A v \in D : Append(v, n) \in D
  BY DEF Given
<1>3. step \in [1 .. m -> [D -> D]]
  BY <1>2
<1>4. \A n \in 1 .. m : \A v \in D :
        step[n][v] = IF s.items[n] = 0 THEN v ELSE Append(v, n)
  OBVIOUS
<1> HIDE DEF m, D, step
<1>5. PICK f \in [0 .. m -> D] :
        f[0] = <<>> /\ \A n \in 1 .. m : f[n] = step[n][f[n - 1]]
  <2>1. Recursive(m, D, <<>>, step)
    BY <1>1, <1>3 DEF Recursive
  <2> QED
    BY <2>1, Recursion
<1>6. \A n \in 1 .. m :
        f[n] = IF s.items[n] = 0 THEN f[n - 1] ELSE Append(f[n - 1], n)
  <2> SUFFICES ASSUME NEW n \in 1 .. m
               PROVE  f[n] = IF s.items[n] = 0 THEN f[n - 1]
                                               ELSE Append(f[n - 1], n)
    OBVIOUS
  <2>1. n - 1 \in 0 .. m
    BY <1>1
  <2>2. f[n - 1] \in D
    BY <2>1
  <2> QED
    BY <1>4, <1>5, <2>2
<1>7. f = [n \in 0 .. Len(s.items) |->
             IF n = 0 THEN <<>>
             ELSE IF s.items[n] = 0 THEN f[n - 1] ELSE Append(f[n - 1], n)]
  <2>1. \A n \in 0 .. m :
          f[n] = IF n = 0 THEN <<>>
                 ELSE IF s.items[n] = 0 THEN f[n - 1] ELSE Append(f[n - 1], n)
    <3> SUFFICES ASSUME NEW n \in 0 .. m
                 PROVE  f[n] = IF n = 0 THEN <<>>
                               ELSE IF s.items[n] = 0 THEN f[n - 1]
                                    ELSE Append(f[n - 1], n)
      OBVIOUS
    <3>1. CASE n = 0
      BY <1>5, <3>1
    <3>2. CASE n # 0
      <4>1. n \in 1 .. m
        BY <1>1, <3>2
      <4> QED
        BY <1>6, <3>2, <4>1, Zenon
    <3> QED
      BY <3>1, <3>2
  <2> QED
    BY <2>1 DEF m
<1>8. U = [n \in 0 .. Len(s.items) |->
             IF n = 0 THEN <<>>
             ELSE IF s.items[n] = 0 THEN U[n - 1] ELSE Append(U[n - 1], n)]
  BY <1>7, Zenon DEF NonEmptyUpTo
<1> HIDE DEF U
<1>9. U[0] = <<>> /\ \A n \in 1 .. m :
        U[n] = IF s.items[n] = 0 THEN U[n - 1] ELSE Append(U[n - 1], n)
  <2>1. \A n \in 0 .. m :
          U[n] = IF n = 0 THEN <<>>
                 ELSE IF s.items[n] = 0 THEN U[n - 1] ELSE Append(U[n - 1], n)
    BY <1>8 DEF m
  <2> QED
    BY <1>1, <2>1
<1>10. \A n \in 0 .. m : U[n] \in D
  <2> DEFINE S == {n \in Nat : n <= m => U[n] \in D}
  <2>1. 0 \in S
    BY <1>1, <1>9
  <2>2. ASSUME NEW n \in Nat, n \in S PROVE n + 1 \in S
    <3> SUFFICES ASSUME n + 1 <= m PROVE U[n + 1] \in D
      OBVIOUS
    <3>1. n + 1 \in 1 .. m /\ (n + 1) - 1 = n /\ U[n] \in D
      BY <1>1, <2>2
    <3>2. U[n + 1] = U[n] \/ U[n + 1] = Append(U[n], n + 1)
      BY <1>9, <3>1, Zenon
    <3> QED
      BY <1>2, <3>1, <3>2
  <2> HIDE DEF S
  <2>3. \A n \in Nat : n \in S
    BY <2>1, <2>2, Induct
  <2> QED
    BY <1>1, <2>3 DEF S
<1> QED
  BY <1>9, <1>10 DEF U, m, D

(* Empty items are left out. *)
LEMMA Skips ==
  ASSUME NEW s, s.items \in Seq(Int),
         NEW a \in 0 .. Len(s.items), NEW b \in a .. Len(s.items),
         \A i \in a + 1 .. b : s.items[i] = 0
  PROVE  NonEmptyUpTo(s)[b] = NonEmptyUpTo(s)[a]
<1> DEFINE U == NonEmptyUpTo(s)
           m == Len(s.items)
           S == {n \in Nat : a <= n /\ n <= b => U[n] = U[a]}
<1>1. m \in Nat /\ a \in Nat /\ b \in Nat /\ a <= b /\ b <= m
  OBVIOUS
<1>2. \A n \in 1 .. m : U[n] = IF s.items[n] = 0 THEN U[n - 1]
                                                 ELSE Append(U[n - 1], n)
  BY NonEmptyUpToIs
<1> HIDE DEF U, m
<1>3. 0 \in S
  BY <1>1
<1>4. ASSUME NEW n \in Nat, n \in S PROVE n + 1 \in S
  <2>1. CASE a <= n /\ n + 1 <= b
    <3>1. n + 1 \in 1 .. m /\ (n + 1) - 1 = n /\ n + 1 \in a + 1 .. b
      BY <1>1, <2>1
    <3>2. U[n + 1] = U[n]
      BY <1>2, <3>1
    <3> QED
      BY <1>4, <2>1, <3>2
  <2>2. CASE ~(a <= n /\ n + 1 <= b)
    BY <1>1, <2>2
  <2> QED
    BY <2>1, <2>2
<1> HIDE DEF S
<1>5. b \in S
  BY <1>1, <1>3, <1>4, Induct
<1> QED
  BY <1>1, <1>5 DEF S, U

(* The items c are the items d and more. *)
Continues(s, d, c) == \E e \in Given(s) : c = d \o e

LEMMA ContinuesItself ==
  ASSUME NEW s, NEW d \in Given(s) PROVE Continues(s, d, d)
<1>1. <<>> \in Given(s) /\ d = d \o <<>>
  BY ConcatEmptySeq DEF Given
<1> QED
  BY <1>1 DEF Continues

LEMMA ContinuesAppended ==
  ASSUME NEW s, NEW d \in Given(s), NEW c \in Given(s), Continues(s, d, c),
         NEW i \in 1 .. Len(s.items)
  PROVE  Continues(s, d, Append(c, i))
<1>1. PICK e \in Given(s) : c = d \o e
  BY DEF Continues
<1> DEFINE T == 1 .. Len(s.items)
<1>2. d \in Seq(T) /\ c \in Seq(T) /\ e \in Seq(T) /\ i \in T
  BY DEF Given
<1> HIDE DEF T
<1>3. /\ <<i>> \in Seq(T) /\ Append(c, i) = c \o <<i>>
      /\ (d \o e) \o <<i>> = d \o (e \o <<i>>) /\ e \o <<i>> \in Seq(T)
  BY <1>2, ConcatAssociative, AppendIsConcat
<1> QED
  BY <1>1, <1>3 DEF T, Given, Continues

(* Up to a later item there are the same ones and more. *)
LEMMA Extends ==
  ASSUME NEW s, s.items \in Seq(Int),
         NEW a \in 0 .. Len(s.items), NEW b \in a .. Len(s.items)
  PROVE  Continues(s, NonEmptyUpTo(s)[a], NonEmptyUpTo(s)[b])
<1> DEFINE U == NonEmptyUpTo(s)
           m == Len(s.items)
           S == {n \in Nat : a <= n /\ n <= b => Continues(s, U[a], U[n])}
<1>1. m \in Nat /\ a \in Nat /\ b \in Nat /\ a <= b /\ b <= m
  OBVIOUS
<1>2. /\ \A n \in 1 .. m : U[n] = IF s.items[n] = 0 THEN U[n - 1]
                                                    ELSE Append(U[n - 1], n)
      /\ \A n \in 0 .. m : U[n] \in Given(s)
  BY NonEmptyUpToIs
<1> HIDE DEF U
<1>4. Continues(s, U[a], U[a])
  BY <1>1, <1>2, ContinuesItself
<1>5. ASSUME NEW n \in 0 .. m - 1, Continues(s, U[a], U[n])
      PROVE  Continues(s, U[a], U[n + 1])
  <2>1. n + 1 \in 1 .. m /\ (n + 1) - 1 = n /\ a \in 0 .. m /\ n \in 0 .. m
    BY <1>1
  <2>2. U[n + 1] = U[n] \/ U[n + 1] = Append(U[n], n + 1)
    BY <1>2, <2>1, Zenon
  <2>3. U[n] \in Given(s) /\ U[a] \in Given(s)
    BY <1>2, <2>1
  <2>4. Continues(s, U[a], Append(U[n], n + 1))
    BY <1>5, <2>1, <2>3, ContinuesAppended
  <2> QED
    BY <1>5, <2>2, <2>4
<1> HIDE DEF m
<1>7. 0 \in S
  <2>1. a <= 0 => a = 0
    BY <1>1
  <2> QED
    BY <1>4, <2>1
<1>8. ASSUME NEW n \in Nat, n \in S PROVE n + 1 \in S
  <2> SUFFICES ASSUME a <= n + 1, n + 1 <= b
               PROVE  Continues(s, U[a], U[n + 1])
    OBVIOUS
  <2>1. a = n + 1 \/ (a <= n /\ n <= b /\ n \in 0 .. m - 1)
    BY <1>1
  <2> QED
    BY <1>4, <1>5, <1>8, <2>1
<1> HIDE DEF S
<1>9. b \in S
  BY <1>1, <1>7, <1>8, Induct
<1>10. Continues(s, U[a], U[b])
  BY <1>1, <1>9 DEF S
<1> QED
  BY <1>10 DEF U

(* The first n items of a body are bytes. *)
AllBytes(s, n) == \A i \in 1 .. n : s.items[i] >= 0

(* Items that are bytes make a body longer, or are empty. *)
LEMMA Grows ==
  ASSUME NEW s, s.items \in Seq(Int),
         NEW a \in 0 .. Len(s.items), NEW b \in a .. Len(s.items), AllBytes(s, b)
  PROVE  /\ Bytes(s, NonEmptyUpTo(s)[a]) \in Int
         /\ Bytes(s, NonEmptyUpTo(s)[b]) \in Int
         /\ Bytes(s, NonEmptyUpTo(s)[a]) <= Bytes(s, NonEmptyUpTo(s)[b])
         /\ Bytes(s, NonEmptyUpTo(s)[a]) = Bytes(s, NonEmptyUpTo(s)[b]) =>
              NonEmptyUpTo(s)[a] = NonEmptyUpTo(s)[b]
<1> DEFINE U == NonEmptyUpTo(s)
           m == Len(s.items)
           B(n) == Bytes(s, U[n])
           Grown(n) == B(a) <= B(n) /\ (B(a) = B(n) => U[a] = U[n])
           S == {n \in Nat : a <= n /\ n <= b => Grown(n)}
<1>1. m \in Nat /\ a \in Nat /\ b \in Nat /\ a <= b /\ b <= m
  OBVIOUS
<1>2. /\ \A n \in 1 .. m : U[n] = IF s.items[n] = 0 THEN U[n - 1]
                                                    ELSE Append(U[n - 1], n)
      /\ \A n \in 0 .. m : U[n] \in Given(s)
  BY NonEmptyUpToIs
<1> HIDE DEF U
<1>3. ASSUME NEW n \in 0 .. m PROVE B(n) \in Int
  <2>1. U[n] \in Given(s)
    BY <1>2
  <2>2. \E f \in [0 .. Len(U[n]) -> Int] : Bytes(s, U[n]) = f[Len(U[n])]
    BY <2>1, SumsExist
  <2>3. Len(U[n]) \in 0 .. Len(U[n])
    BY <2>1 DEF Given
  <2> QED
    BY <2>2, <2>3
<1>4. Grown(a)
  BY <1>1, <1>3
<1>5. ASSUME NEW n \in 0 .. b - 1, a <= n, Grown(n) PROVE Grown(n + 1)
  <2>1. /\ n + 1 \in 1 .. m /\ (n + 1) - 1 = n /\ n + 1 \in 1 .. b
        /\ n \in 0 .. m /\ a \in 0 .. m
    BY <1>1
  <2>2. s.items[n + 1] \in Int /\ s.items[n + 1] >= 0
    BY <2>1 DEF AllBytes
  <2>3. CASE s.items[n + 1] = 0
    BY <1>2, <1>5, <2>1, <2>3
  <2>4. CASE s.items[n + 1] # 0
    <3>1. U[n + 1] = Append(U[n], n + 1) /\ U[n] \in Given(s)
      BY <1>2, <2>1, <2>4
    <3>2. B(n + 1) = B(n) + s.items[n + 1]
      BY <2>1, <3>1, BytesOfAppend
    <3>3. B(n) \in Int /\ B(a) \in Int /\ B(a) <= B(n)
      BY <1>3, <1>5, <2>1
    <3> HIDE DEF B
    <3>4. B(a) < B(n + 1)
      BY <2>2, <2>4, <3>2, <3>3
    <3> QED
      BY <1>3, <2>1, <3>3, <3>4
  <2> QED
    BY <2>3, <2>4
<1>6. U[a] = NonEmptyUpTo(s)[a] /\ U[b] = NonEmptyUpTo(s)[b]
  BY DEF U
<1> HIDE DEF m, Grown
<1>7. 0 \in S
  <2>1. a <= 0 => a = 0
    BY <1>1
  <2> QED
    BY <1>4, <2>1
<1>8. ASSUME NEW n \in Nat, n \in S PROVE n + 1 \in S
  <2> SUFFICES ASSUME a <= n + 1, n + 1 <= b PROVE Grown(n + 1)
    OBVIOUS
  <2>1. a = n + 1 \/ (a <= n /\ n <= b /\ n \in 0 .. b - 1)
    BY <1>1
  <2> QED
    BY <1>4, <1>5, <1>8, <2>1
<1> HIDE DEF S
<1>9. b \in S
  BY <1>1, <1>7, <1>8, Induct
<1>10. Grown(b)
  BY <1>1, <1>9 DEF S
<1>11. B(a) \in Int /\ B(b) \in Int
  BY <1>1, <1>3
<1> QED
  BY <1>6, <1>10, <1>11 DEF Grown

LEMMA ContinuesIsPrefix ==
  ASSUME NEW s, NEW d \in Given(s), NEW c \in Given(s), Continues(s, d, c)
  PROVE  IsPrefix(d, c)
<1>1. PICK e \in Given(s) : c = d \o e
  BY DEF Continues
<1> DEFINE T == 1 .. Len(s.items)
<1>2. d \in Seq(T) /\ e \in Seq(T)
  BY DEF Given
<1> HIDE DEF T
<1> QED
  BY <1>1, <1>2 DEF IsPrefix

-----------------------------------------------------------------------------
(* The iterator.                                                           *)

(* What PyIter_Next makes of r: the end, an error, or an item. *)
Ends(s, r, q) ==
  /\ q = [r EXCEPT !.pos = Len(s.items), !.item = 0]
  /\ NonEmpty(s) = NonEmptyUpTo(s)[r.pos]
  /\ AllBytes(s, r.pos) => AllBytes(s, Len(s.items))

Fails(s, r, q) ==
  \E i \in 1 .. Len(s.items) :
    /\ s.items[i] < 0
    /\ q = [r EXCEPT !.pos = i, !.item = 0, !.error = TRUE]

Gives(s, r, q) ==
  \E i \in 1 .. Len(s.items) :
    /\ s.items[i] > 0 /\ q = [r EXCEPT !.pos = i, !.item = i]
    /\ NonEmptyUpTo(s)[i] = Append(NonEmptyUpTo(s)[r.pos], i)
    /\ AllBytes(s, r.pos) => AllBytes(s, i)

LEMMA NextItem ==
  ASSUME NEW s, s.items \in Seq(Int), NEW r, r.pos \in 0 .. Len(s.items)
  PROVE  \/ Ends(s, r, PyIter_Next(s, r)) \/ Fails(s, r, PyIter_Next(s, r))
         \/ Gives(s, r, PyIter_Next(s, r))
<1> DEFINE m == Len(s.items)
           rest == {i \in r.pos + 1 .. m : s.items[i] # 0}
           q == PyIter_Next(s, r)
           U == NonEmptyUpTo(s)
<1> SUFFICES Ends(s, r, q) \/ Fails(s, r, q) \/ Gives(s, r, q)
  OBVIOUS
<1>1. /\ m \in Nat /\ r.pos \in 0 .. m
      /\ \A i \in 1 .. m : s.items[i] \in Int
  OBVIOUS
<1>2. \A n \in 1 .. m : U[n] = IF s.items[n] = 0 THEN U[n - 1]
                                                 ELSE Append(U[n - 1], n)
  BY NonEmptyUpToIs
<1>3. ASSUME NEW b \in r.pos .. m, \A i \in r.pos + 1 .. b : s.items[i] = 0
      PROVE  U[b] = U[r.pos]
  BY <1>3, Skips
<1>4. CASE rest = {}
  <2>1. \A i \in r.pos + 1 .. m : s.items[i] = 0
    BY <1>4
  <2>3. q = [r EXCEPT !.pos = m, !.item = 0]
    BY <1>4, Zenon DEF PyIter_Next
  <2> HIDE DEF U, q, rest
  <2>4. AllBytes(s, r.pos) => AllBytes(s, m)
    <3> SUFFICES ASSUME AllBytes(s, r.pos), NEW i \in 1 .. m
                 PROVE  s.items[i] >= 0
      BY DEF AllBytes
    <3>1. i \in 1 .. r.pos \/ i \in r.pos + 1 .. m
      BY <1>1
    <3> QED
      BY <1>1, <2>1, <3>1 DEF AllBytes
  <2>2. U[m] = U[r.pos]
    BY <1>1, <1>3, <2>1
  <2> QED
    BY <2>2, <2>3, <2>4 DEF Ends, NonEmpty, U
<1>5. CASE rest # {}
  <2> DEFINE i == Min(rest)
  <2>1. i \in rest /\ \A j \in rest : i <= j
    <3>1. rest \in SUBSET Nat
      BY <1>1
    <3>2. \E j \in rest : \A k \in rest : j <= k
      BY <1>5, <3>1, Least
    <3> HIDE DEF rest
    <3> QED
      BY <3>2 DEF Min
  <2>6. /\ s.items[i] < 0 /\ ~(s.items[i] > 0) =>
             q = [r EXCEPT !.pos = i, !.item = 0, !.error = TRUE]
        /\ s.items[i] > 0 /\ ~(s.items[i] < 0) =>
             q = [r EXCEPT !.pos = i, !.item = i]
    BY <1>5, Zenon DEF PyIter_Next
  <2> HIDE DEF i, q
  <2>7. i \in 1 .. m /\ i \in r.pos + 1 .. m /\ s.items[i] # 0
    BY <1>1, <2>1
  <2>8. \A j \in r.pos + 1 .. i - 1 : s.items[j] = 0
    <3> SUFFICES ASSUME NEW j \in r.pos + 1 .. i - 1, s.items[j] # 0
                 PROVE  FALSE
      OBVIOUS
    <3>1. j \in rest
      BY <1>1, <2>7
    <3> HIDE DEF rest
    <3> QED
      BY <1>1, <2>1, <2>7, <3>1
  <2> HIDE DEF U, rest, m
  <2>4. s.items[i] \in Int
    BY <1>1, <2>7
  <2>2. CASE s.items[i] < 0
    <3>1. q = [r EXCEPT !.pos = i, !.item = 0, !.error = TRUE]
      BY <2>2, <2>4, <2>6
    <3> QED
      BY <2>2, <2>7, <3>1 DEF Fails, m
  <2>3. CASE s.items[i] > 0
    <3>1. q = [r EXCEPT !.pos = i, !.item = i]
      BY <2>3, <2>4, <2>6
    <3>2. i - 1 \in r.pos .. m
      BY <1>1, <2>7
    <3>4. U[i - 1] = U[r.pos]
      BY <1>3, <2>8, <3>2
    <3>5. U[i] = Append(U[r.pos], i)
      BY <1>2, <2>7, <3>4
    <3>6. AllBytes(s, r.pos) => AllBytes(s, i)
      <4> SUFFICES ASSUME AllBytes(s, r.pos), NEW j \in 1 .. i
                   PROVE  s.items[j] >= 0
        BY DEF AllBytes
      <4>1. j \in 1 .. r.pos \/ j \in r.pos + 1 .. i - 1 \/ j = i
        BY <1>1, <2>7
      <4> QED
        BY <2>3, <2>4, <2>8, <4>1 DEF AllBytes
    <3> QED
      BY <2>3, <2>7, <3>1, <3>5, <3>6 DEF Gives, U, m
  <2> QED
    BY <2>2, <2>3, <2>4, <2>7
<1> QED
  BY <1>4, <1>5

-----------------------------------------------------------------------------
(* The body that is preloaded.                                             *)

(* client->response, also between a generator's first item and the next.   *)
Held ==
  [body : Seq(Nat), pre : Nat, total : Nat \cup {Generator}, written : Nat,
   chunked : 0 .. 2, iter : BOOLEAN, pos : Nat, item : Nat, error : BOOLEAN]

(* An item that is not bytes, or none left. *)
Bad(s) == \E i \in 1 .. Len(s.items) : s.items[i] < 0
Whole(s, d) == d = NonEmpty(s) /\ AllBytes(s, Len(s.items))

(* The items that the iterator has given, from the first on, are loaded.   *)
Filled(s, r) ==
  /\ r \in Resp /\ r.pos \in 0 .. Len(s.items)
  /\ r.iter = TRUE /\ r.error = FALSE
  /\ r.written = 0 /\ r.chunked = 0 /\ r.total = 0
  /\ AllBytes(s, r.pos)
  /\ r.body = NonEmptyUpTo(s)[r.pos] /\ r.pre = Bytes(s, r.body)

(* The first item of a generator has been asked for. *)
Begun(s, r) ==
  /\ r \in Held /\ r.total = Generator
  /\ Filled(s, [r EXCEPT !.total = 0])
  /\ \/ r.body = <<>> /\ Whole(s, <<>>)
     \/ \E i \in 1 .. Len(s.items) : r.body = <<i>> /\ s.items[i] > 0

(* The item that is asked for next; size is that of the body with it.      *)
Fetched(s, q, size) ==
  /\ q \in Resp
  /\ \/ q.item = 0 /\ q.error = TRUE /\ Bad(s)
     \/ q.item = 0 /\ Filled(s, q) /\ Whole(s, q.body) /\ Len(q.body) < size
     \/ /\ q.item \in 1 .. Len(s.items) /\ s.items[q.item] > 0
        /\ LET r == [q EXCEPT !.body = Append(@, q.item),
                              !.pre = @ + s.items[q.item]]
           IN Filled(s, r) /\ Len(r.body) = size

LEMMA UpToType ==
  ASSUME NEW s, s.items \in Seq(Int), NEW n \in 0 .. Len(s.items)
  PROVE  /\ NonEmptyUpTo(s)[n] \in Given(s) /\ NonEmptyUpTo(s)[n] \in Seq(Nat)
         /\ Len(NonEmptyUpTo(s)[n]) \in Nat
         /\ AllBytes(s, n) =>
              /\ Bytes(s, NonEmptyUpTo(s)[n]) \in Nat
              /\ Bytes(s, NonEmptyUpTo(s)[n]) = 0 => NonEmptyUpTo(s)[n] = <<>>
<1> DEFINE d == NonEmptyUpTo(s)[n]
<1>1. d \in Given(s)
  BY NonEmptyUpToIs
<1>2. d \in Seq(Nat) /\ Len(d) \in Nat
  <2>1. 1 .. Len(s.items) \subseteq Nat
    OBVIOUS
  <2> HIDE DEF d
  <2> QED
    BY <1>1, <2>1, SeqMonotonic DEF Given
<1>3. ASSUME AllBytes(s, n)
      PROVE  Bytes(s, d) \in Nat /\ (Bytes(s, d) = 0 => d = <<>>)
  <2>1. 0 \in 0 .. Len(s.items) /\ n \in 0 .. Len(s.items)
    OBVIOUS
  <2>2. NonEmptyUpTo(s)[0] = <<>> /\ Bytes(s, <<>>) = 0
    BY NonEmptyUpToIs, BytesOfNone
  <2>3. Bytes(s, d) \in Int /\ 0 <= Bytes(s, d) /\ (0 = Bytes(s, d) => <<>> = d)
    BY <1>3, <2>1, <2>2, Grows
  <2> QED
    BY <2>3
<1> QED
  BY <1>1, <1>2, <1>3

LEMMA FilledFetches ==
  ASSUME NEW s, s.items \in Seq(Int), NEW r, Filled(s, r)
  PROVE  Fetched(s, wsgi_iterator_get_next_chunk(s, r), Len(r.body) + 1)
<1> DEFINE m == Len(s.items)
           q == PyIter_Next(s, r)
           U == NonEmptyUpTo(s)
<1>1. /\ r \in Resp /\ r.iter = TRUE /\ r.total = 0 /\ r.pos \in 0 .. m
      /\ m \in Nat /\ \A i \in 1 .. m : s.items[i] \in Int
  BY DEF Filled
<1>8. r \in Resp /\ \A i \in 1 .. m : i \in Nat
  BY <1>1
<1>2. wsgi_iterator_get_next_chunk(s, r) = q
  <2>1. r.total # Generator
    BY <1>1 DEF Generator
  <2> QED
    BY <1>1, <2>1, Zenon DEF wsgi_iterator_get_next_chunk
<1>3. Ends(s, r, q) \/ Fails(s, r, q) \/ Gives(s, r, q)
  BY <1>1, NextItem
<1> SUFFICES Fetched(s, q, Len(r.body) + 1)
  BY <1>2
<1> HIDE DEF q
<1>4. /\ U[r.pos] \in Given(s) /\ r.body = U[r.pos] /\ Len(r.body) \in Nat
      /\ AllBytes(s, r.pos) /\ r.pre = Bytes(s, r.body)
  BY <1>1, UpToType DEF Filled
<1>5. CASE Ends(s, r, q)
  <2>1. q = [r EXCEPT !.pos = m, !.item = 0]
    BY <1>5 DEF Ends
  <2>2. q \in Resp /\ q.item = 0 /\ q.body = r.body /\ q.pos = m
    BY <1>1, <2>1 DEF Resp
  <2>3. r.body = NonEmpty(s) /\ AllBytes(s, m)
    BY <1>4, <1>5 DEF Ends
  <2>4. Filled(s, q)
    BY <1>1, <1>4, <2>1, <2>2, <2>3 DEF Filled, NonEmpty, Resp
  <2> QED
    BY <1>4, <2>2, <2>3, <2>4 DEF Fetched, Whole
<1>6. CASE Fails(s, r, q)
  <2>1. PICK i \in 1 .. m :
          /\ s.items[i] < 0
          /\ q = [r EXCEPT !.pos = i, !.item = 0, !.error = TRUE]
    BY <1>6 DEF Fails
  <2>3. i \in Nat
    OBVIOUS
  <2>2. q \in Resp /\ q.item = 0 /\ q.error = TRUE
    BY <1>8, <2>1, <2>3 DEF Resp
  <2> QED
    BY <2>1, <2>2 DEF Fetched, Bad
<1>7. CASE Gives(s, r, q)
  <2>1. PICK i \in 1 .. m :
          /\ s.items[i] > 0 /\ q = [r EXCEPT !.pos = i, !.item = i]
          /\ U[i] = Append(U[r.pos], i)
          /\ AllBytes(s, r.pos) => AllBytes(s, i)
    BY <1>7 DEF Gives
  <2>8. i \in Nat
    OBVIOUS
  <2>2. q \in Resp /\ q.item = i /\ q.body = r.body
    BY <1>8, <2>1, <2>8 DEF Resp
  <2> DEFINE t == [q EXCEPT !.body = Append(@, q.item),
                            !.pre = @ + s.items[q.item]]
  <2> HIDE DEF U
  <2>3. /\ Append(r.body, i) = U[i] /\ AllBytes(s, i)
        /\ Len(Append(r.body, i)) = Len(r.body) + 1
    BY <1>4, <2>1 DEF Given
  <2>4. Bytes(s, Append(r.body, i)) = r.pre + s.items[i]
    BY <1>4, BytesOfAppend
  <2>5. U[i] \in Seq(Nat) /\ Bytes(s, U[i]) \in Nat
    BY <1>1, <2>3, UpToType DEF U
  <2>6. t \in Resp /\ t.body = U[i] /\ t.pre = Bytes(s, U[i]) /\ t.pos = i
        /\ t.iter = r.iter /\ t.error = r.error /\ t.written = r.written
        /\ t.chunked = r.chunked /\ t.total = r.total
    <3> DEFINE c == Append(r.body, i)
               b == r.pre + s.items[i]
    <3>1. t = [r EXCEPT !.pos = i, !.item = i, !.body = c, !.pre = b]
      BY <1>1, <2>1, <2>2 DEF Resp
    <3>2. c \in Seq(Nat) /\ b \in Nat /\ c = U[i] /\ b = Bytes(s, U[i])
      BY <2>3, <2>4, <2>5
    <3> HIDE DEF c, b, t
    <3>3. /\ t \in Resp /\ t.body = c /\ t.pre = b /\ t.pos = i
          /\ t.iter = r.iter /\ t.error = r.error /\ t.written = r.written
          /\ t.chunked = r.chunked /\ t.total = r.total
      BY <1>8, <2>8, <3>1, <3>2 DEF Resp
    <3> QED
      BY <3>2, <3>3
  <2> HIDE DEF t
  <2>7. Filled(s, t)
    BY <1>1, <2>3, <2>6 DEF Filled, U
  <2> QED
    BY <2>1, <2>2, <2>3, <2>6, <2>7 DEF Fetched, t
<1> QED
  BY <1>3, <1>5, <1>6, <1>7

LEMMA BegunFetches ==
  ASSUME NEW s, s.items \in Seq(Int), NEW r, Begun(s, r)
  PROVE  Fetched(s, wsgi_iterator_get_next_chunk(s, r), 1)
<1> DEFINE m == Len(s.items)
           U == NonEmptyUpTo(s)
           f == [r EXCEPT !.total = 0]
           q == [r EXCEPT !.total = 0, !.pre = 0, !.body = <<>>,
                          !.item = IF r.body = <<>> THEN 0 ELSE r.body[1]]
<1>1. /\ r \in Held /\ r.total = Generator /\ Filled(s, f)
      /\ m \in Nat /\ \A i \in 1 .. m : s.items[i] \in Int
  BY DEF Begun
<1>2. /\ r.iter = TRUE /\ r.error = FALSE /\ r.written = 0 /\ r.chunked = 0
      /\ r.pos \in 0 .. m /\ AllBytes(s, r.pos) /\ r.body = U[r.pos]
      /\ r.pre = Bytes(s, r.body)
  BY <1>1 DEF Filled, Held
<1>3. wsgi_iterator_get_next_chunk(s, r) = q
  BY <1>1, <1>2, Zenon DEF wsgi_iterator_get_next_chunk
<1>4. CASE r.body = <<>> /\ Whole(s, <<>>)
  <2>1. q = [r EXCEPT !.total = 0, !.pre = 0, !.body = <<>>, !.item = 0]
    BY <1>4
  <2> HIDE DEF q
  <2>4. r \in Held /\ <<>> \in Seq(Nat) /\ Len(<<>>) < 1
    BY <1>1
  <2>2. q \in Resp /\ q.item = 0 /\ q.body = <<>>
    BY <2>1, <2>4 DEF Resp, Held
  <2>3. Filled(s, q)
    BY <1>1, <1>2, <1>4, <2>1, <2>2, BytesOfNone DEF Filled, Held
  <2> QED
    BY <1>3, <1>4, <2>2, <2>3, <2>4 DEF Fetched
<1>5. ASSUME NEW i \in 1 .. m, r.body = <<i>>, s.items[i] > 0
      PROVE  Fetched(s, q, 1)
  <2>1. q = [r EXCEPT !.total = 0, !.pre = 0, !.body = <<>>, !.item = i]
    BY <1>5
  <2> DEFINE t == [q EXCEPT !.body = Append(@, q.item),
                            !.pre = @ + s.items[q.item]]
  <2> HIDE DEF q
  <2>8. r \in Held /\ i \in Nat /\ <<>> \in Seq(Nat)
    BY <1>1
  <2>2. q \in Resp /\ q.item = i /\ q.body = <<>> /\ q.pre = 0
    BY <2>1, <2>8 DEF Resp, Held
  <2>3. s.items[i] \in Nat /\ Append(<<>>, i) = <<i>> /\ Len(<<i>>) = 1
    BY <1>1, <1>5
  <2>4. t = [q EXCEPT !.body = <<i>>, !.pre = s.items[i]]
    <3>1. Append(q.body, q.item) = <<i>> /\ q.pre + s.items[q.item] = s.items[i]
      BY <2>2, <2>3
    <3> QED
      BY <3>1
  <2>5. Bytes(s, <<i>>) = s.items[i] /\ <<i>> \in Seq(Nat)
    BY BytesOfOne
  <2> HIDE DEF t
  <2>6. t \in Resp /\ t.body = <<i>> /\ t.pre = Bytes(s, <<i>>)
        /\ t.pos = r.pos /\ t.iter = r.iter /\ t.error = r.error
        /\ t.written = r.written /\ t.chunked = r.chunked /\ t.total = 0
    BY <1>1, <2>1, <2>2, <2>3, <2>4, <2>5 DEF Resp, Held
  <2>7. Filled(s, t)
    BY <1>2, <1>5, <2>6 DEF Filled
  <2> QED
    BY <1>5, <2>2, <2>3, <2>6, <2>7 DEF Fetched, t
<1> QED
  BY <1>3, <1>4, <1>5 DEF Begun

(* The loop, between two turns; Count is the number of turns that loaded   *)
(* an item.                                                                *)
Count(r) == IF r.total = Generator THEN 0 ELSE Len(r.body)

Loop(s, p) ==
  \/ /\ p.state = "more" /\ Count(p.resp) <= MaxPreloaded
     /\ Begun(s, p.resp) \/ Filled(s, p.resp)
  \/ p.state = "part" /\ Filled(s, p.resp)
     /\ Len(p.resp.body) \in 1 .. MaxPreloaded + 1
  \/ p.state = "all" /\ p.resp.error = TRUE /\ Bad(s)
  \/ p.state = "all" /\ Filled(s, p.resp) /\ Whole(s, p.resp.body)
     /\ Len(p.resp.body) <= MaxPreloaded

Loops(s) ==
  {p \in [resp : Held, prev : Nat, state : {"more", "part", "all"}] : Loop(s, p)}

LEMMA RespHeld == Resp \subseteq Held
  BY DEF Resp, Held

LEMMA TurnOfLoop ==
  ASSUME NEW s, s.items \in Seq(Int), NEW p \in Loops(s)
  PROVE  /\ PreloadItem(s, p) \in Loops(s)
         /\ PreloadItem(s, p).state = "more" =>
              /\ p.state = "more"
              /\ Count(PreloadItem(s, p).resp) = Count(p.resp) + 1
<1> DEFINE q == wsgi_iterator_get_next_chunk(s, p.resp)
           n == Count(p.resp)
           m == Len(s.items)
           size == s.items[q.item]
           r == [q EXCEPT !.body = Append(@, q.item), !.pre = @ + size]
           P == PreloadItem(s, p)
<1> SUFFICES P \in Loops(s)
             /\ (P.state = "more" => p.state = "more" /\ Count(P.resp) = n + 1)
  OBVIOUS
<1>1. p \in [resp : Held, prev : Nat, state : {"more", "part", "all"}]
      /\ Loop(s, p)
  BY DEF Loops
<1>2. CASE p.state # "more"
  <2>1. P = p
    BY <1>2, Zenon DEF PreloadItem
  <2> HIDE DEF P
  <2> QED
    BY <1>2, <2>1
<1>3. CASE p.state = "more"
  <2>1. n <= MaxPreloaded /\ (Begun(s, p.resp) \/ Filled(s, p.resp))
    BY <1>1, <1>3, Zenon DEF Loop
  <2>2. Fetched(s, q, n + 1) /\ n \in Nat
    <3>1. CASE Begun(s, p.resp)
      <4>1. n = 0
        BY <3>1 DEF Begun, Count
      <4>2. Fetched(s, q, 1)
        BY <3>1, BegunFetches
      <4> HIDE DEF n, q
      <4> QED
        BY <4>1, <4>2
    <3>2. CASE Filled(s, p.resp)
      <4>1. n = Len(p.resp.body) /\ n \in Nat
        BY <3>2 DEF Filled, Count, Generator, Resp
      <4>2. Fetched(s, q, Len(p.resp.body) + 1)
        BY <3>2, FilledFetches
      <4> HIDE DEF n, q
      <4> QED
        BY <4>1, <4>2
    <3> QED
      BY <2>1, <3>1, <3>2
  <2>3. /\ q.item = 0 => P = [p EXCEPT !.resp = q, !.state = "all"]
        /\ q.item # 0 =>
             P = [resp |-> r, prev |-> size,
                  state |-> IF Full(s, r, p.prev) THEN "part" ELSE "more"]
    BY <1>3, Zenon DEF PreloadItem
  <2> HIDE DEF q, n, P
  <2>4. q \in Resp /\ q \in Held
    BY <2>2, RespHeld DEF Fetched
  <2>5. CASE q.item = 0 /\ ((q.error = TRUE /\ Bad(s))
                            \/ (Filled(s, q) /\ Whole(s, q.body)
                                /\ Len(q.body) < n + 1))
    <3>1. P.resp = q /\ P.state = "all"
          /\ P \in [resp : Held, prev : Nat, state : {"more", "part", "all"}]
      BY <1>1, <2>3, <2>4, <2>5
    <3>2. Len(q.body) \in Nat
      BY <2>4 DEF Resp
    <3>3. Loop(s, P)
      BY <2>1, <2>2, <2>5, <3>1, <3>2, SizesAssumption DEF Loop
    <3> QED
      BY <3>1, <3>3 DEF Loops
  <2>6. CASE /\ q.item \in 1 .. m /\ size > 0
             /\ Filled(s, r) /\ Len(r.body) = n + 1
    <3>1. q.item # 0 /\ size \in Nat
      <4>1. m \in Nat /\ \A i \in 1 .. m : s.items[i] \in Int
        OBVIOUS
      <4> HIDE DEF m, r
      <4> QED
        BY <2>6, <4>1
    <3>2. r \in Held /\ Count(r) = n + 1
      BY <2>6, RespHeld DEF Filled, Count, Generator
    <3> HIDE DEF size, r, m
    <3>3. CASE Full(s, r, p.prev)
      <4>1. P = [resp |-> r, prev |-> size, state |-> "part"]
        BY <2>3, <3>1, <3>3
      <4>2. P \in [resp : Held, prev : Nat, state : {"more", "part", "all"}]
        BY <3>1, <3>2, <4>1
      <4>3. Loop(s, P)
        BY <2>1, <2>2, <2>6, <4>1, SizesAssumption DEF Loop
      <4> QED
        BY <4>1, <4>2, <4>3 DEF Loops
    <3>4. CASE ~Full(s, r, p.prev)
      <4>1. P = [resp |-> r, prev |-> size, state |-> "more"]
        BY <2>3, <3>1, <3>4
      <4>2. P \in [resp : Held, prev : Nat, state : {"more", "part", "all"}]
        BY <3>1, <3>2, <4>1
      <4>3. n + 1 <= MaxPreloaded
        BY <2>1, <2>2, <2>6, <3>4, SizesAssumption DEF Full
      <4>4. Loop(s, P)
        BY <2>6, <3>2, <4>1, <4>3 DEF Loop
      <4> QED
        BY <1>3, <3>2, <4>1, <4>2, <4>4 DEF Loops
    <3> QED
      BY <3>3, <3>4
  <2> QED
    BY <2>2, <2>5, <2>6 DEF Fetched
<1> QED
  BY <1>2, <1>3

(* The loop stops with all of the body or at its limit. *)
LEMMA LoopStops ==
  ASSUME NEW s, s.items \in Seq(Int), NEW r0 \in Held, Count(r0) = 0,
         Begun(s, r0) \/ Filled(s, r0)
  PROVE  Loaded(s, r0) \in Loops(s) /\ Loaded(s, r0).state # "more"
<1> DEFINE m == MaxPreloaded + 3
           D == Loops(s)
           d == [resp |-> r0, prev |-> 0, state |-> "more"]
           turn == [p \in D |-> PreloadItem(s, p)]
           step == [n \in 1 .. m |-> turn]
           f == Preloads(s, r0)
<1>1. m \in Nat /\ MaxPreloaded \in Nat
  BY SizesAssumption
<1>2. d \in D
  <2>1. d \in [resp : Held, prev : Nat, state : {"more", "part", "all"}]
    OBVIOUS
  <2>2. Loop(s, d)
    BY <1>1 DEF Loop
  <2> QED
    BY <2>1, <2>2 DEF Loops
<1>3. \A p \in D : turn[p] = PreloadItem(s, p) /\ turn[p] \in D
  BY TurnOfLoop
<1> HIDE DEF D, m, d
<1>4. turn \in [D -> D] /\ step \in [1 .. m -> [D -> D]]
  BY <1>3
<1>5. \A n \in 1 .. m : step[n] = turn
  OBVIOUS
<1> HIDE DEF turn, step
<1>6. PICK g \in [0 .. m -> D] :
        g[0] = d /\ \A n \in 1 .. m : g[n] = step[n][g[n - 1]]
  <2>1. Recursive(m, D, d, step)
    BY <1>1, <1>2, <1>4 DEF Recursive
  <2> QED
    BY <2>1, Recursion
<1>7. g = [n \in 0 .. m |-> IF n = 0 THEN d ELSE PreloadItem(s, g[n - 1])]
  <2>1. ASSUME NEW n \in 0 .. m
        PROVE  g[n] = IF n = 0 THEN d ELSE PreloadItem(s, g[n - 1])
    <3>1. CASE n = 0
      BY <1>6, <3>1
    <3>2. CASE n # 0
      <4>1. n \in 1 .. m /\ n - 1 \in 0 .. m
        BY <1>1, <3>2
      <4>2. g[n - 1] \in D
        BY <1>6, <4>1
      <4> QED
        BY <1>3, <1>5, <1>6, <3>2, <4>1, <4>2
    <3> QED
      BY <3>1, <3>2
  <2> QED
    BY <2>1
<1>8. f = [n \in 0 .. m |-> IF n = 0 THEN d ELSE PreloadItem(s, f[n - 1])]
  BY <1>7, Zenon DEF Preloads, m, d
<1> HIDE DEF f
<1>9. f[0] = d /\ \A n \in 1 .. m : f[n] = PreloadItem(s, f[n - 1])
  <2>1. \A n \in 0 .. m : f[n] = IF n = 0 THEN d ELSE PreloadItem(s, f[n - 1])
    BY <1>8
  <2>2. 0 \in 0 .. m /\ \A n \in 1 .. m : n \in 0 .. m /\ n # 0
    BY <1>1
  <2> QED
    BY <2>1, <2>2, Zenon
<1> DEFINE Turned(p, n) == p \in D /\ (p.state = "more" => Count(p.resp) = n)
           S == {n \in Nat : n <= m => Turned(f[n], n)}
<1>10. 0 \in S
  BY <1>2, <1>9 DEF d
<1>11. ASSUME NEW n \in Nat, n \in S PROVE n + 1 \in S
  <2> SUFFICES ASSUME n + 1 <= m PROVE Turned(f[n + 1], n + 1)
    OBVIOUS
  <2>1. n + 1 \in 1 .. m /\ (n + 1) - 1 = n /\ n <= m
    BY <1>1
  <2>2. f[n + 1] = PreloadItem(s, f[n]) /\ Turned(f[n], n)
    BY <1>9, <1>11, <2>1
  <2> DEFINE P == PreloadItem(s, f[n])
  <2>3. P \in D /\ (P.state = "more" => /\ f[n].state = "more"
                                        /\ Count(P.resp) = Count(f[n].resp) + 1)
    BY <2>2, TurnOfLoop DEF D
  <2> HIDE DEF P
  <2> QED
    BY <2>2, <2>3 DEF P
<1> HIDE DEF S, Turned
<1>12. m \in S
  BY <1>1, <1>10, <1>11, Induct
<1>13. Turned(f[m], m)
  BY <1>1, <1>12 DEF S
<1>14. f[m] \in Loops(s) /\ (f[m].state = "more" => Count(f[m].resp) = m)
  BY <1>13 DEF Turned, D
<1>15. f[m].state # "more"
  <2> SUFFICES ASSUME f[m].state = "more" PROVE FALSE
    OBVIOUS
  <2>1. Count(f[m].resp) <= MaxPreloaded
    BY <1>14 DEF Loops, Loop
  <2> QED
    BY <1>1, <1>14, <2>1 DEF m
<1> QED
  BY <1>14, <1>15 DEF Loaded, f, m

-----------------------------------------------------------------------------
(* The response that process_wsgi_response makes.                          *)

(* Started is the state of the iterator as preloading begins. *)
Started(s, r) ==
  r \in Held /\ Count(r) = 0 /\ (Begun(s, r) \/ Filled(s, r))

(* All of the body, its beginning, or nothing where Content-Length is 0.   *)
Made(s, r) ==
  /\ r \in Resp /\ r.error = FALSE /\ r.written = 0
  /\ r.body \in Given(s) /\ Len(r.body) <= MaxPreloaded + 1
  /\ \/ /\ r.chunked = 0 /\ r.body = NonEmpty(s)
        /\ r.pre = Bytes(s, r.body) /\ r.total = r.pre
        /\ r.pre = 0 => r.body = <<>>
     \/ s.length = 0 /\ r.pre = 0 /\ r.total = 0 /\ r.chunked = 0
     \/ /\ r.iter = TRUE /\ r.pos \in 0 .. Len(s.items) /\ AllBytes(s, r.pos)
        /\ r.body = NonEmptyUpTo(s)[r.pos]
        /\ r.pre = Bytes(s, r.body) /\ r.pre > 0
        /\ \/ r.chunked = 0 /\ r.total = s.length /\ s.length > 0
           \/ r.chunked = 1 /\ r.total = 0

Processed(s, r) == Made(s, r) \/ (r.error = TRUE /\ ~Sound(s))

LEMMA SoundBody ==
  ASSUME NEW s, s.items \in Seq(Int), Sound(s)
  PROVE  /\ ~Bad(s) /\ AllBytes(s, Len(s.items))
         /\ Bytes(s, NonEmpty(s)) \in Nat
         /\ s.length \in {-1, Bytes(s, NonEmpty(s))} /\ s.kind # "notIterable"
<1>1. \A i \in 1 .. Len(s.items) : s.items[i] >= 0 /\ s.items[i] \in Int
  BY DEF Sound
<1>2. ~Bad(s) /\ AllBytes(s, Len(s.items)) /\ Len(s.items) \in 0 .. Len(s.items)
  BY <1>1 DEF Bad, AllBytes
<1>3. Bytes(s, NonEmpty(s)) \in Nat
  BY <1>2, UpToType DEF NonEmpty
<1> QED
  BY <1>2, <1>3 DEF Sound, Absent

LEMMA FreshRespType == FreshResp \in Resp
<1>1. <<>> \in Seq(Nat)
  OBVIOUS
<1> QED
  BY <1>1 DEF FreshResp, Resp

(* Nothing is loaded of a new response. *)
LEMMA FreshIsFilled ==
  ASSUME NEW s, s.items \in Seq(Int)
  PROVE  LET r == [FreshResp EXCEPT !.iter = TRUE]
         IN Filled(s, r) /\ r.body = <<>> /\ Started(s, r)
<1> DEFINE r == [FreshResp EXCEPT !.iter = TRUE]
<1>1. /\ FreshResp \in Resp /\ r \in Resp /\ r.iter = TRUE
      /\ r.body = <<>> /\ r.pre = 0 /\ r.total = 0 /\ r.written = 0
      /\ r.chunked = 0 /\ r.pos = 0 /\ r.error = FALSE
  BY FreshRespType DEF FreshResp, Resp
<1>2. /\ NonEmptyUpTo(s)[0] = <<>> /\ Bytes(s, <<>>) = 0
      /\ 0 \in 0 .. Len(s.items) /\ AllBytes(s, 0)
      /\ <<>> \in Seq(Nat) /\ Len(<<>>) = 0
  BY NonEmptyUpToIs, BytesOfNone DEF AllBytes
<1> HIDE DEF r
<1>4. Filled(s, r)
  BY <1>1, <1>2 DEF Filled
<1>5. Count(r) = 0
  BY <1>1, <1>2 DEF Count, Generator
<1>6. Started(s, r)
  BY <1>1, <1>4, <1>5, RespHeld DEF Started
<1> QED
  BY <1>1, <1>4, <1>6 DEF r

(* A generator has run up to its first item. *)
LEMMA GeneratorBegins ==
  ASSUME NEW s, s.items \in Seq(Int), NEW q, Fetched(s, q, 1)
  PROVE  LET g == [q EXCEPT !.total = Generator,
                     !.body = IF q.item = 0 THEN <<>> ELSE <<q.item>>,
                     !.pre = IF q.item = 0 THEN 0 ELSE s.items[q.item]]
         IN (q.error = TRUE /\ Bad(s)) \/ (q.error = FALSE /\ Started(s, g))
<1> DEFINE g == [q EXCEPT !.total = Generator,
                   !.body = IF q.item = 0 THEN <<>> ELSE <<q.item>>,
                   !.pre = IF q.item = 0 THEN 0 ELSE s.items[q.item]]
           f == [g EXCEPT !.total = 0]
           m == Len(s.items)
<1>1. q \in Resp /\ <<>> \in Seq(Nat) /\ Len(<<>>) = 0
  BY DEF Fetched
<1>2. ASSUME Begun(s, g) PROVE Started(s, g)
  BY <1>2 DEF Started, Begun, Count
<1>3. CASE q.item = 0 /\ Filled(s, q) /\ Whole(s, q.body) /\ Len(q.body) < 1
  <2>1. q.body = <<>> /\ q.pre = 0 /\ q.total = 0 /\ q.error = FALSE
    <3>1. q.body \in Seq(Nat)
      BY <1>1 DEF Resp
    <3>2. q.body = <<>>
      BY <1>3, <3>1, EmptySeq
    <3> QED
      BY <1>3, <3>2, BytesOfNone DEF Filled
  <2>2. g = [q EXCEPT !.total = Generator, !.body = <<>>, !.pre = 0]
    BY <1>3
  <2>3. g \in Held /\ g.total = Generator /\ g.body = <<>>
    <3> HIDE DEF g
    <3> QED
      BY <1>1, <2>2 DEF Resp, Held
  <2>4. f = q
    <3> HIDE DEF g
    <3> QED
      BY <1>1, <2>1, <2>2 DEF Resp
  <2> HIDE DEF g, f
  <2>5. Begun(s, g)
    BY <1>3, <2>1, <2>3, <2>4 DEF Begun, f
  <2> QED
    BY <1>2, <2>1, <2>5 DEF g
<1>4. ASSUME q.item \in 1 .. m, s.items[q.item] > 0,
             Filled(s, [q EXCEPT !.body = Append(@, q.item),
                                 !.pre = @ + s.items[q.item]]),
             Len([q EXCEPT !.body = Append(@, q.item),
                           !.pre = @ + s.items[q.item]].body) = 1
      PROVE  q.error = FALSE /\ Started(s, g)
  <2> DEFINE i == q.item
             b == s.items[q.item]
             r == [q EXCEPT !.body = Append(@, q.item),
                            !.pre = @ + s.items[q.item]]
  <2>1. i # 0 /\ i \in Nat /\ b \in Nat /\ q.body \in Seq(Nat) /\ q.pre \in Nat
    <3>1. m \in Nat /\ \A j \in 1 .. m : s.items[j] \in Int
      OBVIOUS
    <3>2. q.body \in Seq(Nat) /\ q.pre \in Nat
      BY <1>1 DEF Resp
    <3> HIDE DEF m
    <3> QED
      BY <1>4, <3>1, <3>2
  <2>2. r.body = Append(q.body, i) /\ r.pre = q.pre + b /\ r.error = q.error
        /\ r.total = q.total
    BY <1>1 DEF Resp
  <2>3. q.body = <<>>
    <3>1. Len(Append(q.body, i)) = Len(q.body) + 1 /\ Len(q.body) \in Nat
      BY <2>1
    <3>2. Len(q.body) = 0
      BY <1>4, <2>2, <3>1
    <3> QED
      BY <2>1, <3>2, EmptySeq
  <2>4. Append(<<>>, i) = <<i>> /\ Bytes(s, <<i>>) = b /\ <<i>> \in Seq(Nat)
    BY <1>4, <2>1, BytesOfOne
  <2>5. q.pre = 0 /\ q.error = FALSE /\ q.total = 0
    <3>1. r.pre = Bytes(s, r.body) /\ r.error = FALSE /\ r.total = 0
      BY <1>4 DEF Filled
    <3>2. r.pre = b
      BY <2>2, <2>3, <2>4, <3>1
    <3> QED
      BY <2>1, <2>2, <3>1, <3>2
  <2>6. g = [q EXCEPT !.total = Generator, !.body = <<i>>, !.pre = b]
    BY <2>1
  <2>7. r = [q EXCEPT !.body = <<i>>, !.pre = b]
    <3>1. Append(q.body, q.item) = <<i>> /\ q.pre + s.items[q.item] = b
      BY <2>1, <2>3, <2>4, <2>5
    <3> QED
      BY <3>1
  <2>8. Filled(s, r)
    BY <1>4
  <2> HIDE DEF g, r, i, b
  <2>9. g \in Held /\ g.total = Generator /\ g.body = <<i>>
    BY <1>1, <2>1, <2>4, <2>6 DEF Resp, Held
  <2>10. [g EXCEPT !.total = 0] = r
    BY <1>1, <2>5, <2>6, <2>7 DEF Resp
  <2>11. Begun(s, g)
    BY <1>4, <2>8, <2>9, <2>10 DEF Begun, i
  <2> QED
    BY <1>2, <2>5, <2>11
<1> HIDE DEF g
<1>5. (q.error = TRUE /\ Bad(s)) \/ (q.error = FALSE /\ Started(s, g))
  <2>1. CASE q.item = 0 /\ q.error = TRUE /\ Bad(s)
    BY <2>1
  <2>2. CASE q.item = 0 /\ Filled(s, q) /\ Whole(s, q.body) /\ Len(q.body) < 1
    <3>1. q.error = FALSE /\ Started(s, g)
      BY <1>3, <2>2 DEF Filled, g
    <3> QED
      BY <3>1
  <2> QED
    BY <1>4, <2>1, <2>2, Zenon DEF Fetched
<1> QED
  BY <1>5 DEF g

LEMMA StartedType ==
  ASSUME NEW s, NEW r, Started(s, r)
  PROVE  /\ r.body \in Seq(Nat) /\ r.iter = TRUE /\ r.error = FALSE
         /\ r.written = 0 /\ r.chunked = 0 /\ r \in Held
         /\ s.items \in Seq(Int) => r.body \in Given(s) /\ Len(r.body) <= 1
<1>1. r \in Held /\ Count(r) = 0 /\ (Begun(s, r) \/ Filled(s, r))
  BY DEF Started
<1>2. r.body \in Seq(Nat)
  BY <1>1 DEF Held
<1>3. /\ r.iter = TRUE /\ r.error = FALSE /\ r.written = 0 /\ r.chunked = 0
  <2>1. CASE Filled(s, r)
    BY <2>1 DEF Filled
  <2>2. CASE Begun(s, r)
    BY <1>1, <2>2 DEF Begun, Filled, Held
  <2> QED
    BY <1>1, <2>1, <2>2
<1>4. ASSUME s.items \in Seq(Int)
      PROVE  r.body \in Given(s) /\ Len(r.body) <= 1
  <2>1. CASE Filled(s, r)
    <3>1. r.body \in Given(s)
      BY <1>4, <2>1, UpToType DEF Filled
    <3>2. r.total = 0
      BY <2>1 DEF Filled
    <3> QED
      BY <1>1, <3>1, <3>2 DEF Count, Generator
  <2>2. CASE Begun(s, r)
    <3>1. r.body = <<>> \/ \E i \in 1 .. Len(s.items) : r.body = <<i>>
      BY <2>2 DEF Begun
    <3>2. <<>> \in Given(s) /\ Len(<<>>) <= 1
      BY DEF Given
    <3>3. ASSUME NEW i \in 1 .. Len(s.items)
          PROVE  <<i>> \in Given(s) /\ Len(<<i>>) <= 1
      BY DEF Given
    <3> QED
      BY <3>1, <3>2, <3>3
  <2> QED
    BY <1>1, <2>1, <2>2
<1> QED
  BY <1>1, <1>2, <1>3, <1>4

(* What is made of a body that was loaded as far as the loop goes. *)
LEMMA MeasuredIsMade ==
  ASSUME NEW s \in AnyBody, NEW l \in Loops(s), l.state # "more",
         l.resp.error = FALSE
  PROVE  Processed(s, Measured(s, l))
<1> DEFINE r == l.resp
           M == Measured(s, l)
           m == Len(s.items)
<1>0. s.items \in Seq(Int) /\ s.length \in Int
  BY BodyType, SizesAssumption DEF Source, Absent, Malformed
<1>1. Filled(s, r) /\ r \in Resp
      /\ \/ l.state = "part" /\ Len(r.body) \in 1 .. MaxPreloaded + 1
         \/ l.state = "all" /\ Whole(s, r.body) /\ Len(r.body) <= MaxPreloaded
  BY DEF Loops, Loop, Filled
<1>2. /\ r.pos \in 0 .. m /\ r.iter = TRUE /\ r.error = FALSE /\ r.written = 0
      /\ r.chunked = 0 /\ r.total = 0 /\ AllBytes(s, r.pos)
      /\ r.body = NonEmptyUpTo(s)[r.pos] /\ r.pre = Bytes(s, r.body)
  BY <1>1 DEF Filled
<1>3. /\ r.body \in Given(s) /\ Len(r.body) \in Nat /\ r.pre \in Nat
      /\ r.pre = 0 => r.body = <<>>
  BY <1>0, <1>2, UpToType
<1>4. MaxPreloaded \in Nat
  BY SizesAssumption
<1> SUFFICES Processed(s, M)
  OBVIOUS
<1>5. /\ l.state = "all" /\ TooLong(s, r) => M = [r EXCEPT !.error = TRUE]
      /\ l.state = "all" /\ ~TooLong(s, r) => M = [r EXCEPT !.total = r.pre]
      /\ l.state # "all" /\ s.length > 0 /\ ~(s.length <= 0) =>
           M = [r EXCEPT !.total = s.length]
      /\ l.state # "all" /\ s.length <= 0 /\ ~(s.length > 0) =>
           M = [r EXCEPT !.chunked = 1]
  BY Zenon DEF Measured
<1> HIDE DEF M, r
<1>6. CASE l.state = "all" /\ TooLong(s, r)
  <2>1. M.error = TRUE
    BY <1>1, <1>5, <1>6 DEF Resp
  <2>2. ~Sound(s)
    <3> SUFFICES ASSUME Sound(s) PROVE FALSE
      OBVIOUS
    <3>1. s.length > 0 /\ r.pre > s.length
      BY <1>6 DEF TooLong
    <3>2. r.body = NonEmpty(s)
      BY <1>1, <1>6 DEF Whole
    <3>3. s.length \in {-1, Bytes(s, NonEmpty(s))}
      BY <1>0, SoundBody
    <3> QED
      BY <1>0, <1>2, <1>3, <3>1, <3>2, <3>3
  <2> QED
    BY <2>1, <2>2 DEF Processed
<1>7. CASE l.state = "all" /\ ~TooLong(s, r)
  <2>1. /\ M \in Resp /\ M.body = r.body /\ M.pre = r.pre /\ M.total = r.pre
        /\ M.chunked = r.chunked /\ M.error = r.error /\ M.written = r.written
    BY <1>1, <1>3, <1>5, <1>7 DEF Resp
  <2>2. r.body = NonEmpty(s) /\ Len(r.body) <= MaxPreloaded + 1
    BY <1>1, <1>3, <1>4, <1>7 DEF Whole
  <2> QED
    BY <1>2, <1>3, <2>1, <2>2 DEF Made, Processed
<1>8. CASE l.state # "all"
  <2>1. Len(r.body) \in 1 .. MaxPreloaded + 1
    BY <1>1, <1>8
  <2>2. r.pre > 0 /\ Len(r.body) <= MaxPreloaded + 1
    <3>1. r.body # <<>>
      BY <1>4, <2>1, EmptySeq
    <3> QED
      BY <1>3, <1>4, <2>1, <3>1
  <2>3. CASE s.length > 0
    <3>1. M = [r EXCEPT !.total = s.length] /\ s.length \in Nat
      BY <1>0, <1>5, <1>8, <2>3
    <3>2. /\ M \in Resp /\ M.body = r.body /\ M.pre = r.pre
          /\ M.total = s.length /\ M.iter = r.iter /\ M.pos = r.pos
          /\ M.chunked = r.chunked /\ M.error = r.error /\ M.written = r.written
      BY <1>1, <3>1 DEF Resp
    <3> QED
      BY <1>2, <1>3, <2>2, <2>3, <3>2 DEF Made, Processed
  <2>4. CASE s.length <= 0
    <3>1. M = [r EXCEPT !.chunked = 1]
      BY <1>0, <1>5, <1>8, <2>4
    <3>2. /\ M \in Resp /\ M.body = r.body /\ M.pre = r.pre
          /\ M.total = r.total /\ M.iter = r.iter /\ M.pos = r.pos
          /\ M.chunked = 1 /\ M.error = r.error /\ M.written = r.written
      BY <1>1, <3>1 DEF Resp
    <3> QED
      BY <1>2, <1>3, <2>2, <3>2 DEF Made, Processed
  <2> QED
    BY <1>0, <2>3, <2>4
<1> QED
  BY <1>6, <1>7, <1>8

(* A bytes object is its only item. *)
LEMMA BytesBody ==
  ASSUME NEW s \in AnyBody, s.kind = "bytes"
  PROVE  /\ s.items[1] \in Nat
         /\ NonEmpty(s) = IF s.items[1] = 0 THEN <<>> ELSE <<1>>
         /\ Bytes(s, NonEmpty(s)) = s.items[1] /\ NonEmpty(s) \in Given(s)
<1>1. s.items \in Seq(Int) /\ Len(s.items) = 1 /\ s.items[1] >= 0
  BY BodyType
<1>2. s.items[1] \in Nat
  BY <1>1
<1>3. NonEmptyUpTo(s)[0] = <<>> /\ NonEmptyUpTo(s)[1] =
        IF s.items[1] = 0 THEN NonEmptyUpTo(s)[1 - 1]
                          ELSE Append(NonEmptyUpTo(s)[1 - 1], 1)
  BY <1>1, NonEmptyUpToIs
<1>4. Append(<<>>, 1) = <<1>>
  OBVIOUS
<1>5. NonEmpty(s) = IF s.items[1] = 0 THEN <<>> ELSE <<1>>
  <2>1. NonEmpty(s) = NonEmptyUpTo(s)[1]
    BY <1>1 DEF NonEmpty
  <2>2. 1 - 1 = 0
    OBVIOUS
  <2> QED
    BY <1>3, <1>4, <2>1, <2>2, Zenon
<1>6. NonEmpty(s) \in Given(s) /\ Bytes(s, NonEmpty(s)) = s.items[1]
  <2>1. <<>> \in Given(s) /\ Bytes(s, <<>>) = 0
    BY <1>1, BytesOfNone DEF Given
  <2>2. <<1>> \in Given(s) /\ Bytes(s, <<1>>) = s.items[1]
    BY <1>1, BytesOfOne
  <2> QED
    BY <1>5, <2>1, <2>2
<1> QED
  BY <1>2, <1>5, <1>6

LEMMA BodyIsMade ==
  ASSUME NEW s \in AnyBody, NEW r,
         \/ s.kind = "bytes" /\ r = FreshResp
         \/ s.kind # "bytes" /\ Started(s, r)
  PROVE  Processed(s, wsgi_body_preload(s, r))
<1> DEFINE P == wsgi_body_preload(s, r)
           l == Loaded(s, r)
<1> SUFFICES Processed(s, P)
  OBVIOUS
<1>0. s.items \in Seq(Int) /\ MaxPreloaded \in Nat
  BY BodyType, SizesAssumption
<1>1. CASE s.kind = "bytes"
  <2> DEFINE d == IF s.items[1] = 0 THEN <<>> ELSE <<1>>
             b == s.items[1]
  <2>1. P = [r EXCEPT !.body = d, !.pre = b, !.total = b]
    BY <1>1, Zenon DEF wsgi_body_preload
  <2>2. /\ b \in Nat /\ d = NonEmpty(s) /\ b = Bytes(s, d) /\ d \in Given(s)
        /\ d \in Seq(Nat) /\ Len(d) <= 1 /\ (b = 0 => d = <<>>)
    <3>1. b \in Nat /\ d = NonEmpty(s) /\ b = Bytes(s, d) /\ d \in Given(s)
      BY <1>1, BytesBody
    <3>2. <<>> \in Seq(Nat) /\ <<1>> \in Seq(Nat) /\ Len(<<>>) = 0
          /\ Len(<<1>>) = 1
      OBVIOUS
    <3>3. d \in Seq(Nat) /\ Len(d) <= 1 /\ (b = 0 => d = <<>>)
      BY <3>2
    <3> QED
      BY <3>1, <3>3
  <2>3. r \in Resp /\ r.chunked = 0 /\ r.written = 0 /\ r.error = FALSE
    <3>1. r = FreshResp
      BY <1>1
    <3> QED
      BY <3>1, FreshRespType DEF FreshResp
  <2> HIDE DEF P, b, d
  <2>4. /\ P \in Resp /\ P.body = d /\ P.pre = b /\ P.total = b
        /\ P.chunked = 0 /\ P.written = 0 /\ P.error = FALSE
    BY <2>1, <2>2, <2>3 DEF Resp
  <2>5. Len(d) <= MaxPreloaded + 1
    <3>1. Len(d) \in Nat
      BY <2>2
    <3> QED
      BY <1>0, <2>2, <3>1
  <2>6. /\ P.body \in Given(s) /\ P.body = NonEmpty(s)
        /\ P.pre = Bytes(s, P.body) /\ P.total = P.pre
        /\ P.pre = 0 => P.body = <<>>
    BY <2>2, <2>4, Zenon
  <2>7. Len(P.body) <= MaxPreloaded + 1
    BY <2>4, <2>5
  <2> QED
    BY <2>4, <2>6, <2>7, Zenon DEF Made, Processed
<1>2. CASE s.kind # "bytes" /\ s.length = 0
  <2>1. P = [r EXCEPT !.pre = 0, !.total = 0]
    BY <1>2, Zenon DEF wsgi_body_preload
  <2>2. /\ r \in Held /\ r.chunked = 0 /\ r.written = 0 /\ r.error = FALSE
        /\ r.body \in Given(s) /\ Len(r.body) <= 1 /\ r.body \in Seq(Nat)
    BY <1>0, <1>2, StartedType
  <2> HIDE DEF P
  <2>3. /\ P \in Resp /\ P.body = r.body /\ P.pre = 0 /\ P.total = 0
        /\ P.chunked = 0 /\ P.written = 0 /\ P.error = FALSE
    BY <2>1, <2>2 DEF Resp, Held
  <2>4. Len(P.body) <= MaxPreloaded + 1
    <3>1. Len(r.body) \in Nat
      BY <2>2
    <3> QED
      BY <1>0, <2>2, <2>3, <3>1
  <2> QED
    BY <1>2, <2>2, <2>3, <2>4 DEF Made, Processed
<1>3. CASE s.kind # "bytes" /\ s.length # 0
  <2>1. P = IF l.resp.error THEN l.resp ELSE Measured(s, l)
    BY <1>3, Zenon DEF wsgi_body_preload
  <2>2. l \in Loops(s) /\ l.state # "more"
    BY <1>0, <1>3, LoopStops DEF Started
  <2> HIDE DEF l, P
  <2>3. l.resp.error \in BOOLEAN
    BY <2>2 DEF Loops, Held
  <2>4. CASE l.resp.error = TRUE
    <3>1. P.error = TRUE
      BY <2>1, <2>4
    <3>2. Bad(s)
      BY <2>2, <2>4 DEF Loops, Loop, Filled
    <3> QED
      BY <1>0, <3>1, <3>2, SoundBody DEF Processed
  <2>5. CASE l.resp.error = FALSE
    BY <2>1, <2>2, <2>5, MeasuredIsMade
  <2> QED
    BY <2>3, <2>4, <2>5
<1> QED
  BY <1>1, <1>2, <1>3

(* What process_wsgi_response makes of whatever an application returns.    *)
LEMMA ResponseIsMade ==
  ASSUME NEW s \in AnyBody
  PROVE  Processed(s, process_wsgi_response(s, FreshResp))
<1> DEFINE r == [FreshResp EXCEPT !.iter = (s.kind # "bytes")]
           first == wsgi_iterator_get_next_chunk(s, r)
           g == [first EXCEPT !.total = Generator,
                   !.body = IF first.item = 0 THEN <<>> ELSE <<first.item>>,
                   !.pre = IF first.item = 0 THEN 0 ELSE s.items[first.item]]
           Refused == \/ s.kind = "notIterable" \/ s.length = Malformed
                      \/ s.kind = "generator" /\ first.error
           P == process_wsgi_response(s, FreshResp)
<1> SUFFICES Processed(s, P)
  OBVIOUS
<1>0. s.items \in Seq(Int)
  BY BodyType
<1>1. P = IF Refused THEN [r EXCEPT !.error = TRUE]
          ELSE wsgi_body_preload(s, IF s.kind = "generator" THEN g ELSE r)
  BY Zenon DEF process_wsgi_response
<1>2. ASSUME s.kind = "bytes" PROVE r = FreshResp
  <2>1. r = [FreshResp EXCEPT !.iter = FALSE]
    BY <1>2
  <2>2. FreshResp \in Resp /\ FreshResp.iter = FALSE
    BY FreshRespType DEF FreshResp
  <2> HIDE DEF r
  <2> QED
    BY <2>1, <2>2 DEF Resp
<1>3. ASSUME s.kind # "bytes"
      PROVE  Started(s, r) /\ Fetched(s, first, 1)
  <2>1. r = [FreshResp EXCEPT !.iter = TRUE]
    BY <1>3
  <2>2. Filled(s, r) /\ r.body = <<>> /\ Started(s, r)
    BY <1>0, <2>1, FreshIsFilled
  <2> HIDE DEF r
  <2>3. Fetched(s, first, Len(<<>>) + 1)
    BY <1>0, <2>2, FilledFetches
  <2>4. Len(<<>>) + 1 = 1
    OBVIOUS
  <2> QED
    BY <2>2, <2>3, <2>4
<1>4. ASSUME s.kind = "generator"
      PROVE  \/ first.error = TRUE /\ Bad(s)
             \/ first.error = FALSE /\ Started(s, g)
  <2>1. Fetched(s, first, 1)
    BY <1>3, <1>4
  <2> HIDE DEF first
  <2> QED
    BY <1>0, <2>1, GeneratorBegins
<1>5. [r EXCEPT !.error = TRUE].error = TRUE
  BY DEF FreshResp
<1> HIDE DEF r, first, g, P
<1>6. CASE Refused
  <2>1. P.error = TRUE
    BY <1>1, <1>5, <1>6
  <2>2. ~Sound(s)
    <3> SUFFICES ASSUME Sound(s) PROVE FALSE
      OBVIOUS
    <3>1. /\ ~Bad(s) /\ Bytes(s, NonEmpty(s)) \in Nat
          /\ s.length \in {-1, Bytes(s, NonEmpty(s))} /\ s.kind # "notIterable"
      BY <1>0, SoundBody
    <3>2. s.length # Malformed
      BY <3>1 DEF Malformed
    <3>3. s.kind = "generator" /\ first.error
      BY <1>6, <3>1, <3>2
    <3> QED
      BY <1>4, <3>1, <3>3
  <2> QED
    BY <2>1, <2>2 DEF Processed
<1>7. CASE ~Refused
  <2>1. CASE s.kind = "bytes"
    <3>1. P = wsgi_body_preload(s, FreshResp)
      BY <1>1, <1>2, <1>7, <2>1
    <3> QED
      BY <2>1, <3>1, BodyIsMade
  <2>2. CASE s.kind = "generator"
    <3>1. P = wsgi_body_preload(s, g) /\ Started(s, g)
      BY <1>1, <1>4, <1>7, <2>2
    <3> QED
      BY <2>2, <3>1, BodyIsMade
  <2>3. CASE s.kind # "bytes" /\ s.kind # "generator"
    <3>1. P = wsgi_body_preload(s, r) /\ Started(s, r)
      BY <1>1, <1>3, <1>7, <2>3
    <3> QED
      BY <2>3, <3>1, BodyIsMade
  <2> QED
    BY <2>1, <2>2, <2>3
<1> QED
  BY <1>6, <1>7

-----------------------------------------------------------------------------
(* A response on its way.                                                  *)

(* What was written is what the iterator has given so far. *)
Partly(s, r, d) ==
  /\ r.iter = TRUE /\ r.pos \in 0 .. Len(s.items) /\ AllBytes(s, r.pos)
  /\ d = NonEmptyUpTo(s)[r.pos]

(* While a write is under way: pre of the bytes are in it.                 *)
OnItsWay(s, r, w) ==
  \/ /\ s.bodiless # "no" /\ r = FreshResp
     /\ w.data = <<>> /\ w.ended = FALSE
  \/ /\ s.bodiless = "no" /\ w.torn = FALSE /\ r.error = FALSE
     /\ w.data \in Given(s) /\ r.written + r.pre = Bytes(s, w.data)
     /\ \/ /\ r.chunked = 0 /\ w.ended = FALSE /\ w.head = r.total
           /\ w.data = NonEmpty(s) /\ r.total = Bytes(s, w.data)
        \/ /\ r.chunked = 0 /\ w.ended = FALSE /\ w.head = r.total
           /\ s.length = 0 /\ r.total = 0 /\ w.data = <<>>
        \/ /\ r.chunked = 0 /\ w.ended = FALSE /\ w.head = r.total
           /\ r.total = s.length /\ s.length > 0 /\ Partly(s, r, w.data)
        \/ /\ r.chunked = 1 /\ w.ended = FALSE /\ w.head = Chunks
           /\ Partly(s, r, w.data)
        \/ /\ r.chunked = 2 /\ w.ended = TRUE /\ w.head = Chunks
           /\ w.data = NonEmpty(s)

LEMMA FirstWrite ==
  ASSUME NEW s \in AnyBody, NEW r, Made(s, r)
  PROVE  LET b == build_response(s, r)
             w == stream_write(s, [Unwritten EXCEPT !.head = Announced(s, b)], b)
         IN /\ b \in Resp /\ Len(b.body) <= MaxPreloaded + 1
            /\ w \in Wire /\ OnItsWay(s, b, w)
<1> DEFINE b == build_response(s, r)
           h == Announced(s, b)
           w == stream_write(s, [Unwritten EXCEPT !.head = h], b)
           D == IF b.pre > 0 THEN <<>> \o b.body ELSE <<>>
           T == b.chunked = 1 /\ (b.pre = 0 \/ b.pre # Bytes(s, b.body))
<1> SUFFICES /\ b \in Resp /\ Len(b.body) <= MaxPreloaded + 1
             /\ w \in Wire /\ OnItsWay(s, b, w)
  OBVIOUS
<1>0. /\ s \in Source /\ s.items \in Seq(Int) /\ MaxPreloaded \in Nat
      /\ s.length \in {-1, -2} \cup Nat
  BY BodyType, SizesAssumption DEF Source, Absent, Malformed
<1>1. /\ r \in Resp /\ r.error = FALSE /\ r.written = 0 /\ r.body \in Given(s)
      /\ Len(r.body) <= MaxPreloaded + 1 /\ r.pre \in Nat /\ r.total \in Nat
      /\ r.body \in Seq(Nat) /\ r.chunked \in 0 .. 2
  BY DEF Made, Resp
<1>2. w = [head |-> h, data |-> D, torn |-> T, ended |-> (b.chunked = 2)]
  <2> HIDE DEF b, h
  <2>1. w = [[Unwritten EXCEPT !.head = h] EXCEPT !.data = D, !.torn = T,
                                  !.ended = (b.chunked = 2)]
    BY DEF stream_write, Unwritten
  <2> HIDE DEF w, D, T
  <2> QED
    BY <2>1 DEF Unwritten
<1>3. CASE s.bodiless # "no"
  <2>1. b = FreshResp
    BY <1>3 DEF build_response, reset_response_body
  <2>2. /\ b \in Resp /\ b.pre = 0 /\ b.chunked = 0 /\ b.total = 0
        /\ Len(b.body) = 0
    BY <2>1, FreshRespType DEF FreshResp
  <2>3. h \in {-1, -2} \cup Nat
    BY <1>0, <2>2 DEF Announced
  <2> HIDE DEF b, h
  <2>4. D = <<>> /\ T = FALSE /\ (b.chunked = 2) = FALSE /\ <<>> \in Seq(Nat)
    BY <2>2
  <2> HIDE DEF w, D, T
  <2>5. w = [head |-> h, data |-> <<>>, torn |-> FALSE, ended |-> FALSE]
    BY <1>2, <2>4
  <2>6. w \in Wire
    BY <2>3, <2>4, <2>5 DEF Wire, Chunks, NoLength
  <2> QED
    BY <1>0, <1>3, <2>1, <2>2, <2>5, <2>6 DEF OnItsWay
<1>4. CASE s.bodiless = "no"
  <2>1. b = r
    BY <1>4 DEF build_response
  <2>2. h = IF r.chunked # 0 THEN Chunks ELSE r.total
    BY <1>4, <2>1 DEF Announced
  <2>3. h \in {Chunks, NoLength} \cup Nat
    BY <1>1, <2>2
  <2> HIDE DEF b, h
  <2>4. /\ D = (IF r.pre > 0 THEN r.body ELSE <<>>)
        /\ D \in Given(s) /\ D \in Seq(Nat)
    <3>1. <<>> \o r.body = r.body
      BY <1>1, ConcatEmptySeq
    <3>2. <<>> \in Given(s) /\ <<>> \in Seq(Nat)
      BY DEF Given
    <3> QED
      BY <1>1, <2>1, <3>1, <3>2
  <2>5. T \in BOOLEAN /\ (b.chunked = 2) \in BOOLEAN
    OBVIOUS
  <2>6. T = FALSE /\ (b.chunked = 2) = FALSE
    BY <1>1, <2>1 DEF Made
  <2> HIDE DEF w, D, T
  <2>7. w \in Wire
    BY <1>2, <2>3, <2>4, <2>5 DEF Wire
  <2>8. w.head = h /\ w.data = D /\ w.torn = FALSE /\ w.ended = FALSE
    BY <1>2, <2>6
  <2>9. r.pre = Bytes(s, D) /\ r.written + r.pre = Bytes(s, D)
    <3>1. Bytes(s, <<>>) = 0
      BY <1>0, BytesOfNone
    <3>2. r.pre = Bytes(s, D)
      BY <1>1, <2>4, <3>1 DEF Made
    <3> QED
      BY <1>1, <3>2
  <2>10. OnItsWay(s, r, w)
    <3>1. CASE /\ r.chunked = 0 /\ r.body = NonEmpty(s)
               /\ r.pre = Bytes(s, r.body) /\ r.total = r.pre
               /\ r.pre = 0 => r.body = <<>>
      <4>1. D = NonEmpty(s)
        BY <1>1, <2>4, <3>1
      <4>2. /\ w.ended = FALSE /\ w.head = r.total /\ w.data = NonEmpty(s)
            /\ r.total = Bytes(s, w.data) /\ r.written + r.pre = Bytes(s, w.data)
            /\ w.data \in Given(s)
        BY <1>1, <2>2, <2>4, <2>8, <2>9, <3>1, <4>1
      <4> QED
        BY <1>1, <1>4, <2>8, <3>1, <4>2 DEF OnItsWay
    <3>2. CASE s.length = 0 /\ r.pre = 0 /\ r.total = 0 /\ r.chunked = 0
      <4>2. D = <<>>
        BY <2>4, <3>2
      <4>1. /\ w.ended = FALSE /\ w.head = r.total /\ w.data = <<>>
            /\ r.written + r.pre = Bytes(s, w.data) /\ w.data \in Given(s)
        <5>1. h = r.total
          BY <2>2, <3>2
        <5>2. D \in Given(s)
          BY <2>4
        <5> QED
          BY <2>8, <2>9, <4>2, <5>1, <5>2
      <4> QED
        BY <1>1, <1>4, <2>8, <3>2, <4>1 DEF OnItsWay
    <3>3. CASE /\ r.iter = TRUE /\ r.pos \in 0 .. Len(s.items)
               /\ AllBytes(s, r.pos) /\ r.body = NonEmptyUpTo(s)[r.pos]
               /\ r.pre = Bytes(s, r.body) /\ r.pre > 0
               /\ \/ r.chunked = 0 /\ r.total = s.length /\ s.length > 0
                  \/ r.chunked = 1 /\ r.total = 0
      <4>1. /\ w.ended = FALSE /\ w.data = r.body /\ w.data \in Given(s)
            /\ r.written + r.pre = Bytes(s, w.data)
        BY <1>1, <2>4, <2>8, <2>9, <3>3
      <4>2. Partly(s, r, w.data)
        BY <3>3, <4>1 DEF Partly
      <4>3. /\ r.chunked = 0 => w.head = r.total
            /\ r.chunked = 1 => w.head = Chunks
        BY <2>2, <2>8
      <4> QED
        BY <1>1, <1>4, <2>8, <3>3, <4>1, <4>2, <4>3 DEF OnItsWay
    <3> QED
      BY <3>1, <3>2, <3>3 DEF Made
  <2> QED
    BY <1>1, <2>1, <2>7, <2>10
<1> QED
  BY <1>3, <1>4

LEMMA SentType ==
  ASSUME TypeOK
  PROVE  /\ Sent \in Resp /\ Sent.body = <<>> /\ Sent.pre = 0
         /\ Sent.total = resp.total /\ Sent.written = resp.written + resp.pre
         /\ Sent.chunked = resp.chunked /\ Sent.iter = resp.iter
         /\ Sent.pos = resp.pos /\ Sent.error = resp.error
<1> DEFINE n == resp.written + resp.pre
<1>1. resp \in Resp
  BY DEF TypeOK
<1>2. n \in Nat
  BY <1>1 DEF Resp
<1>3. Sent = [resp EXCEPT !.body = <<>>, !.pre = 0, !.written = n]
  BY <1>1 DEF Sent, reset_response_preload, Resp
<1>4. <<>> \in Seq(Nat)
  OBVIOUS
<1> HIDE DEF n
<1>5. /\ Sent \in Resp /\ Sent.body = <<>> /\ Sent.pre = 0
      /\ Sent.total = resp.total /\ Sent.written = n
      /\ Sent.chunked = resp.chunked /\ Sent.iter = resp.iter
      /\ Sent.pos = resp.pos /\ Sent.error = resp.error
  BY <1>1, <1>2, <1>3, <1>4 DEF Resp
<1> QED
  BY <1>5 DEF n

LEMMA BodyOfState ==
  ASSUME TypeOK
  PROVE  src \in AnyBody /\ src.items \in Seq(Int) /\ src.length \in Int
<1>1. src \in AnyBody
  BY DEF TypeOK, AnyBody
<1> QED
  BY <1>1, BodyType, SizesAssumption DEF Source, Absent, Malformed

(* While more is to be written, the iterator is asked for it. *)
LEMMA MoreToWrite ==
  ASSUME TypeOK, OnItsWay(src, resp, wire), ~Complete
  PROVE  /\ src.bodiless = "no" /\ wire.torn = FALSE /\ wire.ended = FALSE
         /\ wire.data \in Given(src) /\ Sent.written = Bytes(src, wire.data)
         /\ resp.error = FALSE /\ Partly(src, Sent, wire.data)
         /\ \/ /\ resp.chunked = 0 /\ wire.head = resp.total
               /\ resp.total = src.length /\ src.length > 0
            \/ resp.chunked = 1 /\ wire.head = Chunks
         /\ \/ Ends(src, Sent, Pulled) \/ Fails(src, Sent, Pulled)
            \/ Gives(src, Sent, Pulled)
<1>1. /\ Sent \in Resp /\ Sent.total = resp.total
      /\ Sent.written = resp.written + resp.pre
      /\ Sent.chunked = resp.chunked /\ Sent.iter = resp.iter
      /\ Sent.pos = resp.pos /\ Sent.error = resp.error
  BY SentType
<1>2. src.bodiless = "no"
  <2> SUFFICES ASSUME src.bodiless # "no" PROVE FALSE
    OBVIOUS
  <2>1. resp.chunked = 0 /\ resp.written = 0 /\ resp.pre = 0 /\ resp.total = 0
    BY DEF OnItsWay, FreshResp
  <2> QED
    BY <1>1, <2>1 DEF Complete
<1>3. /\ wire.torn = FALSE /\ wire.data \in Given(src) /\ resp.error = FALSE
      /\ resp.written + resp.pre = Bytes(src, wire.data)
  BY <1>2 DEF OnItsWay
<1>4. resp.chunked # 2 /\ ~(resp.chunked = 0 /\ Bytes(src, wire.data) = resp.total)
  BY <1>1, <1>3 DEF Complete
<1>5. /\ wire.ended = FALSE /\ Partly(src, resp, wire.data)
      /\ \/ /\ resp.chunked = 0 /\ wire.head = resp.total
            /\ resp.total = src.length /\ src.length > 0
         \/ resp.chunked = 1 /\ wire.head = Chunks
  <2>1. ASSUME wire.data = <<>> PROVE Bytes(src, wire.data) = 0
    BY <2>1, BodyOfState, BytesOfNone
  <2> QED
    BY <1>2, <1>4, <2>1 DEF OnItsWay
<1>6. Partly(src, Sent, wire.data)
  BY <1>1, <1>5 DEF Partly
<1>7. Pulled = PyIter_Next(src, Sent)
  <2>1. Sent.iter = TRUE /\ Sent.total # Generator
    BY <1>1, <1>6 DEF Partly, Resp, Generator
  <2> QED
    BY <2>1, Zenon DEF Pulled, wsgi_iterator_get_next_chunk
<1>8. \/ Ends(src, Sent, Pulled) \/ Fails(src, Sent, Pulled)
      \/ Gives(src, Sent, Pulled)
  <2>1. Sent.pos \in 0 .. Len(src.items)
    BY <1>6 DEF Partly
  <2> QED
    BY <1>7, <2>1, BodyOfState, NextItem
<1> QED
  BY <1>1, <1>2, <1>3, <1>5, <1>6, <1>8

(* What was written is a beginning of the body. *)
LEMMA WrittenIsPrefix ==
  ASSUME NEW s, s.items \in Seq(Int)
  PROVE  /\ \A n \in 0 .. Len(s.items) : IsPrefix(NonEmptyUpTo(s)[n], NonEmpty(s))
         /\ IsPrefix(<<>>, NonEmpty(s)) /\ IsPrefix(NonEmpty(s), NonEmpty(s))
<1> DEFINE m == Len(s.items)
           U == NonEmptyUpTo(s)
<1>1. m \in Nat /\ 0 \in 0 .. m /\ m \in 0 .. m
  OBVIOUS
<1>2. U[0] = <<>> /\ \A n \in 0 .. m : U[n] \in Given(s)
  BY NonEmptyUpToIs
<1>3. ASSUME NEW n \in 0 .. m PROVE IsPrefix(U[n], U[m])
  <2>1. m \in n .. m
    BY <1>1
  <2>2. Continues(s, U[n], U[m])
    BY <2>1, Extends
  <2>3. U[n] \in Given(s) /\ U[m] \in Given(s)
    BY <1>1, <1>2
  <2> HIDE DEF U, m
  <2> QED
    BY <2>2, <2>3, ContinuesIsPrefix
<1>4. IsPrefix(U[0], U[m]) /\ IsPrefix(U[m], U[m])
  BY <1>1, <1>3
<1>5. IsPrefix(<<>>, U[m])
  BY <1>2, <1>4
<1> QED
  BY <1>3, <1>4, <1>5 DEF NonEmpty

LEMMA OnItsWayIsPrefix ==
  ASSUME NEW s, s.items \in Seq(Int), NEW r, NEW w, OnItsWay(s, r, w)
  PROVE  IsPrefix(w.data, NonEmpty(s))
<1>1. \/ w.data = <<>> \/ w.data = NonEmpty(s)
      \/ \E n \in 0 .. Len(s.items) : w.data = NonEmptyUpTo(s)[n]
  BY DEF OnItsWay, Partly
<1> QED
  BY <1>1, WrittenIsPrefix

(* A response that is kept: the parts of KeptOnlyWhole, and of             *)
(* SoundBodiesAreSent.                                                     *)
Kept(s, w) ==
  /\ s.bodiless # "no" => w.data = <<>> /\ w.ended = FALSE
  /\ s.bodiless = "no" /\ w.head = Chunks =>
       w.ended = TRUE /\ w.torn = FALSE /\ w.data = NonEmpty(s)
  /\ s.bodiless = "no" /\ w.head # Chunks =>
       /\ Bytes(s, w.data) = w.head \/ FallsShort(s)
       /\ w.data = NonEmpty(s) \/ w.head = s.length
  /\ Sound(s) /\ s.bodiless = "no" => w.data = NonEmpty(s)

LEMMA CompleteIsKept ==
  ASSUME TypeOK, OnItsWay(src, resp, wire), Complete
  PROVE  Kept(src, wire)
<1>1. /\ Sent.total = resp.total /\ Sent.written = resp.written + resp.pre
      /\ Sent.chunked = resp.chunked /\ resp.total \in Nat
  BY SentType DEF TypeOK, Resp
<1>2. src.items \in Seq(Int) /\ src.length \in Int
  BY BodyOfState
<1>3. resp.chunked = 2
      \/ (resp.chunked = 0 /\ resp.written + resp.pre = resp.total)
  BY <1>1 DEF Complete
<1>4. CASE src.bodiless # "no"
  BY <1>4 DEF OnItsWay, Kept
<1>5. CASE src.bodiless = "no"
  <2>1. wire.torn = FALSE /\ resp.written + resp.pre = Bytes(src, wire.data)
    BY <1>5 DEF OnItsWay
  <2>2. CASE resp.chunked = 2
    <3>1. wire.ended = TRUE /\ wire.head = Chunks /\ wire.data = NonEmpty(src)
      BY <1>5, <2>2 DEF OnItsWay
    <3> QED
      BY <1>5, <2>1, <3>1 DEF Kept
  <2>3. CASE resp.chunked = 0 /\ Bytes(src, wire.data) = resp.total
    <3>1. wire.head = resp.total /\ wire.head # Chunks
      BY <1>1, <1>5, <2>3 DEF OnItsWay, Chunks
    <3>2. CASE wire.data = NonEmpty(src)
      BY <1>5, <2>3, <3>1, <3>2 DEF Kept
    <3>3. CASE wire.data # NonEmpty(src)
      <4>1. wire.head = src.length
        BY <1>5, <2>3, <3>1, <3>3 DEF OnItsWay
      <4>2. ~Sound(src)
        <5> SUFFICES ASSUME Sound(src) PROVE FALSE
          OBVIOUS
        <5>1. \E n \in 0 .. Len(src.items) : wire.data = NonEmptyUpTo(src)[n]
          <6>1. NonEmptyUpTo(src)[0] = <<>> /\ 0 \in 0 .. Len(src.items)
            BY <1>2, NonEmptyUpToIs
          <6> QED
            BY <1>5, <2>3, <3>3, <6>1 DEF OnItsWay, Partly
        <5>2. PICK n \in 0 .. Len(src.items) : wire.data = NonEmptyUpTo(src)[n]
          BY <5>1
        <5>3. /\ Bytes(src, NonEmpty(src)) \in Nat
              /\ src.length \in {-1, Bytes(src, NonEmpty(src))}
              /\ AllBytes(src, Len(src.items))
          BY <1>2, SoundBody
        <5>4. src.length = Bytes(src, NonEmpty(src))
          BY <1>1, <3>1, <4>1, <5>3
        <5>5. Bytes(src, wire.data) = Bytes(src, NonEmpty(src))
          BY <2>3, <3>1, <4>1, <5>4
        <5>6. Len(src.items) \in n .. Len(src.items)
          BY <1>2
        <5>7. wire.data = NonEmpty(src)
          BY <1>2, <5>2, <5>3, <5>5, <5>6, Grows DEF NonEmpty
        <5> QED
          BY <3>3, <5>7
      <4> QED
        BY <1>5, <2>3, <3>1, <4>1, <4>2 DEF Kept
    <3> QED
      BY <3>2, <3>3
  <2> QED
    BY <1>3, <2>1, <2>2, <2>3
<1> QED
  BY <1>4, <1>5

(* The iterator ended before Content-Length was reached. *)
LEMMA ShortIsKept ==
  ASSUME TypeOK, OnItsWay(src, resp, wire), ~Complete, ~OverLength,
         Pulled.item = 0, ~Pulled.error, resp.chunked = 0
  PROVE  Kept(src, wire)
<1>1. /\ src.bodiless = "no" /\ Sent.written = Bytes(src, wire.data)
      /\ Partly(src, Sent, wire.data)
      /\ wire.head = resp.total /\ resp.total = src.length
      /\ \/ Ends(src, Sent, Pulled) \/ Fails(src, Sent, Pulled)
         \/ Gives(src, Sent, Pulled)
  BY MoreToWrite
<1>2. /\ Sent \in Resp /\ Sent.total = resp.total
      /\ Sent.chunked = resp.chunked /\ resp.total \in Nat /\ Sent.written \in Nat
  BY SentType DEF TypeOK, Resp
<1>3. ~Fails(src, Sent, Pulled)
  BY <1>2 DEF Fails, Resp
<1>4. ~Gives(src, Sent, Pulled)
  <2> SUFFICES ASSUME NEW i \in 1 .. Len(src.items),
                      Pulled = [Sent EXCEPT !.pos = i, !.item = i]
               PROVE  FALSE
    BY DEF Gives
  <2>1. Pulled.item = i
    BY <1>2 DEF Resp
  <2> QED
    BY <2>1
<1>5. wire.data = NonEmpty(src)
  BY <1>1, <1>3, <1>4 DEF Ends, Partly
<1>6. Bytes(src, NonEmpty(src)) < src.length
  BY <1>1, <1>2, <1>5 DEF Complete, OverLength
<1>7. FallsShort(src) /\ wire.head # Chunks
  BY <1>1, <1>2, <1>6, BodyOfState DEF FallsShort, Chunks
<1> QED
  BY <1>1, <1>5, <1>7 DEF Kept

LEMMA ClosedIsUnsound ==
  ASSUME TypeOK, OnItsWay(src, resp, wire), ~Complete,
         OverLength \/ Pulled.error
  PROVE  ~Sound(src)
<1> SUFFICES ASSUME Sound(src) PROVE FALSE
  OBVIOUS
<1>1. /\ Sent.written = Bytes(src, wire.data) /\ resp.error = FALSE
      /\ Partly(src, Sent, wire.data)
      /\ \/ resp.chunked = 0 /\ resp.total = src.length /\ src.length > 0
         \/ resp.chunked = 1
      /\ \/ Ends(src, Sent, Pulled) \/ Fails(src, Sent, Pulled)
         \/ Gives(src, Sent, Pulled)
  BY MoreToWrite
<1>2. /\ Sent \in Resp /\ Sent.total = resp.total /\ Sent.error = FALSE
      /\ Sent.chunked = resp.chunked
  BY <1>1, SentType
<1>3. /\ src.items \in Seq(Int) /\ src.length \in Int /\ ~Bad(src)
      /\ Bytes(src, NonEmpty(src)) \in Nat
      /\ src.length \in {-1, Bytes(src, NonEmpty(src))}
      /\ AllBytes(src, Len(src.items))
  BY BodyOfState, SoundBody
<1>4. CASE OverLength
  <2>1. Sent.written > src.length /\ src.length > 0
    BY <1>1, <1>2, <1>4 DEF OverLength
  <2>2. /\ Sent.pos \in 0 .. Len(src.items)
        /\ wire.data = NonEmptyUpTo(src)[Sent.pos]
    BY <1>1 DEF Partly
  <2>3. Len(src.items) \in Sent.pos .. Len(src.items)
    BY <1>3, <2>2
  <2>4. Bytes(src, wire.data) <= Bytes(src, NonEmpty(src))
        /\ Bytes(src, wire.data) \in Int
    BY <1>3, <2>2, <2>3, Grows DEF NonEmpty
  <2> QED
    BY <1>1, <1>3, <2>1, <2>4
<1>5. CASE Pulled.error
  <2>1. ~Ends(src, Sent, Pulled)
    BY <1>2, <1>5 DEF Ends, Resp
  <2>2. ~Gives(src, Sent, Pulled)
    BY <1>2, <1>5 DEF Gives, Resp
  <2> QED
    BY <1>1, <1>3, <2>1, <2>2 DEF Fails, Bad
<1> QED
  BY <1>4, <1>5

(* The next item is written, or the last chunk. *)
LEMMA MoreIsOnItsWay ==
  ASSUME TypeOK, OnItsWay(src, resp, wire), ~Complete, ~OverLength,
         ~Pulled.error, Pulled.item # 0 \/ resp.chunked = 1
  PROVE  LET r == NextWrite(Pulled)
             w == stream_write(src, wire, r)
         IN /\ r \in Resp /\ Len(r.body) <= MaxPreloaded + 1
            /\ w \in Wire /\ OnItsWay(src, r, w)
<1> DEFINE r == NextWrite(Pulled)
           w == stream_write(src, wire, r)
           q == Pulled
           m == Len(src.items)
           U == NonEmptyUpTo(src)
           d == wire.data
<1> SUFFICES /\ r \in Resp /\ Len(r.body) <= MaxPreloaded + 1
             /\ w \in Wire /\ OnItsWay(src, r, w)
  OBVIOUS
<1>1. /\ src.bodiless = "no" /\ wire.torn = FALSE /\ wire.ended = FALSE
      /\ d \in Given(src) /\ Sent.written = Bytes(src, d)
      /\ Partly(src, Sent, d) /\ resp.error = FALSE
      /\ \/ /\ resp.chunked = 0 /\ wire.head = resp.total
            /\ resp.total = src.length /\ src.length > 0
         \/ resp.chunked = 1 /\ wire.head = Chunks
      /\ Ends(src, Sent, q) \/ Fails(src, Sent, q) \/ Gives(src, Sent, q)
  BY MoreToWrite
<1>2. /\ Sent \in Resp /\ Sent.body = <<>> /\ Sent.pre = 0
      /\ Sent.total = resp.total /\ Sent.chunked = resp.chunked
      /\ Sent.error = FALSE /\ Sent.written \in Nat
      /\ Sent.chunked \in {0, 1}
  BY <1>1, SentType DEF Resp
<1>3. /\ wire \in Wire /\ d \in Seq(Nat) /\ MaxPreloaded \in Nat
      /\ src.items \in Seq(Int)
      /\ wire.head \in {Chunks, NoLength} \cup Nat
  BY BodyOfState, SizesAssumption DEF TypeOK, Wire
<1>4. w = [head |-> wire.head,
           data |-> IF r.pre > 0 THEN d \o r.body ELSE d,
           torn |-> wire.torn \/ (r.chunked = 1
                      /\ (r.pre = 0 \/ r.pre # Bytes(src, r.body))),
           ended |-> (r.chunked = 2)]
  <2> DEFINE D == IF r.pre > 0 THEN d \o r.body ELSE d
             T == wire.torn \/ (r.chunked = 1
                    /\ (r.pre = 0 \/ r.pre # Bytes(src, r.body)))
             E == r.chunked = 2
  <2> HIDE DEF r
  <2>1. w = [wire EXCEPT !.data = D, !.torn = T, !.ended = E]
    BY DEF stream_write
  <2> HIDE DEF D, T, E, w
  <2>2. w = [head |-> wire.head, data |-> D, torn |-> T, ended |-> E]
    BY <1>3, <2>1 DEF Wire
  <2> QED
    BY <2>2 DEF D, T, E
<1>5. ~Fails(src, Sent, q)
  BY <1>2 DEF Fails, Resp
<1>6. /\ q.item # 0 => r = [q EXCEPT !.body = <<q.item>>,
                                     !.pre = src.items[q.item]]
      /\ q.item = 0 => r = [q EXCEPT !.chunked = 2]
  BY DEF NextWrite
<1> HIDE DEF r, w, q
<1>7. CASE Ends(src, Sent, q)
  <2>1. q = [Sent EXCEPT !.pos = m, !.item = 0] /\ d = NonEmpty(src)
    BY <1>1, <1>7 DEF Ends, Partly
  <2>2. /\ m \in Nat /\ q \in Resp /\ q.item = 0 /\ q.body = <<>>
        /\ q.pre = 0 /\ q.written = Sent.written /\ q.error = FALSE
    <3>1. m \in Nat
      BY <1>3
    <3> HIDE DEF m
    <3> QED
      BY <1>2, <2>1, <3>1 DEF Resp
  <2>3. resp.chunked = 1
    BY <2>2 DEF q
  <2>4. r = [q EXCEPT !.chunked = 2]
    BY <1>6, <2>2
  <2>5. /\ r \in Resp /\ r.body = <<>> /\ r.pre = 0 /\ r.chunked = 2
        /\ r.written = Sent.written /\ r.error = FALSE
    BY <2>2, <2>4 DEF Resp
  <2>6. w = [head |-> Chunks, data |-> d, torn |-> FALSE, ended |-> TRUE]
    <3>1. (IF r.pre > 0 THEN d \o r.body ELSE d) = d
      BY <2>5
    <3>2. (wire.torn \/ (r.chunked = 1
             /\ (r.pre = 0 \/ r.pre # Bytes(src, r.body)))) = FALSE
      BY <1>1, <2>5
    <3>3. (r.chunked = 2) = TRUE /\ wire.head = Chunks
      BY <1>1, <2>3, <2>5
    <3> QED
      BY <1>4, <3>1, <3>2, <3>3
  <2>7. w \in Wire
    BY <1>3, <2>6 DEF Wire
  <2>8. w.head = Chunks /\ w.data = d /\ w.torn = FALSE /\ w.ended = TRUE
    BY <2>6
  <2>9. r.written + r.pre = Bytes(src, w.data)
    BY <1>1, <1>2, <2>5, <2>8
  <2>10. Len(r.body) <= MaxPreloaded + 1
    <3>1. Len(<<>>) = 0
      OBVIOUS
    <3> QED
      BY <1>3, <2>5, <3>1
  <2> QED
    BY <1>1, <2>1, <2>5, <2>7, <2>8, <2>9, <2>10 DEF OnItsWay
<1>8. CASE Gives(src, Sent, q)
  <2>1. PICK i \in 1 .. m :
          /\ src.items[i] > 0 /\ q = [Sent EXCEPT !.pos = i, !.item = i]
          /\ U[i] = Append(U[Sent.pos], i)
          /\ AllBytes(src, Sent.pos) => AllBytes(src, i)
    BY <1>8 DEF Gives
  <2> DEFINE b == src.items[i]
  <2>2. i \in Nat /\ i # 0 /\ b \in Nat /\ b > 0 /\ <<i>> \in Seq(Nat)
        /\ Len(<<i>>) = 1
    <3>1. m \in Nat /\ \A j \in 1 .. m : src.items[j] \in Int
      BY <1>3
    <3>2. i \in Nat /\ i # 0
      BY <3>1
    <3>3. <<i>> \in Seq(Nat) /\ Len(<<i>>) = 1
      BY <3>2
    <3>4. b \in Nat /\ b > 0
      BY <2>1, <3>1
    <3> QED
      BY <3>2, <3>3, <3>4
  <2>3. q \in Resp /\ q.item = i
    BY <1>2, <2>1, <2>2 DEF Resp
  <2>4. r = [q EXCEPT !.body = <<i>>, !.pre = b]
    BY <1>6, <2>2, <2>3
  <2> HIDE DEF b, U
  <2>5. /\ r \in Resp /\ r.body = <<i>> /\ r.pre = b /\ r.pos = i
        /\ r.chunked = Sent.chunked /\ r.written = Sent.written
        /\ r.error = FALSE /\ r.iter = Sent.iter /\ r.total = Sent.total
    BY <1>2, <2>1, <2>2, <2>3, <2>4 DEF Resp
  <2> DEFINE e == d \o <<i>>
  <2>6. /\ e = U[i] /\ e \in Given(src) /\ e \in Seq(Nat)
        /\ Bytes(src, e) = Bytes(src, d) + b /\ Bytes(src, <<i>>) = b
    <3>1. d = U[Sent.pos]
      BY <1>1 DEF Partly, U
    <3>2. /\ Append(d, i) \in Given(src)
          /\ Bytes(src, Append(d, i)) = Bytes(src, d) + b
      BY <1>1, <1>3, BytesOfAppend DEF b
    <3>3. Append(d, i) = d \o <<i>>
      BY <1>3, <2>2, AppendIsConcat
    <3>4. Bytes(src, <<i>>) = b
      BY <1>3, BytesOfOne DEF b
    <3>5. d \o <<i>> \in Seq(Nat)
      BY <1>3, <2>2
    <3> QED
      BY <2>1, <3>1, <3>2, <3>3, <3>4, <3>5
  <2> HIDE DEF e
  <2>7. w = [head |-> wire.head, data |-> e, torn |-> FALSE, ended |-> FALSE]
    <3>1. (IF r.pre > 0 THEN d \o r.body ELSE d) = e
      BY <2>2, <2>5 DEF e
    <3>2. (wire.torn \/ (r.chunked = 1
             /\ (r.pre = 0 \/ r.pre # Bytes(src, r.body)))) = FALSE
      BY <1>1, <2>2, <2>5, <2>6
    <3>3. (r.chunked = 2) = FALSE
      BY <1>2, <2>5
    <3> QED
      BY <1>4, <3>1, <3>2, <3>3
  <2>8. w \in Wire
    BY <1>3, <2>6, <2>7 DEF Wire
  <2>9. w.head = wire.head /\ w.data = e /\ w.torn = FALSE /\ w.ended = FALSE
    BY <2>7
  <2>10. r.written + r.pre = Bytes(src, w.data)
    BY <1>1, <1>2, <2>5, <2>6, <2>9
  <2>11. Partly(src, r, w.data)
    BY <1>1, <2>1, <2>5, <2>6, <2>9 DEF Partly, U
  <2>12. Len(r.body) <= MaxPreloaded + 1
    BY <1>3, <2>2, <2>5
  <2> QED
    BY <1>1, <1>2, <2>5, <2>6, <2>8, <2>9, <2>10, <2>11, <2>12 DEF OnItsWay
<1> QED
  BY <1>1, <1>5, <1>7, <1>8

-----------------------------------------------------------------------------
(* The invariant.                                                          *)

Stands(p, s, r, w) ==
  /\ Len(r.body) <= MaxPreloaded + 1
  /\ p # "writing" => r = FreshResp
  /\ p = "called" => s = NoSource /\ w = Unwritten
  /\ p = "refused" => ~Sound(s) /\ w = Unwritten
  /\ p = "closed" => ~Sound(s) /\ IsPrefix(w.data, NonEmpty(s))
  /\ p = "kept" => Kept(s, w) /\ IsPrefix(w.data, NonEmpty(s))
  /\ p = "writing" => OnItsWay(s, r, w)

IInv == TypeOK /\ Stands(phase, src, resp, wire)

LEMMA Fresh ==
  /\ create_start_response \in StartResponse /\ FreshResp \in Resp
  /\ Unwritten \in Wire /\ Unwritten.data = <<>>
  /\ Len(FreshResp.body) <= MaxPreloaded + 1
  /\ ~Sound(NoSource) /\ NoSource \in AnyBody
<1>1. create_start_response \in StartResponse
  BY DEF create_start_response, StartResponse, Call
<1>2. Unwritten \in Wire /\ Unwritten.data = <<>>
  <2>1. <<>> \in Seq(Nat)
    OBVIOUS
  <2> QED
    BY <2>1 DEF Unwritten, Wire, NoLength
<1>3. Len(FreshResp.body) <= MaxPreloaded + 1
  <2>1. FreshResp.body = <<>> /\ Len(<<>>) = 0
    BY DEF FreshResp
  <2> QED
    BY <2>1, SizesAssumption
<1>4. ~Sound(NoSource) /\ NoSource \in AnyBody
  BY DEF Sound, NoSource, AnyBody
<1> QED
  BY <1>1, <1>2, <1>3, <1>4, FreshRespType

LEMMA CallType ==
  ASSUME NEW sr \in StartResponse, NEW call \in Call
  PROVE  start_response_call(sr, call) \in StartResponse
<1>1. CASE call = "arity"
  <2>1. start_response_call(sr, call) =
          [sr EXCEPT !.head = "NULL", !.refs = "owned"]
    BY <1>1, Zenon DEF start_response_call, Accepts
  <2> QED
    BY <2>1 DEF StartResponse
<1>2. CASE Accepts(sr, call)
  <2>1. call # "arity"
    BY <1>2 DEF Accepts
  <2>2. start_response_call(sr, call) =
          [called |-> TRUE, head |-> call, refs |-> "owned"]
    BY <1>2, <2>1, Zenon DEF start_response_call
  <2> QED
    BY <2>2 DEF StartResponse
<1>3. CASE call # "arity" /\ ~Accepts(sr, call)
  <2>1. start_response_call(sr, call) =
          [sr EXCEPT !.head = call, !.refs = "lent"]
    BY <1>3, Zenon DEF start_response_call
  <2> QED
    BY <2>1 DEF StartResponse
<1> QED
  BY <1>1, <1>2, <1>3

LEMMA Initially == Init => IInv
<1> SUFFICES ASSUME Init PROVE IInv
  OBVIOUS
<1>1. TypeOK
  BY Fresh DEF Init, TypeOK
<1>2. Stands(phase, src, resp, wire)
  BY Fresh DEF Init, Stands
<1> QED
  BY <1>1, <1>2 DEF IInv

LEMMA Step == IInv /\ [Next]_vars => IInv'
<1> SUFFICES ASSUME IInv, [Next]_vars PROVE IInv'
  OBVIOUS
<1>0. /\ TypeOK /\ Stands(phase, src, resp, wire) /\ src \in AnyBody
      /\ src \in Sources \cup {NoSource} /\ resp \in Resp /\ wire \in Wire
      /\ start \in StartResponse /\ src.items \in Seq(Int)
  BY BodyOfState DEF IInv, TypeOK
<1>1. CASE start_response
  <2>1. PICK call \in Call : start' = start_response_call(start, call)
    BY <1>1 DEF start_response
  <2>2. start' \in StartResponse
    BY <1>0, <2>1, CallType
  <2>3. UNCHANGED <<phase, src, resp, wire>>
    BY <1>1 DEF start_response
  <2> QED
    BY <1>0, <2>2, <2>3 DEF IInv, TypeOK
<1>2. CASE AppRaises
  <2>1. /\ phase = "called" /\ phase' = "refused"
        /\ UNCHANGED <<start, src, resp, wire>>
    BY <1>2 DEF AppRaises
  <2>2. src = NoSource /\ wire = Unwritten /\ resp = FreshResp
    BY <1>0, <2>1 DEF Stands
  <2>3. Stands("refused", src, resp, wire)
    BY <2>2, Fresh DEF Stands
  <2> QED
    BY <1>0, <2>1, <2>3 DEF IInv, TypeOK
<1>3. CASE Returns
  <2> DEFINE r == process_wsgi_response(src', resp)
             b == build_response(src', r)
             w == stream_write(src', [wire EXCEPT !.head = Announced(src', b)], b)
  <2>1. /\ phase = "called" /\ src' \in Sources
        /\ start' = create_start_response
        /\ IF r.error
           THEN phase' = "refused" /\ resp' = reset_response_body(r)
                /\ UNCHANGED wire
           ELSE phase' = "writing" /\ resp' = b /\ wire' = w
    BY <1>3 DEF Returns
  <2>2. resp = FreshResp /\ wire = Unwritten
    BY <1>0, <2>1 DEF Stands
  <2>3. src' \in AnyBody
    BY <2>1 DEF AnyBody
  <2>4. Processed(src', r)
    BY <2>2, <2>3, ResponseIsMade
  <2>5. CASE r.error = TRUE
    <3>1. /\ phase' = "refused" /\ resp' = FreshResp /\ wire' = Unwritten
      BY <2>1, <2>2, <2>5 DEF reset_response_body
    <3>2. ~Sound(src')
      BY <2>4, <2>5 DEF Processed, Made
    <3>3. Stands("refused", src', FreshResp, Unwritten)
      BY <3>2, Fresh DEF Stands
    <3>4. TypeOK'
      BY <2>1, <3>1, Fresh DEF TypeOK
    <3> QED
      BY <3>1, <3>3, <3>4 DEF IInv
  <2>6. CASE Made(src', r)
    <3>1. r.error = FALSE
      BY <2>6 DEF Made
    <3>2. phase' = "writing" /\ resp' = b /\ wire' = w
      BY <2>1, <3>1
    <3>3. /\ b \in Resp /\ Len(b.body) <= MaxPreloaded + 1
          /\ w \in Wire /\ OnItsWay(src', b, w)
      BY <2>2, <2>3, <2>6, FirstWrite
    <3> HIDE DEF b, w
    <3>4. Stands("writing", src', b, w)
      BY <3>3 DEF Stands
    <3>5. TypeOK'
      BY <2>1, <3>2, <3>3, Fresh DEF TypeOK
    <3> QED
      BY <3>2, <3>4, <3>5 DEF IInv
  <2> QED
    BY <2>4, <2>5, <2>6 DEF Processed
<1>4. CASE Finish
  <2>1. /\ phase = "writing" /\ phase' = "kept" /\ resp' = FreshResp
        /\ UNCHANGED <<start, src, wire>>
        /\ \/ Complete
           \/ /\ ~Complete /\ ~OverLength /\ Pulled.item = 0 /\ ~Pulled.error
              /\ resp.chunked = 0
    BY <1>4 DEF Finish, reset_response_body
  <2>2. OnItsWay(src, resp, wire)
    BY <1>0, <2>1 DEF Stands
  <2>3. Kept(src, wire) /\ IsPrefix(wire.data, NonEmpty(src))
    BY <1>0, <2>1, <2>2, CompleteIsKept, ShortIsKept, OnItsWayIsPrefix
  <2>4. Stands("kept", src, FreshResp, wire)
    BY <2>3, Fresh DEF Stands
  <2> QED
    BY <1>0, <2>1, <2>4, Fresh DEF IInv, TypeOK
<1>5. CASE Close
  <2>1. /\ phase = "writing" /\ phase' = "closed" /\ resp' = FreshResp
        /\ UNCHANGED <<start, src, wire>>
        /\ ~Complete /\ (OverLength \/ Pulled.error)
    BY <1>5 DEF Close, reset_response_body
  <2>2. OnItsWay(src, resp, wire)
    BY <1>0, <2>1 DEF Stands
  <2>3. ~Sound(src) /\ IsPrefix(wire.data, NonEmpty(src))
    BY <1>0, <2>1, <2>2, ClosedIsUnsound, OnItsWayIsPrefix
  <2>4. Stands("closed", src, FreshResp, wire)
    BY <2>3, Fresh DEF Stands
  <2> QED
    BY <1>0, <2>1, <2>4, Fresh DEF IInv, TypeOK
<1>6. CASE WriteMore
  <2> DEFINE r == NextWrite(Pulled)
             w == stream_write(src, wire, r)
  <2>1. /\ phase = "writing" /\ phase' = "writing" /\ resp' = r /\ wire' = w
        /\ start' = start /\ src' = src
        /\ ~Complete /\ ~OverLength
        /\ ~Pulled.error /\ (Pulled.item # 0 \/ resp.chunked = 1)
    BY <1>6 DEF WriteMore
  <2>2. OnItsWay(src, resp, wire)
    BY <1>0, <2>1 DEF Stands
  <2>3. /\ r \in Resp /\ Len(r.body) <= MaxPreloaded + 1
        /\ w \in Wire /\ OnItsWay(src, r, w)
    BY <1>0, <2>1, <2>2, MoreIsOnItsWay
  <2> HIDE DEF r, w
  <2>4. Stands("writing", src, r, w)
    BY <2>3 DEF Stands
  <2> QED
    BY <1>0, <2>1, <2>3, <2>4 DEF IInv, TypeOK
<1>7. CASE on_message_begin
  <2>1. /\ phase' = "called" /\ start' = create_start_response
        /\ resp' = FreshResp /\ wire' = Unwritten /\ src' = NoSource
    BY <1>7 DEF on_message_begin, reset_response_body
  <2>2. Stands("called", NoSource, FreshResp, Unwritten)
    BY Fresh DEF Stands
  <2> QED
    BY <2>1, <2>2, Fresh DEF IInv, TypeOK
<1>8. CASE UNCHANGED vars
  BY <1>0, <1>8 DEF IInv, TypeOK, vars
<1> QED
  BY <1>1, <1>2, <1>3, <1>4, <1>5, <1>6, <1>7, <1>8 DEF Next

(* The invariant that the properties follow from: while a write is under   *)
(* way, what has been written and what client->response holds are the      *)
(* beginning of the body up to where its iterator stands.                  *)
THEOREM Invariance == Spec => []IInv
  BY Initially, Step, PTL DEF Spec

-----------------------------------------------------------------------------
(* The properties.                                                         *)

(* client->response keeps its shape whatever an application returns.       *)
THEOREM ResponseTyped == Spec => []TypeOK
<1>1. IInv => TypeOK
  BY DEF IInv
<1> QED
  BY <1>1, Invariance, PTL

(* The array of items and the buffers of a write are long enough for every *)
(* max_preloaded_body_chunks and every body: the loop of wsgi_body_preload *)
(* stops in time, and write_cb never adds to what was preloaded.           *)
THEOREM ChunksFit == Spec => []BuffersFit
<1>1. IInv => BuffersFit
  <2> SUFFICES ASSUME IInv PROVE BuffersFit
    OBVIOUS
  <2>1. Len(resp.body) <= MaxPreloaded + 1 /\ resp \in Resp
    BY DEF IInv, Stands, TypeOK
  <2>2. Len(resp.body) \in Nat /\ MaxPreloaded \in Nat
    BY <2>1, SizesAssumption DEF Resp
  <2> DEFINE n == Len(resp.body)
             items == IF resp.pre > 0 THEN n ELSE 0
             last == IF resp.chunked = 1 THEN 1 ELSE 0
  <2> HIDE DEF n
  <2>3. n \in Nat /\ n <= MaxPreloaded + 1
    BY <2>1, <2>2 DEF n
  <2>4. items \in Nat /\ items <= MaxPreloaded + 1 /\ last \in {0, 1}
    BY <2>2, <2>3
  <2>5. Buffers(resp) = 1 + items + last
    BY DEF Buffers, n
  <2> HIDE DEF items, last
  <2>6. Buffers(resp) <= MaxPreloaded + 3
    BY <2>2, <2>4, <2>5
  <2> QED
    BY <2>1, <2>6 DEF BuffersFit
<1> QED
  BY <1>1, Invariance, PTL

(* Every item of a body is written in its place, and once: of items        *)
(* preloaded, taken from a generator before the headers were looked at, or *)
(* asked for by write_cb, none is lost or repeated where one way ends and  *)
(* the next begins.                                                        *)
THEOREM ItemsInOrder == Spec => []SentInOrder
<1>1. IInv => SentInOrder
  <2> SUFFICES ASSUME IInv PROVE IsPrefix(wire.data, NonEmpty(src))
    BY DEF SentInOrder
  <2>1. /\ Stands(phase, src, resp, wire) /\ src.items \in Seq(Int)
        /\ phase \in {"called", "writing", "kept", "closed", "refused"}
    BY BodyOfState DEF IInv, TypeOK
  <2>2. CASE phase \in {"called", "refused"}
    <3>1. wire.data = <<>>
      BY <2>1, <2>2, Fresh DEF Stands
    <3> QED
      BY <2>1, <3>1, WrittenIsPrefix
  <2>3. CASE phase = "writing"
    BY <2>1, <2>3, OnItsWayIsPrefix DEF Stands
  <2>4. CASE phase \in {"closed", "kept"}
    BY <2>1, <2>4 DEF Stands
  <2> QED
    BY <2>1, <2>2, <2>3, <2>4
<1> QED
  BY <1>1, Invariance, PTL

(* A connection is kept only behind a whole message, whatever Content-     *)
(* Length the application passes and however it cuts the body, except      *)
(* where the body falls short of what it announced.                        *)
THEOREM KeptWhole == Spec => []KeptOnlyWhole
<1>1. IInv => KeptOnlyWhole
  <2> SUFFICES ASSUME IInv, phase = "kept" PROVE KeptOnlyWhole
    BY DEF KeptOnlyWhole
  <2>1. Kept(src, wire)
    BY DEF IInv, Stands
  <2> QED
    BY <2>1 DEF Kept, KeptOnlyWhole
<1> QED
  BY <1>1, Invariance, PTL

(* A sound body is never refused or cut off by closing the connection, and *)
(* once the connection is kept all of it was sent.                         *)
THEOREM SoundIsSent == Spec => []SoundBodiesAreSent
<1>1. IInv => SoundBodiesAreSent
  <2> SUFFICES ASSUME IInv, Sound(src) PROVE SoundBodiesAreSent
    BY DEF SoundBodiesAreSent
  <2>1. Stands(phase, src, resp, wire)
    BY DEF IInv
  <2> QED
    BY <2>1 DEF Stands, Kept, SoundBodiesAreSent
<1> QED
  BY <1>1, Invariance, PTL

LEMMA Writes ==
  ASSUME NEW k, W!Writable(k)
  PROVE  W!stream_write(k) =
           [k EXCEPT !.state = "CS_RESP_SEND", !.reading = FALSE,
                     !.wq = Append(@, "resp")]
<1> DEFINE s == [k EXCEPT !.state = "CS_RESP_SEND", !.reading = FALSE,
                          !.wq = Append(@, "resp")]
           t == [k EXCEPT !.state = "CS_DESTROY"]
           u == [k EXCEPT !.state = "CS_DESTROY", !.reading = FALSE]
<1>1. k.state # "CS_RESP_SEND"
  BY DEF W!Writable
<1>2. W!stream_write(k) = CASE W!Writable(k) -> s
                       [] k.state = "CS_RESP_SEND" -> t
                       [] OTHER -> u
  BY DEF W!stream_write
<1> HIDE DEF s, t, u
<1>3. W!stream_write(k) = s
  BY <1>1, <1>2, Zenon
<1> QED
  BY <1>3 DEF s

-----------------------------------------------------------------------------
(* The connection of WsgiConnection.                                       *)

Fields == {"state", "rx", "reading", "buf", "parsed", "parser", "keep", "reqT",
           "lastT", "chunked", "pre", "total", "written", "iter", "uv", "shut",
           "wq", "recvd", "ppos", "asked", "calls", "begun", "done", "status"}

(* k is open and persists, with the sizes of r, and nothing to read. *)
Carries(k, r) ==
  /\ DOMAIN k = Fields
  /\ k.uv = "open" /\ k.shut = FALSE /\ k.keep = TRUE /\ k.rx = "RXS_RESTING"
  /\ k.pre = r.pre /\ k.total = r.total /\ k.written = r.written
  /\ k.chunked = r.chunked

LEMMA ClientCarries ==
  ASSUME NEW p, NEW r
  PROVE  /\ Carries(Client(p, r), r)
         /\ p = "writing" => Client(p, r).state = "CS_RESP_SEND"
<1> DEFINE k == Client(p, r)
           st == IF p = "writing" THEN "CS_RESP_SEND" ELSE "CS_REQ_PARSE"
           f == W!Fresh
<1>1. k = [f EXCEPT !.uv = "open", !.keep = TRUE, !.iter = r.iter, !.state = st,
                    !.pre = r.pre, !.total = r.total, !.written = r.written,
                    !.chunked = r.chunked]
  BY DEF Client
<1>2. DOMAIN f = Fields /\ f.shut = FALSE /\ f.rx = "RXS_RESTING"
  BY DEF W!Fresh, Fields
<1> HIDE DEF k, f, st
<1>3. Carries(k, r) /\ k.state = st
  BY <1>1, <1>2 DEF Carries, Fields
<1> QED
  BY <1>3 DEF k, st

(* The response to a request is written. *)
LEMMA RunApplicationWrites ==
  ASSUME NEW k, NEW r, Carries(k, r), NEW x \in W!Reply, x.kind # "fail"
  PROVE  Outcome(W!RunApplication(k, x, FALSE)) =
           [phase |-> "writing",
            size |-> <<x.pre, x.total, r.written,
                       IF x.kind = "chunked" THEN 1 ELSE 0>>]
<1> DEFINE c == IF x.kind = "chunked" THEN 1 ELSE 0
           a == [k EXCEPT !.state = "CS_RESP_BILD", !.calls = @ + 1]
           b == [a EXCEPT !.pre = x.pre, !.total = x.total,
                   !.chunked = c, !.iter = TRUE]
           s == [b EXCEPT !.state = "CS_RESP_SEND", !.reading = FALSE,
                          !.wq = Append(@, "resp")]
           h == [s EXCEPT !.begun = @ + 1, !.status = "200"]
<1>1. DOMAIN k = Fields /\ k.uv = "open" /\ k.shut = FALSE
      /\ k.written = r.written
  BY DEF Carries
<1>2. W!RunApplication(k, x, FALSE) =
        W!ReadFin(W!WriteHead(b, "200"), "none",
                  IF W!Writable(b) THEN "CA_OK" ELSE "CA_SHUTDOWN", FALSE)
  BY DEF W!RunApplication
<1>3. /\ DOMAIN a = Fields /\ a.uv = "open" /\ a.shut = FALSE
      /\ a.state = "CS_RESP_BILD" /\ a.written = r.written
  BY <1>1 DEF Fields
<1> HIDE DEF a, c
<1>4. /\ DOMAIN b = Fields /\ b.uv = "open" /\ b.shut = FALSE
      /\ b.state = "CS_RESP_BILD" /\ b.written = r.written
      /\ b.pre = x.pre /\ b.total = x.total /\ b.chunked = c
  BY <1>3 DEF Fields
<1> HIDE DEF b
<1>5. W!Writable(b)
  BY <1>4 DEF W!Writable, W!NotConn
<1>6. W!stream_write(b) = s
  BY <1>5, Writes
<1>7. /\ DOMAIN s = Fields /\ s.uv = "open" /\ s.state = "CS_RESP_SEND"
      /\ s.written = r.written /\ s.pre = x.pre /\ s.total = x.total
      /\ s.chunked = c
  BY <1>4 DEF Fields
<1> HIDE DEF s
<1>8. W!WriteHead(b, "200") = h
  BY <1>5, <1>6 DEF W!WriteHead
<1>9. /\ h.uv = "open" /\ h.state = "CS_RESP_SEND"
      /\ h.written = r.written /\ h.pre = x.pre /\ h.total = x.total
      /\ h.chunked = c
  BY <1>7 DEF Fields
<1> HIDE DEF h
<1>10. W!ReadFin(h, "none", "CA_OK", FALSE) = h
  <2>1. W!TakeAction(h, "CA_OK") = h
    BY DEF W!TakeAction
  <2> QED
    BY <2>1 DEF W!ReadFin
<1>11. W!RunApplication(k, x, FALSE) = h
  BY <1>2, <1>5, <1>8, <1>10
<1> QED
  BY <1>9, <1>11 DEF Outcome, c

(* After the last write the connection is kept, and the response forgotten. *)
LEMMA FinishKeeps ==
  ASSUME NEW k, NEW r, Carries(k, r), NEW e, NEW x
  PROVE  Outcome(W!FinishResponse(k, e, x, FALSE)) =
           [phase |-> "kept", size |-> <<0, 0, 0, 0>>]
<1> DEFINE d == [k EXCEPT !.done = @ + 1]
           c == [d EXCEPT !.pre = 0, !.total = 0, !.written = 0,
                          !.iter = FALSE, !.chunked = 0]
           q == [W!reset_response_body(d) EXCEPT !.state = "CS_RESP_END"]
           h == [q EXCEPT !.state = "CS_REQ_READ", !.reading = TRUE]
<1>1. /\ DOMAIN k = Fields /\ k.uv = "open" /\ k.keep = TRUE
      /\ k.rx = "RXS_RESTING"
  BY DEF Carries
<1>2. W!Persistent(k) /\ ~W!Resumes(k)
  BY <1>1 DEF W!Persistent, W!Resumes
<1>3. W!FinishResponse(k, e, x, FALSE) =
        CASE ~W!Persistent(k) -> W!close_connection(d)
          [] W!Resumes(k) -> W!Parse(q, e, x, FALSE)
          [] OTHER -> W!stream_read_start(q)
  BY DEF W!FinishResponse
<1>4. DOMAIN d = Fields /\ d.uv = "open" /\ d.rx = "RXS_RESTING"
  BY <1>1 DEF Fields
<1>5. W!reset_response_body(d) = c
  BY DEF W!reset_response_body
<1> HIDE DEF d
<1>6. /\ DOMAIN c = Fields /\ c.uv = "open" /\ c.rx = "RXS_RESTING"
      /\ c.pre = 0 /\ c.total = 0 /\ c.written = 0 /\ c.chunked = 0
  BY <1>4 DEF Fields
<1> HIDE DEF c
<1>7. /\ DOMAIN q = Fields /\ q.uv = "open" /\ q.rx = "RXS_RESTING"
      /\ q.state = "CS_RESP_END"
      /\ q.pre = 0 /\ q.total = 0 /\ q.written = 0 /\ q.chunked = 0
  BY <1>5, <1>6 DEF Fields
<1> HIDE DEF q
<1>8. W!FinishResponse(k, e, x, FALSE) = W!stream_read_start(q)
  BY <1>2, <1>3, Zenon
<1>9. W!stream_read_start(q) = h
  <2>1. ~(q.rx = "RXS_FREEZED" \/ q.state = "CS_RESP_SEND")
    BY <1>7
  <2>2. W!stream_read_start(q) =
          IF q.uv = "open" THEN h ELSE W!close_connection(q)
    BY <2>1, Zenon DEF W!stream_read_start
  <2> QED
    BY <1>7, <2>2
<1>10. /\ h.uv = "open" /\ h.state = "CS_REQ_READ"
       /\ h.pre = 0 /\ h.total = 0 /\ h.written = 0 /\ h.chunked = 0
  BY <1>7 DEF Fields
<1> HIDE DEF h
<1> QED
  BY <1>8, <1>9, <1>10 DEF Outcome

(* The next write is queued. *)
LEMMA WriteMoreWrites ==
  ASSUME NEW k, NEW r, Carries(k, r), k.state = "CS_RESP_BILD"
  PROVE  Outcome(W!WriteMore(k)) =
           [phase |-> "writing", size |-> <<r.pre, r.total, r.written, r.chunked>>]
<1> DEFINE h == [k EXCEPT !.state = "CS_RESP_SEND", !.reading = FALSE,
                          !.wq = Append(@, "resp")]
<1>1. /\ DOMAIN k = Fields /\ k.uv = "open" /\ k.shut = FALSE
      /\ k.pre = r.pre /\ k.total = r.total /\ k.written = r.written
      /\ k.chunked = r.chunked
  BY DEF Carries
<1>2. W!Writable(k)
  BY <1>1 DEF W!Writable, W!NotConn
<1>3. W!WriteMore(k) = h
  BY <1>2, Writes DEF W!WriteMore
<1>4. /\ h.uv = "open" /\ h.state = "CS_RESP_SEND"
      /\ h.pre = r.pre /\ h.total = r.total /\ h.written = r.written
      /\ h.chunked = r.chunked
  BY <1>1 DEF Fields
<1> HIDE DEF h
<1> QED
  BY <1>3, <1>4 DEF Outcome

LEMMA CloseCloses ==
  ASSUME NEW k, NEW r, Carries(k, r)
  PROVE  Outcome(W!close_connection(k)) = [phase |-> "closed", size |-> <<>>]
<1> DEFINE h == [k EXCEPT !.state = "CS_DESTROY", !.uv = "closing",
                          !.reading = FALSE]
<1>1. DOMAIN k = Fields /\ k.uv = "open"
  BY DEF Carries
<1>2. W!close_connection(k) = h
  BY <1>1 DEF W!close_connection
<1>3. h.uv = "closing"
  BY <1>1 DEF Fields
<1> HIDE DEF h
<1> QED
  BY <1>2, <1>3 DEF Outcome

Finished == [phase |-> "kept", size |-> <<0, 0, 0, 0>>]
Closed == [phase |-> "closed", size |-> <<>>]

(* What write_cb of WsgiConnection leaves of a response of whose bytes w   *)
(* have been written.                                                      *)
LEMMA WriteCallback ==
  ASSUME NEW k, NEW r \in Resp, Carries(k, r), NEW n, NEW x, NEW w,
         w = r.written + r.pre
  PROVE  LET over == r.chunked = 0 /\ w > r.total
             last == r.chunked = 2 \/ (r.chunked = 0 /\ w = r.total)
             out == Outcome(W!write_cb(k, n, 0, x, FALSE))
         IN /\ last => out = Finished
            /\ over => out = Closed
            /\ ~last /\ ~over =>
                 /\ n.kind = "raise" => out = Closed
                 /\ n.kind = "chunk" =>
                      out = [phase |-> "writing",
                             size |-> <<n.size, r.total, w, r.chunked>>]
                 /\ n.kind = "end" /\ r.chunked = 1 =>
                      out = [phase |-> "writing", size |-> <<0, r.total, w, 2>>]
                 /\ n.kind = "end" /\ r.chunked = 0 => out = Finished
<1> DEFINE over == r.chunked = 0 /\ w > r.total
           last == r.chunked = 2 \/ (r.chunked = 0 /\ w = r.total)
           out == Outcome(W!write_cb(k, n, 0, x, FALSE))
           s == W!Sent(k)
           b == [s EXCEPT !.state = "CS_RESP_BILD"]
           d == [s EXCEPT !.lastT = TRUE]
           g == [b EXCEPT !.pre = n.size]
           h == [b EXCEPT !.chunked = 2]
           t == [r EXCEPT !.pre = 0, !.written = w]
           u == [t EXCEPT !.pre = n.size]
           v == [t EXCEPT !.chunked = 2]
<1> SUFFICES /\ last => out = Finished
             /\ over => out = Closed
             /\ ~last /\ ~over =>
                 /\ n.kind = "raise" => out = Closed
                 /\ n.kind = "chunk" =>
                      out = [phase |-> "writing",
                             size |-> <<n.size, r.total, w, r.chunked>>]
                 /\ n.kind = "end" /\ r.chunked = 1 =>
                      out = [phase |-> "writing", size |-> <<0, r.total, w, 2>>]
                 /\ n.kind = "end" /\ r.chunked = 0 => out = Finished
  OBVIOUS
<1>1. /\ w \in Nat /\ r.total \in Nat /\ r.chunked \in 0 .. 2
      /\ t.pre = 0 /\ t.total = r.total /\ t.written = w /\ t.chunked = r.chunked
      /\ u.pre = n.size /\ u.total = r.total /\ u.written = w
      /\ u.chunked = r.chunked
      /\ v.pre = 0 /\ v.total = r.total /\ v.written = w /\ v.chunked = 2
  BY DEF Resp
<1>2. /\ DOMAIN k = Fields /\ k.uv = "open" /\ k.shut = FALSE /\ k.keep = TRUE
      /\ k.rx = "RXS_RESTING" /\ k.pre = r.pre /\ k.total = r.total
      /\ k.written = r.written /\ k.chunked = r.chunked
  BY DEF Carries
<1>3. Carries(s, t)
  <2>1. s = [k EXCEPT !.state = "CS_RESP_SENDED", !.written = w, !.pre = 0]
    BY <1>2 DEF W!Sent, Fields
  <2> HIDE DEF t, s
  <2> QED
    BY <1>1, <1>2, <2>1 DEF Carries, Fields
<1>4. (W!OverLength(s) <=> over) /\ (W!LastWritten(s) <=> last)
  <2> HIDE DEF s, t
  <2> QED
    BY <1>1, <1>3 DEF Carries, W!OverLength, W!LastWritten
<1>5. W!Pulls(k) <=> ~last /\ ~over
  BY <1>4 DEF W!Pulls
<1>6. W!write_cb(k, n, 0, x, FALSE) =
        CASE W!OverLength(s) -> W!close_connection(s)
          [] W!LastWritten(s) -> W!FinishResponse(d, 0, x, FALSE)
          [] W!Pulls(k) /\ n.kind \in {"raise", "notBytes"} ->
               W!close_connection(b)
          [] W!Pulls(k) /\ n.kind = "chunk" -> W!WriteMore(g)
          [] W!Pulls(k) /\ n.kind = "end" /\ k.chunked = 1 -> W!WriteMore(h)
          [] W!Pulls(k) /\ n.kind = "end" /\ k.chunked = 0 ->
               W!FinishResponse(b, 0, x, FALSE)
  BY DEF W!write_cb
<1> HIDE DEF s, t
<1>7. /\ Carries(d, t) /\ Carries(b, t) /\ b.state = "CS_RESP_BILD"
  BY <1>3 DEF Carries, Fields
<1> HIDE DEF b, d
<1>8. /\ Carries(g, u) /\ g.state = "CS_RESP_BILD"
      /\ Carries(h, v) /\ h.state = "CS_RESP_BILD"
  <2> HIDE DEF u, v
  <2> QED
    BY <1>1, <1>7 DEF Carries, Fields
<1> HIDE DEF g, h, u, v
<1>9. ASSUME last PROVE out = Finished
  <2>1. ~W!OverLength(s) /\ W!LastWritten(s) /\ ~W!Pulls(k)
    BY <1>1, <1>4, <1>5, <1>9
  <2>2. W!write_cb(k, n, 0, x, FALSE) = W!FinishResponse(d, 0, x, FALSE)
    BY <1>6, <2>1, Zenon
  <2> QED
    BY <1>7, <2>2, FinishKeeps DEF Finished
<1>10. ASSUME over PROVE out = Closed
  <2>1. W!OverLength(s) /\ ~W!LastWritten(s) /\ ~W!Pulls(k)
    BY <1>1, <1>4, <1>5, <1>10
  <2>2. W!write_cb(k, n, 0, x, FALSE) = W!close_connection(s)
    BY <1>6, <2>1, Zenon
  <2> QED
    BY <1>3, <2>2, CloseCloses DEF Closed
<1>11. ASSUME ~last, ~over
       PROVE  ~W!OverLength(s) /\ ~W!LastWritten(s) /\ W!Pulls(k)
  BY <1>4, <1>5, <1>11
<1>12. ASSUME ~last, ~over, n.kind = "raise" PROVE out = Closed
  <2>1. W!write_cb(k, n, 0, x, FALSE) = W!close_connection(b)
    BY <1>6, <1>11, <1>12
  <2> QED
    BY <1>7, <2>1, CloseCloses DEF Closed
<1>13. ASSUME ~last, ~over, n.kind = "chunk"
       PROVE  out = [phase |-> "writing",
                     size |-> <<n.size, r.total, w, r.chunked>>]
  <2>1. W!write_cb(k, n, 0, x, FALSE) = W!WriteMore(g)
    BY <1>6, <1>11, <1>13
  <2>2. out = [phase |-> "writing",
               size |-> <<u.pre, u.total, u.written, u.chunked>>]
    BY <1>8, <2>1, WriteMoreWrites
  <2> QED
    BY <1>1, <2>2 DEF u
<1>14. ASSUME ~last, ~over, n.kind = "end", r.chunked = 1
       PROVE  out = [phase |-> "writing", size |-> <<0, r.total, w, 2>>]
  <2>1. W!write_cb(k, n, 0, x, FALSE) = W!WriteMore(h)
    BY <1>2, <1>6, <1>11, <1>14
  <2>2. out = [phase |-> "writing",
               size |-> <<v.pre, v.total, v.written, v.chunked>>]
    BY <1>8, <2>1, WriteMoreWrites
  <2> QED
    BY <1>1, <2>2 DEF v
<1>15. ASSUME ~last, ~over, n.kind = "end", r.chunked = 0
       PROVE  out = Finished
  <2>1. W!write_cb(k, n, 0, x, FALSE) = W!FinishResponse(b, 0, x, FALSE)
    BY <1>2, <1>6, <1>11, <1>15
  <2> QED
    BY <1>7, <2>1, FinishKeeps DEF Finished
<1> QED
  BY <1>9, <1>10, <1>12, <1>13, <1>14, <1>15

(* What is made of a body is one of the replies. *)
LEMMA MadeIsReply ==
  ASSUME NEW s \in Sources, NEW r, Made(s, r)
  PROVE  LET b == build_response(s, r)
         IN /\ b.written = 0
            /\ \E x \in W!Reply :
                 /\ x.kind # "fail" /\ x.pre = b.pre /\ x.total = b.total
                 /\ (IF x.kind = "chunked" THEN 1 ELSE 0) = b.chunked
<1> DEFINE b == build_response(s, r)
           P(x) == /\ x.kind # "fail" /\ x.pre = b.pre /\ x.total = b.total
                   /\ (IF x.kind = "chunked" THEN 1 ELSE 0) = b.chunked
<1> SUFFICES b.written = 0 /\ \E x \in W!Reply : P(x)
  OBVIOUS
<1>0. /\ s \in AnyBody /\ s \in Source /\ s.items \in Seq(Int)
      /\ Len(s.items) \in Nat /\ MaxBody \in Nat
      /\ s.length \in {-1, -2} \cup 0 .. MaxBody
  <2>1. s \in AnyBody
    BY DEF AnyBody
  <2> QED
    BY <2>1, BodyType, SizesAssumption DEF Source, Absent, Malformed
<1>1. \A n \in 0 .. Len(s.items) : Bytes(s, NonEmptyUpTo(s)[n]) <= MaxBody
  BY BodiesAssumption
<1>2. /\ r \in Resp /\ r.pre \in Nat /\ r.total \in Nat /\ r.written = 0
  BY DEF Made, Resp
<1>3. ASSUME NEW n \in 0 .. MaxBody, b.pre = n, b.total = n, b.chunked = 0
      PROVE  \E x \in W!Reply : P(x)
  <2> DEFINE x == [kind |-> "whole", pre |-> n, total |-> n]
  <2>1. x \in W!Reply
    BY DEF W!Reply
  <2>2. P(x)
    BY <1>3
  <2> QED
    BY <2>1, <2>2
<1>4. CASE s.bodiless # "no"
  <2>1. b = FreshResp
    BY <1>4 DEF build_response, reset_response_body
  <2>2. b.pre = 0 /\ b.total = 0 /\ b.chunked = 0 /\ b.written = 0
        /\ 0 \in 0 .. MaxBody
    BY <1>0, <2>1 DEF FreshResp
  <2> HIDE DEF b
  <2> QED
    BY <1>3, <2>2
<1>5. CASE s.bodiless = "no"
  <2>1. b = r
    BY <1>5 DEF build_response
  <2> HIDE DEF b
  <2>2. CASE /\ r.chunked = 0 /\ r.body = NonEmpty(s)
             /\ r.pre = Bytes(s, r.body) /\ r.total = r.pre
    <3>1. Bytes(s, NonEmpty(s)) <= MaxBody
      BY <1>0, <1>1 DEF NonEmpty
    <3>2. r.pre \in 0 .. MaxBody
      BY <1>0, <1>2, <2>2, <3>1
    <3> QED
      BY <1>2, <1>3, <2>1, <2>2, <3>2
  <2>3. CASE r.pre = 0 /\ r.total = 0 /\ r.chunked = 0
    <3>1. 0 \in 0 .. MaxBody
      BY <1>0
    <3> QED
      BY <1>2, <1>3, <2>1, <2>3, <3>1
  <2>4. CASE /\ r.pos \in 0 .. Len(s.items) /\ r.body = NonEmptyUpTo(s)[r.pos]
             /\ r.pre = Bytes(s, r.body) /\ r.pre > 0
             /\ \/ r.chunked = 0 /\ r.total = s.length /\ s.length > 0
                \/ r.chunked = 1 /\ r.total = 0
    <3>1. Bytes(s, NonEmptyUpTo(s)[r.pos]) <= MaxBody
      BY <1>1, <2>4
    <3>2. r.pre \in 1 .. MaxBody
      BY <1>0, <1>2, <2>4, <3>1
    <3>3. CASE r.chunked = 1 /\ r.total = 0
      <4> DEFINE x == [kind |-> "chunked", pre |-> r.pre, total |-> 0]
      <4>1. x \in W!Reply
        BY <3>2 DEF W!Reply
      <4>2. P(x)
        BY <2>1, <3>3
      <4> QED
        BY <1>2, <2>1, <4>1, <4>2
    <3>4. CASE r.chunked = 0 /\ r.total = s.length /\ s.length > 0
      <4>1. r.total \in 1 .. MaxBody
        BY <1>0, <3>4
      <4>2. CASE r.total = r.pre
        <5>1. r.pre \in 0 .. MaxBody
          BY <1>0, <3>2
        <5> QED
          BY <1>2, <1>3, <2>1, <3>4, <4>2, <5>1
      <4>3. CASE r.total # r.pre
        <5> DEFINE x == [kind |-> "sized", pre |-> r.pre, total |-> r.total]
        <5>1. x \in W!Reply
          BY <3>2, <4>1, <4>3 DEF W!Reply
        <5>2. P(x)
          BY <2>1, <3>4
        <5> QED
          BY <1>2, <2>1, <5>1, <5>2
      <4> QED
        BY <4>2, <4>3
    <3> QED
      BY <2>4, <3>3, <3>4
  <2> QED
    BY <2>2, <2>3, <2>4 DEF Made
<1> QED
  BY <1>4, <1>5

(* What asking the iterator leaves of client->response. *)
LEMMA PulledLeaves ==
  ASSUME TypeOK, OnItsWay(src, resp, wire), ~Complete
  PROVE  /\ resp.chunked \in {0, 1} /\ Pulled.chunked = resp.chunked
         /\ Pulled.pre = 0 /\ Pulled.total = resp.total
         /\ Pulled.written = Sent.written
         /\ Pulled.error \in BOOLEAN
         /\ \E p, i, e : Pulled = [Sent EXCEPT !.pos = p, !.item = i, !.error = e]
         /\ Pulled.item # 0 => src.items[Pulled.item] \in 1 .. MaxBody
<1> DEFINE q == Pulled
           m == Len(src.items)
<1>1. /\ resp.chunked \in {0, 1} /\ resp.error = FALSE
      /\ Ends(src, Sent, q) \/ Fails(src, Sent, q) \/ Gives(src, Sent, q)
  BY MoreToWrite
<1>2. /\ Sent \in Resp /\ Sent.pre = 0 /\ Sent.error = FALSE
      /\ Sent.total = resp.total /\ Sent.chunked = resp.chunked
  BY <1>1, SentType
<1>3. src \in AnyBody /\ MaxBody \in Nat
  BY BodyOfState, SizesAssumption
<1>4. \A i \in 1 .. m : src.items[i] \in Item
  BY <1>3, BodyType
<1> HIDE DEF q
<1>5. \E p, i, e : /\ q = [Sent EXCEPT !.pos = p, !.item = i, !.error = e]
                   /\ e \in BOOLEAN /\ (i # 0 => i \in 1 .. m /\ src.items[i] > 0)
  <2>1. CASE Ends(src, Sent, q)
    <3>1. q = [Sent EXCEPT !.pos = m, !.item = 0]
      BY <2>1 DEF Ends
    <3>2. q = [Sent EXCEPT !.pos = m, !.item = 0, !.error = FALSE]
      BY <1>2, <3>1 DEF Resp
    <3> QED
      BY <3>2
  <2>2. CASE Fails(src, Sent, q)
    <3>1. PICK i \in 1 .. m : q = [Sent EXCEPT !.pos = i, !.item = 0,
                                               !.error = TRUE]
      BY <2>2 DEF Fails
    <3> QED
      BY <3>1
  <2>3. CASE Gives(src, Sent, q)
    <3>1. PICK i \in 1 .. m : /\ src.items[i] > 0
                              /\ q = [Sent EXCEPT !.pos = i, !.item = i]
      BY <2>3 DEF Gives
    <3>2. q = [Sent EXCEPT !.pos = i, !.item = i, !.error = FALSE]
      BY <1>2, <3>1 DEF Resp
    <3> QED
      BY <3>1, <3>2
  <2> QED
    BY <1>1, <2>1, <2>2, <2>3
<1>6. PICK p, i, e : /\ q = [Sent EXCEPT !.pos = p, !.item = i, !.error = e]
                     /\ e \in BOOLEAN
                     /\ i # 0 => i \in 1 .. m /\ src.items[i] > 0
  BY <1>5
<1>7. /\ q.chunked = resp.chunked /\ q.pre = 0 /\ q.total = resp.total
      /\ q.written = Sent.written /\ q.error = e /\ q.item = i
  BY <1>2, <1>6 DEF Resp
<1>8. i # 0 => src.items[i] \in 1 .. MaxBody
  BY <1>3, <1>4, <1>6 DEF Item, NotBytes, Raises
<1> QED
  BY <1>1, <1>6, <1>7, <1>8 DEF q

Failure == [kind |-> "fail", pre |-> 0, total |-> 0]

(* What write_cb makes of a response is one of the outcomes. *)
LEMMA WriteIsCovered ==
  ASSUME TypeOK, OnItsWay(src, resp, wire), phase = "writing",
         Finish \/ Close \/ WriteMore
  PROVE  \E n \in W!Pull :
           Outcome(W!write_cb(Client(phase, resp), n, 0, Failure, FALSE)) = Becomes
<1> DEFINE k == Client(phase, resp)
           w == resp.written + resp.pre
           out(n) == Outcome(W!write_cb(k, n, 0, Failure, FALSE))
           End == [kind |-> "end", size |-> 0]
           Raise == [kind |-> "raise", size |-> 0]
<1>1. Carries(k, resp) /\ resp \in Resp
  BY ClientCarries DEF TypeOK
<1>2. End \in W!Pull /\ Raise \in W!Pull
  BY DEF W!Pull
<1>3. /\ Complete <=> resp.chunked = 2 \/ (resp.chunked = 0 /\ w = resp.total)
      /\ OverLength <=> resp.chunked = 0 /\ w > resp.total
      /\ Sent.written = w
  BY SentType DEF Complete, OverLength
<1> HIDE DEF k, w
<1>4. ASSUME NEW n
      PROVE  /\ Complete => out(n) = Finished
             /\ OverLength => out(n) = Closed
             /\ ~Complete /\ ~OverLength =>
                  /\ n.kind = "raise" => out(n) = Closed
                  /\ n.kind = "chunk" =>
                       out(n) = [phase |-> "writing",
                                 size |-> <<n.size, resp.total, w, resp.chunked>>]
                  /\ n.kind = "end" /\ resp.chunked = 1 =>
                       out(n) = [phase |-> "writing",
                                 size |-> <<0, resp.total, w, 2>>]
                  /\ n.kind = "end" /\ resp.chunked = 0 => out(n) = Finished
  <2>1. w = resp.written + resp.pre
    BY DEF w
  <2> QED
    BY <1>1, <1>3, <2>1, WriteCallback
<1> HIDE DEF out
<1>5. CASE Finish
  <2>1. /\ phase' = "kept" /\ resp' = FreshResp
        /\ Complete \/ (~Complete /\ ~OverLength /\ resp.chunked = 0)
    BY <1>5 DEF Finish, reset_response_body
  <2>2. Becomes = Finished
    BY <2>1 DEF Becomes, Finished, FreshResp
  <2>3. out(End) = Finished
    BY <1>4, <2>1
  <2> QED
    BY <1>2, <2>2, <2>3 DEF out, k
<1>6. CASE Close
  <2>1. /\ phase' = "closed" /\ ~Complete
    BY <1>6 DEF Close
  <2>2. Becomes = Closed
    BY <2>1 DEF Becomes, Closed
  <2>3. out(Raise) = Closed
    BY <1>4, <2>1
  <2> QED
    BY <1>2, <2>2, <2>3 DEF out, k
<1>7. CASE WriteMore
  <2> DEFINE q == Pulled
             size == src.items[q.item]
             Chunk == [kind |-> "chunk", size |-> size]
  <2>1. /\ phase' = phase /\ resp' = NextWrite(q) /\ ~Complete /\ ~OverLength
        /\ q.item # 0 \/ resp.chunked = 1
    BY <1>7 DEF WriteMore
  <2>2. /\ q.chunked = resp.chunked /\ q.pre = 0 /\ q.total = resp.total
        /\ q.written = w
        /\ \E p, i, e : q = [Sent EXCEPT !.pos = p, !.item = i, !.error = e]
        /\ q.item # 0 => size \in 1 .. MaxBody
    BY <1>3, <2>1, PulledLeaves
  <2>3. DOMAIN q = DOMAIN resp /\ resp \in Resp
    <3>1. Sent \in Resp
      BY SentType
    <3> HIDE DEF q
    <3> QED
      BY <1>1, <2>2, <3>1 DEF Resp
  <2>4. NextWrite(q) = IF q.item # 0
                       THEN [q EXCEPT !.body = <<q.item>>, !.pre = size]
                       ELSE [q EXCEPT !.chunked = 2]
    BY DEF NextWrite
  <2>5. Becomes = [phase |-> "writing",
                   size |-> <<resp'.pre, resp'.total, resp'.written,
                              resp'.chunked>>]
    BY <2>1 DEF Becomes
  <2> HIDE DEF q, size
  <2>6. CASE q.item # 0
    <3>1. /\ resp'.pre = size /\ resp'.total = resp.total /\ resp'.written = w
          /\ resp'.chunked = resp.chunked
      BY <2>1, <2>2, <2>3, <2>4, <2>6 DEF Resp
    <3>2. Chunk \in W!Pull /\ Chunk.kind = "chunk" /\ Chunk.size = size
      BY <2>2, <2>6 DEF W!Pull
    <3> HIDE DEF Chunk
    <3>3. out(Chunk) = [phase |-> "writing",
                        size |-> <<size, resp.total, w, resp.chunked>>]
      BY <1>4, <2>1, <3>2
    <3> QED
      BY <2>5, <3>1, <3>2, <3>3 DEF out, k
  <2>7. CASE q.item = 0
    <3>1. /\ resp'.pre = 0 /\ resp'.total = resp.total /\ resp'.written = w
          /\ resp'.chunked = 2 /\ resp.chunked = 1
      BY <2>1, <2>2, <2>3, <2>4, <2>7 DEF Resp
    <3>2. out(End) = [phase |-> "writing", size |-> <<0, resp.total, w, 2>>]
      BY <1>4, <2>1, <3>1
    <3> QED
      BY <1>2, <2>5, <3>1, <3>2 DEF out, k
  <2> QED
    BY <2>6, <2>7
<1> QED
  BY <1>5, <1>6, <1>7

(* What the application returns is one of the replies. *)
LEMMA ReturnIsCovered ==
  ASSUME IInv, Returns, phase' = "writing"
  PROVE  \E x \in W!Reply :
           /\ x.kind # "fail"
           /\ Outcome(W!RunApplication(Client(phase, resp), x, FALSE)) = Becomes
<1> DEFINE r == process_wsgi_response(src', resp)
           b == build_response(src', r)
           k == Client(phase, resp)
<1>1. /\ phase = "called" /\ src' \in Sources /\ resp = FreshResp
      /\ IF r.error THEN phase' = "refused" ELSE resp' = b
  BY DEF Returns, IInv, Stands
<1>2. src' \in AnyBody
  BY <1>1 DEF AnyBody
<1>3. Processed(src', r) /\ resp' = b
  <2>1. Processed(src', r)
    BY <1>1, <1>2, ResponseIsMade
  <2> QED
    BY <1>1, <2>1
<1>4. Made(src', r)
  BY <1>1, <1>3 DEF Processed
<1>5. b.written = 0
  BY <1>1, <1>4, MadeIsReply
<1>6. PICK x \in W!Reply :
        /\ x.kind # "fail" /\ x.pre = b.pre /\ x.total = b.total
        /\ (IF x.kind = "chunked" THEN 1 ELSE 0) = b.chunked
  BY <1>1, <1>4, MadeIsReply
<1>7. Carries(k, resp) /\ resp.written = 0
  BY <1>1, ClientCarries DEF FreshResp
<1> HIDE DEF k, b
<1>8. Outcome(W!RunApplication(k, x, FALSE)) =
        [phase |-> "writing", size |-> <<b.pre, b.total, 0, b.chunked>>]
  BY <1>6, <1>7, RunApplicationWrites
<1>9. Becomes = [phase |-> "writing",
                 size |-> <<b.pre, b.total, b.written, b.chunked>>]
  BY <1>3 DEF Becomes
<1> QED
  BY <1>5, <1>6, <1>8, <1>9 DEF k

(* What is made of any body is one of the replies that WsgiConnection      *)
(* chooses from, and what write_cb does then one of its outcomes.          *)
THEOREM ConnectionCovers == Spec => CoveredByWsgiConnection
<1>1. IInv /\ [Next]_vars =>
        [/\ phase = "called" /\ phase' = "writing" =>
              \E r \in W!Reply :
                r.kind # "fail" /\
                Outcome(W!RunApplication(Client(phase, resp), r, FALSE)) = Becomes
         /\ phase = "writing" =>
              \E n \in W!Pull :
                Outcome(W!write_cb(Client(phase, resp), n, 0,
                          [kind |-> "fail", pre |-> 0, total |-> 0], FALSE)) = Becomes
        ]_vars
  <2> SUFFICES ASSUME IInv, Next
               PROVE
         /\ phase = "called" /\ phase' = "writing" =>
              \E r \in W!Reply :
                r.kind # "fail" /\
                Outcome(W!RunApplication(Client(phase, resp), r, FALSE)) = Becomes
         /\ phase = "writing" =>
              \E n \in W!Pull :
                Outcome(W!write_cb(Client(phase, resp), n, 0,
                          [kind |-> "fail", pre |-> 0, total |-> 0], FALSE)) = Becomes
    OBVIOUS
  <2>1. ASSUME phase = "called", phase' = "writing"
        PROVE  \E r \in W!Reply :
                 r.kind # "fail" /\
                 Outcome(W!RunApplication(Client(phase, resp), r, FALSE)) = Becomes
    <3>1. Returns
      BY <2>1 DEF Next, start_response, AppRaises, Finish, Close, WriteMore,
                  on_message_begin
    <3> QED
      BY <2>1, <3>1, ReturnIsCovered
  <2>2. ASSUME phase = "writing"
        PROVE  \E n \in W!Pull :
                 Outcome(W!write_cb(Client(phase, resp), n, 0,
                           [kind |-> "fail", pre |-> 0, total |-> 0], FALSE)) = Becomes
    <3>1. Finish \/ Close \/ WriteMore
      BY <2>2 DEF Next, start_response, AppRaises, Returns, on_message_begin
    <3>2. TypeOK /\ OnItsWay(src, resp, wire)
      BY <2>2 DEF IInv, Stands
    <3> QED
      BY <2>2, <3>1, <3>2, WriteIsCovered DEF Failure
  <2> QED
    BY <2>1, <2>2
<1> QED
  BY <1>1, Invariance, PTL DEF Spec, CoveredByWsgiConnection
=============================================================================
