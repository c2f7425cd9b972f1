---------------------------- MODULE MessageProofs ----------------------------
(***************************************************************************)
(* That a message is read as it was received, and written as it was meant, *)
(* for every length, chunk size and header.  A list of chunks is loops     *)
(* over its cells, joined into one sequence (Ahead); the proof does        *)
(* without the loops: chunk i holds the bytes b[i - 1] + 1 .. b[i]         *)
(* (Starts), and an offset into the list, however it came about, is how    *)
(* much of each chunk lies before it (Offset).                             *)
(***************************************************************************)
EXTENDS MessageReader, MessageWriter, SequenceTheorems, WellFoundedInduction,
        FiniteSetTheorems, TLAPS

-----------------------------------------------------------------------------
(* Sequences joined into one *)

\* Induction over the naturals, as a fact about sets.
LEMMA SetInduction ==
  ASSUME NEW S, 0 \in S, \A n \in Nat : n \in S => n + 1 \in S
  PROVE  Nat \subseteq S
<1> DEFINE T == Nat \ S
           R == OpToRel(<, Nat)
<1> SUFFICES ASSUME T # {} PROVE FALSE
  OBVIOUS
<1>1. IsWellFoundedOn(R, Nat)
  BY NatLessThanWellFounded
<1> HIDE DEF R
<1>2. PICK x \in T : \A y \in T : <<y, x>> \notin R
  BY <1>1, WFMin
<1>3. \A y \in Nat : y < x => <<y, x>> \in R
  BY DEF R, OpToRel
<1>4. x \in Nat \ {0} /\ x - 1 \in Nat /\ x - 1 < x
  BY <1>2
<1>5. x - 1 \notin T
  BY <1>2, <1>3, <1>4
<1>6. x - 1 \in S /\ x = (x - 1) + 1
  BY <1>4, <1>5
<1>7. x \in S
  BY <1>4, <1>6
<1> QED  BY <1>2, <1>7

\* Induction from 1 to n.
LEMMA UpTo ==
  ASSUME NEW n \in Nat \ {0}, NEW S, 1 \in S, \A k \in 1..(n - 1) : k \in S => k + 1 \in S
  PROVE  1..n \subseteq S
<1> DEFINE T == {k \in Nat : k + 1 <= n => k + 1 \in S}
<1>1. 0 \in T
  OBVIOUS
<1>2. ASSUME NEW k \in Nat, k \in T PROVE k + 1 \in T
  <2> SUFFICES ASSUME k + 2 <= n PROVE (k + 1) + 1 \in S
    OBVIOUS
  <2>1. k + 1 \in 1..(n - 1) /\ k + 1 \in S
    BY <1>2
  <2> QED  BY <2>1
<1>3. Nat \subseteq T
  <2> HIDE DEF T
  <2> QED  BY <1>1, <1>2, SetInduction
<1>4. ASSUME NEW i \in 1..n PROVE i \in S
  <2>1. i - 1 \in T
    BY <1>3
  <2> QED  BY <2>1
<1> QED  BY <1>4

\* Where each of the first k sequences ss begins, joined one by one.
Spaced(a, ss, k) ==
  /\ a \in [1..(k + 1) -> Nat] /\ a[1] = 0
  /\ \A i \in 1..k : a[i + 1] = a[i] + Len(ss[i])

\* The first k of them stand in t there.
Placed(t, a, ss, k) ==
  /\ Len(t) = a[k + 1]
  /\ \A i \in 1..k : /\ a[i + 1] <= a[k + 1]
                     /\ \A j \in 1..Len(ss[i]) : t[a[i] + j] = ss[i][j]

\* One more.
LEMMA PlacedConcat ==
  ASSUME NEW S, NEW n \in Nat \ {0}, NEW ss \in [1..n -> Seq(S)], NEW a, Spaced(a, ss, n),
         NEW k \in 1..(n - 1), NEW t \in Seq(S), Placed(t, a, ss, k)
  PROVE  t \o ss[k + 1] \in Seq(S) /\ Placed(t \o ss[k + 1], a, ss, k + 1)
<1> DEFINE u == ss[k + 1]
           c == t \o u
<1>1. /\ u \in Seq(S) /\ Len(u) \in Nat /\ Len(t) = a[k + 1] /\ a[k + 2] = a[k + 1] + Len(u)
      /\ a[k + 1] \in Nat /\ a[k + 2] \in Nat
  <2>1. k + 1 \in 1..n /\ k + 1 \in 1..(n + 1) /\ k + 2 \in 1..(n + 1) /\ (k + 1) + 1 = k + 2
    OBVIOUS
  <2>2. u \in Seq(S) /\ Len(u) \in Nat
    BY <2>1
  <2>3. a[k + 1] \in Nat /\ a[k + 2] \in Nat
    BY <2>1 DEF Spaced
  <2>4. a[k + 2] = a[k + 1] + Len(u)
    BY <2>1 DEF Spaced
  <2> QED  BY <2>2, <2>3, <2>4 DEF Placed
<1>2. /\ c \in Seq(S) /\ Len(c) = Len(t) + Len(u)
      /\ \A i \in 1..(Len(t) + Len(u)) : c[i] = IF i <= Len(t) THEN t[i] ELSE u[i - Len(t)]
  BY <1>1, ConcatProperties
<1> HIDE DEF c
<1>3. Len(c) = a[k + 2]
  BY <1>1, <1>2
<1>4. ASSUME NEW i \in 1..(k + 1)
      PROVE  /\ a[i + 1] <= a[k + 2]
             /\ \A j \in 1..Len(ss[i]) : c[a[i] + j] = ss[i][j]
  <2>1. CASE i = k + 1
    <3>1. a[i + 1] = a[k + 2] /\ ss[i] = u /\ a[i] = Len(t)
      BY <1>1, <2>1
    <3>2. ASSUME NEW j \in 1..Len(u) PROVE c[Len(t) + j] = u[j]
      <4>1. Len(t) + j \in 1..(Len(t) + Len(u)) /\ ~(Len(t) + j <= Len(t)) /\ (Len(t) + j) - Len(t) = j
        BY SMTT(30), <1>1
      <4> QED  BY <1>2, <4>1
    <3> QED  BY <1>1, <3>1, <3>2
  <2>2. CASE i # k + 1
    <3>1. i \in 1..k /\ i \in 1..n /\ i \in 1..(n + 1) /\ i + 1 \in 1..(n + 1)
      BY <2>2
    <3>2. /\ a[i] \in Nat /\ a[i + 1] \in Nat /\ Len(ss[i]) \in Nat
          /\ a[i + 1] = a[i] + Len(ss[i])
      <4>1. a[i] \in Nat /\ a[i + 1] \in Nat
        BY <3>1 DEF Spaced
      <4>2. ss[i] \in Seq(S)
        BY <3>1
      <4>3. Len(ss[i]) \in Nat
        BY <4>2
      <4>4. a[i + 1] = a[i] + Len(ss[i])
        BY <3>1 DEF Spaced
      <4> QED  BY <4>1, <4>3, <4>4
    <3>3. a[i + 1] <= a[k + 1] /\ \A j \in 1..Len(ss[i]) : t[a[i] + j] = ss[i][j]
      BY <3>1 DEF Placed
    <3>4. ASSUME NEW j \in 1..Len(ss[i]) PROVE c[a[i] + j] = t[a[i] + j]
      <4>1. PICK x \in Nat : x = a[i]
        BY <3>2
      <4>2. PICK l \in Nat : l = Len(ss[i])
        BY <3>2
      <4>3. PICK y \in Nat : y = Len(t)
        BY <1>1
      <4>4. x + l <= y
        BY <1>1, <3>2, <3>3, <4>1, <4>2, <4>3
      <4>5. j \in Nat /\ 1 <= j /\ j <= l
        BY <4>2
      <4>6. x + j \in 1..(y + Len(u)) /\ x + j <= y
        BY <1>1, <4>4, <4>5
      <4> QED  BY <1>2, <4>1, <4>3, <4>6
    <3>5. a[k + 1] <= a[k + 2]
      BY <1>1
    <3>6. a[i + 1] <= a[k + 2]
      <4>1. PICK x \in Nat : x = a[i + 1]
        BY <3>2
      <4>2. PICK y \in Nat : y = a[k + 1]
        BY <1>1
      <4>3. PICK z \in Nat : z = a[k + 2]
        BY <1>1
      <4>4. x <= y /\ y <= z
        BY <3>3, <3>5, <4>1, <4>2, <4>3
      <4>5. x <= z
        BY <4>4
      <4> QED  BY <4>1, <4>3, <4>5
    <3> QED  BY <3>3, <3>4, <3>6
  <2> QED  BY <2>1, <2>2
<1>5. Placed(c, a, ss, k + 1)
  <2>1. (k + 1) + 1 = k + 2
    OBVIOUS
  <2> QED  BY <1>3, <1>4, <2>1 DEF Placed
<1> QED  BY <1>2, <1>5 DEF c

\* The first k of the sequences ss, joined one by one.
Joins(f, a, ss, k) ==
  /\ f[1] = ss[1]
  /\ \A i \in 2..k : f[i] = f[i - 1] \o ss[i]
  /\ \A i \in 1..k : Placed(f[i], a, ss, i)

\* One more sequence joined.
LEMMA JoinMore ==
  ASSUME NEW S, NEW n \in Nat \ {0}, NEW ss \in [1..n -> Seq(S)], NEW a, Spaced(a, ss, n), NEW k \in 1..(n - 1),
         NEW f \in [1..k -> Seq(S)], Joins(f, a, ss, k)
  PROVE  \E g \in [1..(k + 1) -> Seq(S)] : Joins(g, a, ss, k + 1)
<1> DEFINE h == f[k] \o ss[k + 1]
           g == [i \in 1..(k + 1) |-> IF i = k + 1 THEN h ELSE f[i]]
<1>1. f[k] \in Seq(S) /\ Placed(f[k], a, ss, k)
  BY DEF Joins
<1>2. h \in Seq(S) /\ Placed(h, a, ss, k + 1)
  BY <1>1, PlacedConcat
<1> HIDE DEF h
<1>3. g \in [1..(k + 1) -> Seq(S)] /\ g[k + 1] = h /\ \A i \in 1..k : g[i] = f[i]
  BY <1>2
<1> HIDE DEF g
<1>4. g[1] = ss[1]
  BY <1>3 DEF Joins
<1>5. ASSUME NEW i \in 2..(k + 1) PROVE g[i] = g[i - 1] \o ss[i]
  <2>1. CASE i = k + 1
    <3>1. g[i - 1] = f[k] /\ g[i] = h /\ ss[i] = ss[k + 1]
      BY <1>3, <2>1
    <3> QED  BY <3>1 DEF h
  <2>2. CASE i # k + 1
    <3>1. i \in 2..k /\ i \in 1..k /\ i - 1 \in 1..k
      BY <2>2
    <3>2. g[i] = f[i] /\ g[i - 1] = f[i - 1] /\ f[i] = f[i - 1] \o ss[i]
      BY <1>3, <3>1 DEF Joins
    <3> QED  BY <3>2
  <2> QED  BY <2>1, <2>2
<1>6. ASSUME NEW i \in 1..(k + 1) PROVE Placed(g[i], a, ss, i)
  <2>1. CASE i = k + 1
    BY <1>2, <1>3, <2>1
  <2>2. CASE i # k + 1
    <3>1. i \in 1..k /\ g[i] = f[i]
      BY <1>3, <2>2
    <3> QED  BY <3>1 DEF Joins
  <2> QED  BY <2>1, <2>2
<1>7. Joins(g, a, ss, k + 1)
  BY <1>4, <1>5, <1>6 DEF Joins
<1> QED  BY <1>3, <1>7

\* All of them.
LEMMA JoinAll ==
  ASSUME NEW S, NEW n \in Nat \ {0}, NEW ss \in [1..n -> Seq(S)], NEW a, Spaced(a, ss, n)
  PROVE  \E f \in [1..n -> Seq(S)] : Joins(f, a, ss, n)
<1> DEFINE Joined(k) == \E f \in [1..k -> Seq(S)] : Joins(f, a, ss, k)
           T == {k \in 1..n : Joined(k)}
<1>1. Joined(1)
  <2> DEFINE f == [i \in 1..1 |-> ss[1]]
  <2>1. f \in [1..1 -> Seq(S)] /\ f[1] = ss[1] /\ ss[1] \in Seq(S)
    OBVIOUS
  <2> HIDE DEF f
  <2>2. Placed(ss[1], a, ss, 1)
    BY <2>1 DEF Spaced, Placed
  <2>3. Joins(f, a, ss, 1)
    BY <2>1, <2>2 DEF Joins
  <2> QED  BY <2>1, <2>3
<1>2. ASSUME NEW k \in 1..(n - 1), Joined(k) PROVE Joined(k + 1)
  BY <1>2, JoinMore
<1> HIDE DEF Joined
<1>3. 1 \in T /\ \A k \in 1..(n - 1) : k \in T => k + 1 \in T
  BY <1>1, <1>2
<1>4. n \in T
  <2> HIDE DEF T
  <2>1. 1..n \subseteq T
    BY <1>3, UpTo, Zenon
  <2> QED  BY <2>1
<1> QED  BY <1>4 DEF Joined

\* FlattenSeq is the last of them, so each sequence stands in it where the ones
\* before it end.
LEMMA FlattenPlaced ==
  ASSUME NEW S, NEW n \in Nat \ {0}, NEW ss \in [1..n -> Seq(S)], NEW a, Spaced(a, ss, n)
  PROVE  /\ FlattenSeq(ss) \in Seq(S)
         /\ Placed(FlattenSeq(ss), a, ss, n)
<1>1. PICK f \in [1..n -> Seq(S)] : Joins(f, a, ss, n)
  BY JoinAll
<1> DEFINE Recursive(h) == h = [i \in 1..n |-> IF i = 1 THEN ss[i] ELSE h[i - 1] \o ss[i]]
           G == CHOOSE h : Recursive(h)
<1>2. Recursive(f)
  <2> DEFINE F(i) == IF i = 1 THEN ss[i] ELSE f[i - 1] \o ss[i]
  <2>1. ASSUME NEW i \in 1..n PROVE f[i] = F(i)
    <3>1. CASE i = 1
      BY <1>1, <3>1 DEF Joins
    <3>2. CASE i # 1
      <4>1. i \in 2..n
        BY <3>2
      <4>2. f[i] = f[i - 1] \o ss[i]
        BY <1>1, <4>1 DEF Joins
      <4> QED  BY <3>2, <4>2
    <3> QED  BY <3>1, <3>2
  <2>2. f = [i \in 1..n |-> f[i]]
    OBVIOUS
  <2> HIDE DEF F
  <2>3. f = [i \in 1..n |-> F(i)]
    BY <2>1, <2>2
  <2> QED  BY <2>3 DEF F
<1>3. Recursive(G)
  <2> HIDE DEF Recursive
  <2> QED  BY <1>2, Zenon
<1>4. Len(ss) = n /\ n # 0
  OBVIOUS
<1>5. FlattenSeq(ss) = G[n]
  BY <1>4, Zenon DEF FlattenSeq
<1> HIDE DEF G
<1>6. G[1] = ss[1] /\ \A i \in 2..n : G[i] = G[i - 1] \o ss[i]
  <2>1. ASSUME NEW i \in 1..n PROVE G[i] = IF i = 1 THEN ss[i] ELSE G[i - 1] \o ss[i]
    BY <1>3, Zenon
  <2>2. 1 \in 1..n /\ \A i \in 2..n : i \in 1..n /\ i # 1
    OBVIOUS
  <2> HIDE DEF Recursive
  <2> QED  BY <2>1, <2>2, Zenon
<1> HIDE DEF Recursive
<1> DEFINE T == {k \in 1..n : G[k] = f[k]}
<1>7. 1 \in T
  BY <1>1, <1>6 DEF Joins
<1>8. ASSUME NEW k \in 1..(n - 1), k \in T PROVE k + 1 \in T
  <2>1. k + 1 \in 2..n /\ (k + 1) - 1 = k /\ G[k] = f[k]
    BY <1>8
  <2>2. G[k + 1] = G[k] \o ss[k + 1] /\ f[k + 1] = f[k] \o ss[k + 1]
    BY <1>1, <1>6, <2>1 DEF Joins
  <2>3. G[k + 1] = f[k + 1]
    BY <2>1, <2>2
  <2> QED  BY <2>1, <2>3
<1>9. n \in T
  <2> HIDE DEF T
  <2>1. 1..n \subseteq T
    BY <1>7, <1>8, UpTo
  <2> QED  BY <2>1
<1>10. FlattenSeq(ss) = f[n] /\ f[n] \in Seq(S) /\ Placed(f[n], a, ss, n)
  BY <1>1, <1>5, <1>9 DEF Joins
<1> QED  BY <1>10

-----------------------------------------------------------------------------
(* Where the chunks of a list stand *)

\* Chunk i of N holds the bytes b[i - 1] + 1 .. b[i] of the list.
Starts(b, N, cs) ==
  /\ N \in Nat /\ cs \in Nat \ {0}
  /\ b \in [0..N -> Nat] /\ b[0] = 0
  /\ \A i \in 1..N : b[i] = b[i - 1] + cs

\* How many of the first x bytes lie in the chunk that begins after lo.
Within(x, lo, cs) == IF x <= lo THEN 0 ELSE IF x >= lo + cs THEN cs ELSE x - lo

\* Offsets off and the current chunk first of a list of which P bytes are done.
Offset(off, first, b, N, cs, P) ==
  /\ P \in Nat /\ P <= b[N]
  /\ \A i \in 1..N : off[i] = MaxHeaderSize + Within(P, b[i - 1], cs)
  /\ first \in 0..N /\ b[first] <= P /\ (first < N => P < b[first + 1])

\* Chunks follow each other.
LEMMA StartsOrdered ==
  ASSUME NEW b, NEW N, NEW cs, Starts(b, N, cs), NEW i \in 0..N, NEW j \in 0..N, i < j
  PROVE  b[i] + cs <= b[j]
<1> DEFINE T == {k \in Nat : k <= N => \A l \in 0..N : l < k => b[l] + cs <= b[k]}
<1>1. 0 \in T
  BY DEF Starts
<1>2. ASSUME NEW k \in Nat, k \in T PROVE k + 1 \in T
  <2> SUFFICES ASSUME k + 1 <= N, NEW l \in 0..N, l < k + 1 PROVE b[l] + cs <= b[k + 1]
    OBVIOUS
  <2>1. N \in Nat /\ cs \in Nat /\ k \in 0..N /\ k + 1 \in 1..N /\ (k + 1) - 1 = k
    BY DEF Starts
  <2>2. b[k + 1] = b[k] + cs /\ b[k] \in Nat /\ b[l] \in Nat
    BY <2>1 DEF Starts
  <2>3. CASE l = k
    BY <2>1, <2>2, <2>3
  <2>4. CASE l # k
    <3>1. b[l] + cs <= b[k]
      BY <1>2, <2>1, <2>4
    <3> QED  BY <2>1, <2>2, <3>1
  <2> QED  BY <2>3, <2>4
<1>3. Nat \subseteq T
  <2> HIDE DEF T
  <2> QED  BY <1>1, <1>2, SetInduction
<1>4. j \in T /\ j <= N /\ N \in Nat
  BY <1>3 DEF Starts
<1> QED  BY <1>4

\* Every byte has a chunk.
LEMMA Located ==
  ASSUME NEW b, NEW N, NEW cs, Starts(b, N, cs), NEW q \in 1..b[N]
  PROVE  \E i \in 1..N : b[i - 1] < q /\ q <= b[i]
<1> DEFINE T == {k \in Nat : k <= N => (q <= b[k] => \E i \in 1..N : b[i - 1] < q /\ q <= b[i])}
<1>0. N \in Nat /\ b[N] \in Nat /\ q \in Nat \ {0} /\ q <= b[N]
  <2>1. N \in Nat /\ b[N] \in Nat
    BY DEF Starts
  <2> QED  BY <2>1
<1>1. 0 \in T
  BY <1>0 DEF Starts
<1>2. ASSUME NEW k \in Nat, k \in T PROVE k + 1 \in T
  <2> SUFFICES ASSUME k + 1 <= N, q <= b[k + 1] PROVE \E i \in 1..N : b[i - 1] < q /\ q <= b[i]
    OBVIOUS
  <2>1. k \in 0..N /\ k + 1 \in 1..N /\ (k + 1) - 1 = k /\ b[k] \in Nat
    BY <1>0 DEF Starts
  <2>2. CASE q <= b[k]
    BY <1>2, <2>1, <2>2
  <2>3. CASE b[k] < q
    BY <2>1, <2>3
  <2> QED  BY <1>0, <2>1, <2>2, <2>3
<1>3. Nat \subseteq T
  <2> HIDE DEF T
  <2> QED  BY <1>1, <1>2, SetInduction
<1>4. N \in T
  BY <1>0, <1>3
<1> QED  BY <1>0, <1>4

\* Not in two.
LEMMA OneChunkOf ==
  ASSUME NEW b, NEW N, NEW cs, Starts(b, N, cs), NEW q \in Nat,
         NEW i \in 1..N, b[i - 1] < q, q <= b[i], NEW j \in 1..N, b[j - 1] < q, q <= b[j]
  PROVE  i = j
<1>1. /\ N \in Nat /\ cs \in Nat /\ i - 1 \in 0..N /\ j - 1 \in 0..N /\ i \in 0..N /\ j \in 0..N
      /\ b[i] \in Nat /\ b[j] \in Nat /\ b[i - 1] \in Nat /\ b[j - 1] \in Nat
  BY DEF Starts
<1>2. ASSUME i < j PROVE FALSE
  <2>1. CASE i = j - 1
    BY <1>1, <2>1
  <2>2. CASE i < j - 1
    <3>1. b[i] + cs <= b[j - 1]
      BY <1>1, <2>2, StartsOrdered
    <3> QED  BY <1>1, <3>1
  <2> QED  BY <1>2, <2>1, <2>2
<1>3. ASSUME j < i PROVE FALSE
  <2>1. CASE j = i - 1
    BY <1>1, <2>1
  <2>2. CASE j < i - 1
    <3>1. b[j] + cs <= b[i - 1]
      BY <1>1, <2>2, StartsOrdered
    <3> QED  BY <1>1, <3>1
  <2> QED  BY <1>3, <2>1, <2>2
<1> QED  BY <1>2, <1>3

\* The cells: byte q of the list in chunk i.
CellsFrom(cells, b, N, P) ==
  /\ cells \in Seq(Nat \X Int) /\ Len(cells) = b[N] - P
  /\ \A i \in 1..N : \A q \in Nat :
       P < q /\ b[i - 1] < q /\ q <= b[i] => cells[q - P] = <<i, MaxHeaderSize + q - b[i - 1] - 1>>

\* The cells ahead of the offsets are those of the bytes not done, in order.
LEMMA AheadCells ==
  ASSUME MaxHeaderSize \in Nat, NEW b, NEW N, NEW cs, Starts(b, N, cs), NEW list, Len(list.chs) = N,
         \A i \in 1..N : list.chs[i].len = cs + MaxHeaderSize,
         NEW off, NEW first, NEW P, Offset(off, first, b, N, cs, P)
  PROVE  CellsFrom(Ahead(list, first, off), b, N, P)
<1> DEFINE H == MaxHeaderSize
           n == N - first
           Cells(i) == [j \in 1..(list.chs[i].len - off[i]) |-> <<i, off[i] + j - 1>>]
           ss == [k \in 1..n |-> Cells(first + k)]
<1>1. /\ N \in Nat /\ cs \in Nat \ {0} /\ P \in Nat /\ first \in 0..N /\ n \in Nat
      /\ b[first] \in Nat /\ b[N] \in Nat /\ b[first] <= P /\ P <= b[N]
  BY DEF Starts, Offset
<1>2. Ahead(list, first, off) = FlattenSeq(ss)
  BY DEF Ahead, has
<1>3. CASE n = 0
  <2>1. FlattenSeq(ss) = << >>
    <3>1. ss = << >>
      BY <1>3
    <3> HIDE DEF ss
    <3>2. Len(ss) = 0
      BY <3>1
    <3> QED  BY <3>1, <3>2 DEF FlattenSeq
  <2>2. first = N /\ b[N] = P
    BY <1>1, <1>3
  <2>3. ASSUME NEW i \in 1..N, NEW q \in Nat, P < q, q <= b[i] PROVE FALSE
    <3>1. i \in 0..N /\ b[i] \in Nat
      BY <1>1 DEF Starts
    <3>2. b[i] <= b[N]
      <4>1. CASE i = N
        BY <1>1, <4>1
      <4>2. CASE i # N
        <5>1. N \in 0..N /\ i < N
          BY <1>1, <4>2
        <5>2. b[i] + cs <= b[N]
          BY <3>1, <5>1, StartsOrdered
        <5> QED  BY <1>1, <3>1, <5>2
      <4> QED  BY <4>1, <4>2
    <3> QED  BY <1>1, <2>2, <2>3, <3>1, <3>2
  <2>4. << >> \in Seq(Nat \X Int) /\ Len(<< >>) = b[N] - P
    BY <1>1, <2>2
  <2> QED  BY <1>2, <2>1, <2>3, <2>4 DEF CellsFrom
<1>4. CASE n # 0
  <2> DEFINE w == [k \in 1..n |-> Within(P, b[(first + k) - 1], cs)]
             a == [k \in 1..(n + 1) |-> IF k = 1 THEN 0 ELSE b[(first + k) - 1] - P]
  <2>1. ASSUME NEW k \in 1..n
        PROVE  /\ first + k \in 1..N /\ (first + k) - 1 \in 0..N
               /\ b[first + k] \in Nat /\ b[(first + k) - 1] \in Nat
               /\ b[first + k] = b[(first + k) - 1] + cs
               /\ P < b[first + k]
               /\ k > 1 => P < b[(first + k) - 1]
    <3>1. first + k \in 1..N /\ (first + k) - 1 \in 0..N /\ first + k \in 0..N /\ first < N
      BY SMTT(30), <1>1
    <3>2. b[first + k] \in Nat /\ b[(first + k) - 1] \in Nat /\ b[first + k] = b[(first + k) - 1] + cs
      <4> PICK h : h = first + k
        OBVIOUS
      <4>1. h \in 1..N /\ h \in 0..N /\ h - 1 \in 0..N
        BY <3>1
      <4>2. b[h] \in Nat
        BY <4>1 DEF Starts
      <4>3. b[h - 1] \in Nat
        BY <4>1 DEF Starts
      <4>4. b[h] = b[h - 1] + cs
        BY <4>1 DEF Starts
      <4> QED  BY <4>2, <4>3, <4>4
    <3>3. P < b[first + 1] /\ first + 1 \in 0..N /\ b[first + 1] \in Nat
      <4>1. P < b[first + 1] /\ first + 1 \in 0..N
        BY <1>1, <3>1 DEF Offset
      <4> QED  BY <4>1 DEF Starts
    <3>4. ASSUME NEW j \in 0..N, first + 1 <= j PROVE P < b[j]
      <4>0. b[j] \in Nat
        BY DEF Starts
      <4>1. CASE j = first + 1
        BY <3>3, <4>1
      <4>2. CASE j # first + 1
        <5>1. first + 1 < j
          BY <1>1, <3>4, <4>2
        <5>2. b[first + 1] + cs <= b[j]
          BY <3>3, <5>1, StartsOrdered
        <5> QED  BY <1>1, <3>3, <4>0, <5>2
      <4> QED  BY <4>1, <4>2
    <3>5. P < b[first + k]
      BY <1>1, <3>1, <3>4
    <3>6. ASSUME k > 1 PROVE P < b[(first + k) - 1]
      <4>1. first + 1 <= (first + k) - 1
        BY <1>1, <3>6
      <4> QED  BY <3>1, <3>4, <4>1
    <3> QED  BY <3>1, <3>2, <3>5, <3>6
  <2>2. ASSUME NEW k \in 1..n
        PROVE  /\ w[k] \in Nat /\ w[k] <= cs
               /\ a[k] = b[(first + k) - 1] + w[k] - P /\ a[k] \in Nat
               /\ a[k + 1] = b[first + k] - P /\ a[k + 1] \in Nat
    <3>1. k \in 1..(n + 1) /\ k + 1 \in 1..(n + 1) /\ k + 1 # 1 /\ (first + (k + 1)) - 1 = first + k
      BY <1>1
    <3>2. a[k + 1] = b[first + k] - P
      BY <3>1
    <3>3. a[k + 1] \in Nat
      BY <1>1, <2>1, <3>2
    <3>4. CASE k = 1
      <4>1. (first + k) - 1 = first /\ a[k] = 0
        BY <1>1, <3>1, <3>4
      <4>2. w[k] = P - b[first]
        <5>1. w[k] = Within(P, b[first], cs)
          BY <4>1
        <5>2. P < b[first] + cs
          BY <2>1, <4>1
        <5>3. PICK lo \in Nat : lo = b[first]
          BY <1>1
        <5> HIDE DEF w
        <5>4. Within(P, lo, cs) = P - lo
          BY <1>1, <5>2, <5>3 DEF Within
        <5> QED  BY <5>1, <5>3, <5>4
      <4> HIDE DEF w, a
      <4>3. w[k] \in Nat /\ w[k] <= cs
        <5>1. PICK lo \in Nat : lo = b[first]
          BY <1>1
        <5>2. P < lo + cs
          BY <2>1, <4>1, <5>1
        <5> QED  BY SMTT(30), <1>1, <4>2, <5>1, <5>2
      <4>4. a[k] = b[(first + k) - 1] + w[k] - P
        BY <1>1, <4>1, <4>2
      <4> QED  BY <3>2, <3>3, <4>1, <4>3, <4>4
    <3>5. CASE k # 1
      <4>1. a[k] = b[(first + k) - 1] - P
        BY <3>1, <3>5
      <4>2. w[k] = 0
        <5>1. P <= b[(first + k) - 1]
          <6>1. k > 1
            BY <1>1, <3>5
          <6>2. P < b[(first + k) - 1] /\ b[(first + k) - 1] \in Nat
            BY <2>1, <6>1
          <6> QED  BY <1>1, <6>2
        <5> QED  BY <5>1 DEF Within
      <4> HIDE DEF w, a
      <4>3. PICK lo : lo = b[(first + k) - 1]
        OBVIOUS
      <4>4. lo \in Nat
        BY <2>1, <4>3
      <4>5. P < lo
        <5>1. k > 1
          BY <1>1, <3>5
        <5> QED  BY <2>1, <4>3, <5>1
      <4>6. a[k] = lo + w[k] - P
        BY <1>1, <4>1, <4>2, <4>3, <4>4
      <4>7. a[k] \in Nat
        BY <1>1, <4>1, <4>3, <4>4, <4>5
      <4> QED  BY <1>1, <3>2, <3>3, <4>2, <4>3, <4>6, <4>7
    <3> QED  BY <3>4, <3>5
  <2> HIDE DEF w, a
  <2>3. ASSUME NEW k \in 1..n
        PROVE  /\ ss[k] \in Seq(Nat \X Int) /\ Len(ss[k]) = cs - w[k]
               /\ \A j \in 1..(cs - w[k]) : ss[k][j] = <<first + k, H + w[k] + j - 1>>
    <3>1. ss[k] = Cells(first + k)
      OBVIOUS
    <3>2. off[first + k] = H + w[k]
      BY <2>1 DEF Offset, w
    <3>0. w[k] \in Nat /\ w[k] <= cs
      BY <2>2
    <3>3. list.chs[first + k].len = cs + H
      BY <2>1
    <3> HIDE DEF w, ss
    <3>4. Cells(first + k) = [j \in 1..(cs - w[k]) |-> <<first + k, H + w[k] + j - 1>>]
      <4>1. list.chs[first + k].len - off[first + k] = cs - w[k]
        BY <1>1, <3>0, <3>2, <3>3
      <4> QED  BY <3>2, <4>1
    <3>5. PICK l \in Nat : l = cs - w[k]
      BY <1>1, <3>0
    <3>6. first + k \in Nat /\ \A j \in 1..l : H + w[k] + j - 1 \in Int
      <4>1. PICK x \in Nat : x = w[k]
        BY <3>0
      <4>2. first + k \in Nat /\ \A j \in 1..l : H + x + j - 1 \in Int
        BY <1>1
      <4> QED  BY <4>1, <4>2
    <3>7. [j \in 1..l |-> <<first + k, H + w[k] + j - 1>>] \in Seq(Nat \X Int)
      BY <3>6
    <3>8. Len([j \in 1..l |-> <<first + k, H + w[k] + j - 1>>]) = l
      OBVIOUS
    <3>9. ss[k] = [j \in 1..l |-> <<first + k, H + w[k] + j - 1>>]
      BY <3>1, <3>4, <3>5
    <3> QED  BY <3>5, <3>7, <3>8, <3>9
  <2>4. ss \in [1..n -> Seq(Nat \X Int)]
    BY <2>3
  <2>5. Spaced(a, ss, n)
    <3>1. a[1] = 0
      BY <1>1 DEF a
    <3>2. a \in [1..(n + 1) -> Nat]
      <4>1. ASSUME NEW k \in 1..(n + 1) PROVE a[k] \in Nat
        <5>1. CASE k = 1
          BY <3>1, <5>1
        <5>2. CASE k # 1
          <6>1. k - 1 \in 1..n /\ (k - 1) + 1 = k
            BY <1>1, <5>2
          <6> QED  BY <2>2, <6>1
        <5> QED  BY <5>1, <5>2
      <4> QED  BY <4>1 DEF a
    <3> HIDE DEF ss
    <3>3. ASSUME NEW k \in 1..n PROVE a[k + 1] = a[k] + Len(ss[k])
      <4> HIDE DEF w
      <4>1. PICK lo \in Nat : lo = b[(first + k) - 1]
        BY <2>1
      <4>2. PICK x \in Nat : x = w[k]
        BY <2>2
      <4>3. a[k] = lo + x - P /\ a[k + 1] = (lo + cs) - P /\ Len(ss[k]) = cs - x
        BY <2>1, <2>2, <2>3, <4>1, <4>2
      <4>4. (lo + cs) - P = (lo + x - P) + (cs - x)
        BY SMTT(30), <1>1, <4>1, <4>2
      <4> QED  BY <4>3, <4>4
    <3> QED  BY <3>1, <3>2, <3>3 DEF Spaced
  <2>6. /\ FlattenSeq(ss) \in Seq(Nat \X Int)
        /\ Placed(FlattenSeq(ss), a, ss, n)
    <3> HIDE DEF ss, a
    <3>1. n \in Nat \ {0}
      BY <1>1, <1>4
    <3> HIDE DEF n
    <3>2. FlattenSeq(ss) \in Seq(Nat \X Int)
      BY <2>4, <2>5, <3>1, FlattenPlaced
    <3>3. Placed(FlattenSeq(ss), a, ss, n)
      BY <2>4, <2>5, <3>1, FlattenPlaced
    <3> QED  BY <3>2, <3>3
  <2>7. Len(FlattenSeq(ss)) = b[N] - P
    <3>1. n \in 1..n /\ first + n = N
      BY <1>1, <1>4
    <3> HIDE DEF ss, a, n
    <3> QED  BY <2>2, <2>6, <3>1 DEF Placed
  <2>8. ASSUME NEW i \in 1..N, NEW q \in Nat, P < q, b[i - 1] < q, q <= b[i]
        PROVE  FlattenSeq(ss)[q - P] = <<i, H + q - b[i - 1] - 1>>
    <3> DEFINE k == i - first
               j == q - P - a[k]
    <3>1. i \in 0..N /\ i - 1 \in 0..N /\ b[i] \in Nat /\ b[i - 1] \in Nat
      BY <1>1 DEF Starts
    <3>2. first < i
      <4> SUFFICES ASSUME i <= first PROVE FALSE
        BY <1>1
      <4>1. b[i] <= b[first]
        <5>1. CASE i = first
          BY <1>1, <5>1
        <5>2. CASE i < first
          <6>1. b[i] + cs <= b[first]
            BY <1>1, <3>1, <5>2, StartsOrdered
          <6> QED  BY <1>1, <3>1, <6>1
        <5> QED  BY <1>1, <5>1, <5>2
      <4> QED  BY <1>1, <2>8, <3>1, <4>1
    <3>3. k \in 1..n /\ first + k = i /\ (first + k) - 1 = i - 1
      BY <1>1, <3>2
    <3> HIDE DEF n, ss
    <3>4. a[k] = b[i - 1] + w[k] - P /\ a[k] \in Nat /\ w[k] \in Nat /\ b[i] = b[i - 1] + cs
      <4> HIDE DEF w, a, k
      <4> QED  BY <2>1, <2>2, <3>3
    <3> HIDE DEF a, k
    <3>5. j \in 1..(cs - w[k]) /\ a[k] + j = q - P /\ H + w[k] + j - 1 = H + q - b[i - 1] - 1
      <4>1. w[k] <= q - b[i - 1] - 1
        <5>1. w[k] = Within(P, b[i - 1], cs)
          BY <3>3 DEF w
        <5>2. PICK lo \in Nat : lo = b[i - 1]
          BY <3>1
        <5> HIDE DEF w
        <5>3. Within(P, lo, cs) <= q - lo - 1
          <6>1. P < q /\ lo < q /\ P \in Nat /\ cs \in Nat
            BY <1>1, <2>8, <5>2
          <6>2. cs <= q - lo - 1 \/ P < lo + cs
            BY <6>1
          <6> QED  BY <6>1, <6>2 DEF Within
        <5> QED  BY <5>1, <5>2, <5>3
      <4> HIDE DEF w
      <4>2. PICK lo \in Nat : lo = b[i - 1]
        BY <3>1
      <4>3. PICK x \in Nat : x = w[k]
        BY <3>4
      <4>4. PICK y \in Nat : y = a[k]
        BY <3>4
      <4>5. y = lo + x - P /\ x <= q - lo - 1 /\ q <= lo + cs
        BY <2>8, <3>4, <4>1, <4>2, <4>3, <4>4
      <4>6. j = q - P - y
        BY <4>4
      <4> HIDE DEF j
      <4>7. j = q - (lo + x) /\ j \in 1..(cs - x)
        BY SMTT(30), <1>1, <4>5, <4>6
      <4>8. y + j = q - P /\ H + x + j - 1 = H + q - lo - 1
        BY <1>1, <4>5, <4>7
      <4> QED  BY <4>2, <4>3, <4>4, <4>7, <4>8
    <3> HIDE DEF j, w
    <3>6. FlattenSeq(ss)[a[k] + j] = ss[k][j]
      BY <2>3, <2>6, <3>3, <3>5 DEF Placed
    <3> QED  BY <2>3, <3>3, <3>5, <3>6
  <2> HIDE DEF ss, a
  <2> QED  BY <1>2, <2>6, <2>7, <2>8 DEF CellsFrom
<1> QED  BY <1>3, <1>4

\* No more than the chunk has.
LEMMA WithinType ==
  ASSUME NEW x \in Nat, NEW lo \in Nat, NEW cs \in Nat
  PROVE  Within(x, lo, cs) \in Nat /\ Within(x, lo, cs) <= cs
BY DEF Within

\* Of the next m bytes a chunk gives those between two offsets.
LEMMA TakenBetween ==
  ASSUME NEW b, NEW N, NEW cs, Starts(b, N, cs), NEW P \in Nat, P <= b[N],
         NEW cells, CellsFrom(cells, b, N, P), NEW m \in 0..(b[N] - P), NEW i \in 1..N
  PROVE  TakenIn(cells, m, i) = Within(P + m, b[i - 1], cs) - Within(P, b[i - 1], cs)
<1>1. /\ N \in Nat /\ cs \in Nat /\ b[N] \in Nat /\ m \in Nat /\ i - 1 \in 0..N
      /\ b[i - 1] \in Nat /\ b[i] = b[i - 1] + cs
  <2>1. N \in Nat /\ cs \in Nat /\ i - 1 \in 0..N
    BY DEF Starts
  <2>2. b[i - 1] \in Nat /\ b[N] \in Nat
    BY <2>1 DEF Starts
  <2>3. b[i] = b[i - 1] + cs
    BY DEF Starts
  <2> QED  BY <2>1, <2>2, <2>3
<1>2. PICK lo \in Nat : lo = b[i - 1]
  BY <1>1
<1>3. PICK x \in Int : x = Within(P, lo, cs)
  BY <1>1, WithinType
<1>4. PICK y \in Int : y = Within(P + m, lo, cs)
  <2>1. P + m \in Nat
    BY <1>1
  <2> QED  BY <1>1, <2>1, WithinType
<1>5. ASSUME NEW j \in 1..m
      PROVE  cells[j][1] = i <=> lo < P + j /\ P + j <= lo + cs
  <2>1. P + j \in 1..b[N] /\ P + j \in Nat /\ P < P + j /\ (P + j) - P = j
    BY <1>1
  <2>2. PICK k \in 1..N : b[k - 1] < P + j /\ P + j <= b[k]
    BY <2>1, Located
  <2>3. cells[(P + j) - P][1] = k
    <3>1. PICK q \in Nat : q = P + j
      BY <2>1
    <3>2. cells[q - P] = <<k, MaxHeaderSize + q - b[k - 1] - 1>>
      BY <2>1, <2>2, <3>1 DEF CellsFrom
    <3> QED  BY <3>1, <3>2
  <2>4. cells[j][1] = k
    BY <2>1, <2>3
  <2>5. ASSUME lo < P + j, P + j <= lo + cs PROVE k = i
    <3>1. b[i - 1] < P + j /\ P + j <= b[i]
      BY <1>1, <1>2, <2>5
    <3> HIDE DEF CellsFrom
    <3> QED  BY <2>1, <2>2, <3>1, OneChunkOf
  <2>6. k = i => lo < P + j /\ P + j <= lo + cs
    BY <1>1, <1>2, <2>2
  <2> QED  BY <2>4, <2>5, <2>6
<1>6. {j \in 1..m : cells[j][1] = i} = (lo + x - P + 1)..(lo + y - P)
  <2>1. ASSUME NEW j \in 1..m PROVE (lo < P + j /\ P + j <= lo + cs) <=> j \in (lo + x - P + 1)..(lo + y - P)
    BY <1>1, <1>3, <1>4 DEF Within
  <2>2. ASSUME NEW j \in (lo + x - P + 1)..(lo + y - P) PROVE j \in 1..m
    BY <1>1, <1>3, <1>4 DEF Within
  <2> QED  BY <1>5, <2>1, <2>2
<1>7. Cardinality((lo + x - P + 1)..(lo + y - P)) = y - x
  <2>1. x <= y
    BY <1>1, <1>3, <1>4 DEF Within
  <2>2. lo + x - P + 1 \in Int /\ lo + y - P \in Int
    BY <1>1
  <2>3. (lo + y - P) - (lo + x - P + 1) + 1 = y - x
    BY <1>1
  <2>4. lo + x - P + 1 > lo + y - P => y = x
    BY <1>1, <2>1
  <2>5. \A u \in Int : \A v \in Int : Cardinality(u..v) = IF u > v THEN 0 ELSE v - u + 1
    BY FS_Interval
  <2>6. PICK u \in Int : u = lo + x - P + 1
    BY <2>2
  <2>7. PICK v \in Int : v = lo + y - P
    BY <2>2
  <2>8. Cardinality(u..v) = IF u > v THEN 0 ELSE v - u + 1
    BY <2>5
  <2> QED  BY <1>1, <2>1, <2>3, <2>4, <2>6, <2>7, <2>8
<1> QED  BY <1>2, <1>3, <1>4, <1>6, <1>7 DEF TakenIn

\* The chunk the next byte is in.
LEMMA NextChunk ==
  ASSUME NEW b, NEW N, NEW cs, Starts(b, N, cs), NEW P \in Nat, P <= b[N],
         NEW cells, CellsFrom(cells, b, N, P), NEW list, Len(list.chs) = N,
         NEW m \in 0..(b[N] - P), NEW f, f = ChunkOfNext(list, cells, m)
  PROVE  f \in 0..N /\ b[f] <= P + m /\ (f < N => P + m < b[f + 1])
<1>1. N \in Nat /\ b[N] \in Nat /\ m \in Nat /\ Len(cells) = b[N] - P
  <2>1. N \in Nat /\ b[N] \in Nat
    BY DEF Starts
  <2> QED  BY <2>1 DEF CellsFrom
<1>2. CASE m < b[N] - P
  <2> DEFINE q == P + m + 1
  <2>1. q \in 1..b[N] /\ q \in Nat /\ P < q /\ q - P = m + 1
    BY <1>1, <1>2
  <2> HIDE DEF q
  <2>2. PICK k \in 1..N : b[k - 1] < q /\ q <= b[k]
    BY <2>1, Located
  <2>3. cells[m + 1][1] = k
    BY <2>1, <2>2 DEF CellsFrom
  <2>4. f = k - 1
    BY <1>1, <1>2, <2>3 DEF ChunkOfNext
  <2>5. b[k - 1] \in Nat /\ b[k] \in Nat /\ k - 1 \in 0..N /\ (k - 1) + 1 = k
    BY <1>1 DEF Starts
  <2>6. b[k - 1] <= P + m /\ P + m < b[k]
    BY <1>1, <2>2, <2>5 DEF q
  <2> QED  BY <2>4, <2>5, <2>6
<1>3. CASE ~(m < b[N] - P)
  <2>1. f = N
    BY <1>1, <1>3 DEF ChunkOfNext, has
  <2>2. P + m = b[N]
    BY <1>1, <1>3
  <2> QED  BY <1>1, <2>1, <2>2
<1> QED  BY <1>2, <1>3

\* So the offsets keep in step when each chunk's moves by what is taken in it.
LEMMA OffsetMoved ==
  ASSUME MaxHeaderSize \in Nat, NEW b, NEW N, NEW cs, Starts(b, N, cs), NEW list, Len(list.chs) = N,
         NEW off, NEW first, NEW P, Offset(off, first, b, N, cs, P),
         NEW cells, CellsFrom(cells, b, N, P), NEW m \in 0..(b[N] - P),
         NEW off2, \A i \in 1..N : off2[i] = off[i] + TakenIn(cells, m, i)
  PROVE  Offset(off2, ChunkOfNext(list, cells, m), b, N, cs, P + m)
<1>1. /\ N \in Nat /\ cs \in Nat /\ P \in Nat /\ P <= b[N] /\ b[N] \in Nat /\ m \in Nat
      /\ P + m \in Nat /\ P + m <= b[N]
  <2>1. N \in Nat /\ cs \in Nat /\ b[N] \in Nat /\ P \in Nat /\ P <= b[N]
    BY DEF Starts, Offset
  <2> QED  BY <2>1
<1>2. ASSUME NEW i \in 1..N PROVE off2[i] = MaxHeaderSize + Within(P + m, b[i - 1], cs)
  <2>1. i - 1 \in 0..N /\ b[i - 1] \in Nat
    BY <1>1 DEF Starts
  <2>2. PICK x \in Nat : x = Within(P, b[i - 1], cs)
    BY <1>1, <2>1, WithinType
  <2>3. PICK y \in Nat : y = Within(P + m, b[i - 1], cs)
    BY <1>1, <2>1, WithinType
  <2>4. off[i] = MaxHeaderSize + x
    BY <2>2 DEF Offset
  <2>5. TakenIn(cells, m, i) = y - x
    BY SMTT(30), <1>1, <2>2, <2>3, TakenBetween
  <2>6. off2[i] = (MaxHeaderSize + x) + (y - x)
    BY <2>4, <2>5
  <2> QED  BY <2>2, <2>3, <2>6
<1>3. PICK f : f = ChunkOfNext(list, cells, m)
  OBVIOUS
<1>4. f \in 0..N /\ b[f] <= P + m /\ (f < N => P + m < b[f + 1])
  BY <1>1, <1>3, NextChunk
<1> QED  BY <1>1, <1>2, <1>3, <1>4 DEF Offset

-----------------------------------------------------------------------------
(* Reading *)

\* Byte j of the buffers of a message of n bytes.
Full(n, j) == IF j <= n THEN Data(j) ELSE Zero

\* The fields of a chunk, and of a list.
IsChunk(ck) ==
  ck = [buf |-> ck.buf, len |-> ck.len, offr |-> ck.offr, offw |-> ck.offw, head |-> ck.head, offs |-> ck.offs]
IsList(list, N) ==
  /\ list = [chs |-> list.chs, offr |-> list.offr, offw |-> list.offw]
  /\ Len(list.chs) = N /\ list.chs = [i \in 1..N |-> list.chs[i]]
  /\ \A i \in 1..N : IsChunk(list.chs[i])

\* The list holds a message of n bytes in front of zeros; P bytes of it are read.
Holding(list, n, N, b, cs, P) ==
  /\ Starts(b, N, cs) /\ n \in Nat /\ n <= b[N]
  /\ IsList(list, N)
  /\ \A i \in 1..N :
       /\ list.chs[i].len = cs + MaxHeaderSize
       /\ \A c \in 1..cs : list.chs[i].buf[MaxHeaderSize + c - 1] = Full(n, b[i - 1] + c)
  /\ Offset([i \in 1..N |-> list.chs[i].offr], list.offr, b, N, cs, P)

\* A read of k bytes gives the next ones.
LEMMA ReadHolding ==
  ASSUME MaxHeaderSize \in Nat, NEW list, NEW n, NEW N, NEW b, NEW cs, NEW P,
         Holding(list, n, N, b, cs, P), NEW k \in Nat
  PROVE  LET r == ReadList(list, k)
         IN  /\ r.n \in 0..(b[N] - P) /\ r.n <= k /\ (r.n < k => P + r.n = b[N])
             /\ r.err = Outcome(k, r.n)
             /\ r.p \in Seq({Full(n, j) : j \in Nat}) /\ Len(r.p) = r.n
             /\ \A j \in 1..r.n : r.p[j] = Full(n, P + j)
             /\ Holding(r.cl, n, N, b, cs, P + r.n)
<1> DEFINE off == [i \in 1..N |-> list.chs[i].offr]
           cells == Ahead(list, list.offr, [i \in 1..has(list) |-> list.chs[i].offr])
           m == Few(k, cells)
           r == ReadList(list, k)
           chs == [i \in 1..N |-> [list.chs[i] EXCEPT !.offr = list.chs[i].offr + TakenIn(cells, m, i)]]
           next == ChunkOfNext(list, cells, m)
<1>1. /\ N \in Nat /\ cs \in Nat /\ P \in Nat /\ b[N] \in Nat /\ P <= b[N] /\ has(list) = N
      /\ Starts(b, N, cs) /\ Len(list.chs) = N /\ n \in Nat /\ n <= b[N]
      /\ Offset(off, list.offr, b, N, cs, P)
  BY DEF Holding, IsList, has, Starts, Offset
<1>2. CellsFrom(cells, b, N, P)
  <2>1. \A i \in 1..N : list.chs[i].len = cs + MaxHeaderSize
    BY DEF Holding
  <2> HIDE DEF cells
  <2>2. cells = Ahead(list, list.offr, off)
    BY <1>1 DEF cells
  <2> HIDE DEF off
  <2> QED  BY <1>1, <2>1, <2>2, AheadCells
<1>3. Len(cells) = b[N] - P /\ Len(cells) \in Nat
  <2> HIDE DEF cells
  <2> QED  BY <1>1, <1>2 DEF CellsFrom
<1>4. m \in 0..(b[N] - P) /\ m <= k /\ (m < k => P + m = b[N]) /\ m \in Nat
  <2> HIDE DEF cells
  <2> QED  BY <1>1, <1>3 DEF Few
<1>5. /\ r.n = m /\ r.err = Outcome(k, m)
      /\ r.p = [j \in 1..m |-> list.chs[cells[j][1]].buf[cells[j][2]]]
      /\ r.cl = [list EXCEPT !.chs = [i \in 1..has(list) |->
                    [list.chs[i] EXCEPT !.offr = list.chs[i].offr + TakenIn(cells, m, i)]],
                             !.offr = next]
  <2>1. r.n = m
    BY DEF ReadList
  <2>2. r.err = Outcome(k, m)
    BY DEF ReadList
  <2>3. r.p = [j \in 1..m |-> list.chs[cells[j][1]].buf[cells[j][2]]]
    BY DEF ReadList
  <2>4. r.cl = [list EXCEPT !.chs = [i \in 1..has(list) |->
                    [list.chs[i] EXCEPT !.offr = list.chs[i].offr + TakenIn(cells, m, i)]],
                             !.offr = next]
    BY DEF ReadList
  <2> QED  BY <2>1, <2>2, <2>3, <2>4
<1>6. r.cl = [list EXCEPT !.chs = chs, !.offr = next]
  <2> HIDE DEF r, cells, m, next
  <2> QED  BY <1>1, <1>5
<1> HIDE DEF cells, m, r, next
<1>7. ASSUME NEW j \in 1..m PROVE r.p[j] = Full(n, P + j)
  <2>1. PICK q \in Nat : q = P + j
    BY <1>1, <1>4
  <2>2. q \in 1..b[N] /\ P < q /\ q - P = j
    BY <1>1, <1>4, <2>1
  <2>3. PICK i \in 1..N : b[i - 1] < q /\ q <= b[i]
    BY <1>1, <2>2, Located
  <2>4. cells[j] = <<i, MaxHeaderSize + q - b[i - 1] - 1>>
    BY <1>2, <2>1, <2>2, <2>3 DEF CellsFrom
  <2>5. PICK lo \in Nat : lo = b[i - 1]
    <3>1. i - 1 \in 0..N
      BY <1>1
    <3> QED  BY <1>1, <3>1 DEF Starts
  <2>6. b[i] = lo + cs
    BY <1>1, <2>5 DEF Starts
  <2>7. PICK c \in 1..cs : c = q - lo
    BY <1>1, <2>3, <2>5, <2>6
  <2>8. MaxHeaderSize + q - lo - 1 = MaxHeaderSize + c - 1 /\ lo + c = q
    BY <2>1, <2>7
  <2>9. r.p[j] = list.chs[i].buf[MaxHeaderSize + c - 1]
    <3>1. cells[j][1] = i /\ cells[j][2] = MaxHeaderSize + c - 1
      BY <2>4, <2>5, <2>8
    <3>2. r.p[j] = list.chs[cells[j][1]].buf[cells[j][2]]
      BY <1>5
    <3> QED  BY <3>1, <3>2
  <2>10. list.chs[i].buf[MaxHeaderSize + c - 1] = Full(n, lo + c)
    BY <2>5 DEF Holding
  <2> QED  BY <2>1, <2>8, <2>9, <2>10
<1>8. r.p \in Seq({Full(n, j) : j \in Nat}) /\ Len(r.p) = m
  <2>1. \A j \in 1..m : P + j \in Nat
    BY <1>1
  <2>2. \A j \in 1..m : r.p[j] \in {Full(n, l) : l \in Nat}
    BY <1>7, <2>1
  <2>3. r.p = [j \in 1..m |-> r.p[j]]
    BY <1>5
  <2>4. PICK F : F = {Full(n, l) : l \in Nat}
    OBVIOUS
  <2>5. \A j \in 1..m : r.p[j] \in F
    BY <2>2, <2>4
  <2>6. PICK p : p = r.p
    OBVIOUS
  <2>7. p = [j \in 1..m |-> p[j]] /\ \A j \in 1..m : p[j] \in F
    BY <2>3, <2>5, <2>6
  <2>8. p \in Seq(F) /\ Len(p) = m
    BY <1>4, <2>7
  <2> QED  BY <2>4, <2>6, <2>8
<1>9. ASSUME NEW i \in 1..N
      PROVE  /\ IsChunk(chs[i]) /\ chs[i].buf = list.chs[i].buf /\ chs[i].len = list.chs[i].len
             /\ chs[i].offr = off[i] + TakenIn(cells, m, i)
  <2>1. PICK ck : ck = list.chs[i]
    OBVIOUS
  <2>2. IsChunk(ck)
    BY <2>1 DEF Holding, IsList
  <2>3. PICK v : v = ck.offr + TakenIn(cells, m, i)
    OBVIOUS
  <2>4. chs[i] = [ck EXCEPT !.offr = v]
    BY <2>1, <2>3
  <2>5. off[i] = ck.offr
    BY <2>1
  <2> HIDE DEF chs, off
  <2>6. chs[i] = [buf |-> ck.buf, len |-> ck.len, offr |-> v, offw |-> ck.offw, head |-> ck.head, offs |-> ck.offs]
    BY <2>2, <2>4 DEF IsChunk
  <2> QED  BY <2>1, <2>3, <2>5, <2>6 DEF IsChunk
<1>10. /\ r.cl = [chs |-> chs, offr |-> next, offw |-> list.offw]
       /\ Len(chs) = N /\ chs = [i \in 1..N |-> chs[i]]
  <2>1. Len(chs) = N /\ chs = [i \in 1..N |-> chs[i]]
    BY <1>1
  <2>2. list = [chs |-> list.chs, offr |-> list.offr, offw |-> list.offw]
    BY DEF Holding, IsList
  <2> HIDE DEF chs
  <2>3. r.cl = [chs |-> chs, offr |-> next, offw |-> list.offw]
    BY <1>6, <2>2
  <2> QED  BY <2>1, <2>3
<1> HIDE DEF chs
<1>11. Offset([i \in 1..N |-> chs[i].offr], next, b, N, cs, P + m)
  <2> DEFINE off2 == [i \in 1..N |-> chs[i].offr]
  <2>1. \A i \in 1..N : off2[i] = off[i] + TakenIn(cells, m, i)
    BY <1>9
  <2> HIDE DEF off2, off
  <2>2. Offset(off2, next, b, N, cs, P + m)
    BY <1>1, <1>2, <1>4, <2>1, OffsetMoved DEF next
  <2> QED  BY <2>2 DEF off2
<1>12. Holding(r.cl, n, N, b, cs, P + m)
  <2>1. r.cl.chs = chs /\ r.cl.offr = next
    BY <1>10
  <2>2. IsList(r.cl, N)
    <3>1. PICK l : l = [chs |-> chs, offr |-> next, offw |-> list.offw]
      OBVIOUS
    <3>2. l = [chs |-> l.chs, offr |-> l.offr, offw |-> l.offw] /\ l.chs = chs
      BY <3>1
    <3>3. IsList(l, N)
      BY <1>9, <1>10, <3>2 DEF IsList
    <3> QED  BY <1>10, <3>1, <3>3
  <2>3. ASSUME NEW i \in 1..N
        PROVE  /\ chs[i].len = cs + MaxHeaderSize
               /\ \A c \in 1..cs : chs[i].buf[MaxHeaderSize + c - 1] = Full(n, b[i - 1] + c)
    BY <1>9 DEF Holding
  <2> QED  BY <1>1, <1>11, <2>1, <2>2, <2>3 DEF Holding
<1> QED  BY <1>4, <1>5, <1>7, <1>8, <1>12 DEF r

(***************************************************************************)
(* The invariant of the reader: of the list as it was received, as many    *)
(* bytes are read as were given out, and they are the ones in front.       *)
(***************************************************************************)
ReaderInvWith(N, b, cs) ==
  /\ Holding(cl, mlen, N, b, cs, Len(got))
  /\ got \in Seq({Full(mlen, j) : j \in Nat})
  /\ \A j \in 1..Len(got) : got[j] = Full(mlen, j)
  /\ last.n < last.k => last.err = "EOF"
  /\ last.k > 0 /\ last.err = "EOF" => Len(got) >= mlen

ReaderInv == \E N, b, cs : ReaderInvWith(N, b, cs)

\* A chunk as pumpMessage fills it (conn.go:396-406): a part of the body in
\* front.
LEMMA FilledChunk ==
  ASSUME MaxHeaderSize \in Nat, NEW cs \in Nat \ {0}, NEW from \in Nat, NEW n \in 0..cs
  PROVE  LET ck == Filled(cs, from, n)
         IN  /\ IsChunk(ck) /\ ck.len = cs + MaxHeaderSize /\ ck.offr = MaxHeaderSize
             /\ \A c \in 1..cs : ck.buf[MaxHeaderSize + c - 1] = IF c <= n THEN Data(from + c) ELSE Zero
<1> DEFINE H == MaxHeaderSize
           ck == Filled(cs, from, n)
           new == newChunk(cs)
           zero == [c \in 0..(cs + H - 1) |-> Zero]
           B == [c \in 0..(cs + H - 1) |-> IF c \in H..(H + n - 1) THEN Data(from + c - H + 1) ELSE Zero]
<1>1. new = [buf |-> zero, len |-> cs + H, offr |-> H, offw |-> H, head |-> H, offs |-> H]
  BY DEF newChunk
<1>2. ck = [new EXCEPT !.buf = [c \in DOMAIN zero |->
        IF c \in H..(H + n - 1) THEN Data(from + c - H + 1) ELSE zero[c]]]
  <2>1. new.buf = zero
    BY <1>1
  <2> HIDE DEF new, zero
  <2> QED  BY <2>1, Zenon DEF Filled, chunkPool, new
<1>3. [c \in DOMAIN zero |-> IF c \in H..(H + n - 1) THEN Data(from + c - H + 1) ELSE zero[c]] = B
  OBVIOUS
<1> HIDE DEF ck, new, zero
<1>4. ck = [new EXCEPT !.buf = B]
  <2> HIDE DEF B
  <2> QED  BY <1>2, <1>3
<1>5. ck = [buf |-> B, len |-> cs + H, offr |-> H, offw |-> H, head |-> H, offs |-> H]
  <2> HIDE DEF B
  <2> QED  BY <1>1, <1>4
<1>6. IsChunk(ck) /\ ck.buf = B /\ ck.len = cs + H /\ ck.offr = H
  <2> HIDE DEF B
  <2> QED  BY <1>5 DEF IsChunk
<1>7. ASSUME NEW c \in 1..cs PROVE B[H + c - 1] = IF c <= n THEN Data(from + c) ELSE Zero
  <2>1. PICK d \in Nat : d = H + c - 1
    OBVIOUS
  <2>2. d \in 0..(cs + H - 1) /\ (d \in H..(H + n - 1) <=> c <= n) /\ from + d - H + 1 = from + c
    BY <2>1
  <2>3. B[d] = IF d \in H..(H + n - 1) THEN Data(from + d - H + 1) ELSE Zero
    BY <2>2
  <2> HIDE DEF B
  <2> QED  BY <2>1, <2>2, <2>3
<1> QED  BY <1>6, <1>7 DEF ck

\* A message as it comes.
LEMMA ReceivedHolding ==
  ASSUME MaxHeaderSize \in Nat, NEW cs \in Nat \ {0}, NEW n \in Nat
  PROVE  \E N, b : Holding(Received(cs, n), n, N, b, cs, 0)
<1> DEFINE full == n \div cs
           left == n % cs
           whole == [i \in 1..full |-> Filled(cs, (i - 1) * cs, cs)]
           rest == IF n % cs > 0 \/ n = 0 THEN <<Filled(cs, full * cs, n % cs)>> ELSE << >>
           chs == whole \o rest
           N == full + Len(rest)
           b == [i \in 0..N |-> i * cs]
<1>1. full \in Nat /\ left \in 0..(cs - 1) /\ n = full * cs + left
  OBVIOUS
<1>2. Received(cs, n) = newChunkList(chs)
  BY DEF Received
<1>3. PICK f : f = full
  OBVIOUS
<1>4. PICK l : l = left
  OBVIOUS
<1>5. f \in Nat /\ l \in 0..(cs - 1) /\ n = f * cs + l
  BY <1>1, <1>3, <1>4
<1>6. rest = IF l > 0 \/ n = 0 THEN <<Filled(cs, f * cs, l)>> ELSE << >>
  BY <1>3, <1>4
<1>7. whole = [i \in 1..f |-> Filled(cs, (i - 1) * cs, cs)]
  BY <1>3
<1>8. N = f + Len(rest)
  BY <1>3
<1> HIDE DEF full, left, whole, rest
<1>18. f \in Nat /\ l \in Int /\ f * cs \in Int
  BY <1>5
<1>9. Len(rest) \in {0, 1} /\ (Len(rest) = 0 => l = 0 /\ n # 0) /\ (Len(rest) = 1 => rest[1] = Filled(cs, f * cs, l))
  BY <1>5, <1>6
<1>10. N \in Nat /\ (N = f \/ N = f + 1)
  <2>1. Len(rest) = 0 \/ Len(rest) = 1
    BY <1>9
  <2> HIDE DEF N
  <2>2. CASE Len(rest) = 0
    BY <1>8, <1>18, <2>2
  <2>3. CASE Len(rest) = 1
    BY <1>8, <1>18, <2>3
  <2> QED  BY <2>1, <2>2, <2>3
<1>11. ASSUME NEW i \in 1..N
       PROVE  /\ chs[i] = IF i <= f THEN Filled(cs, (i - 1) * cs, cs) ELSE Filled(cs, f * cs, l)
  <2> DEFINE F == {Filled(cs, u, v) : u \in Int, v \in Int}
  <2>1. whole \in Seq(F) /\ Len(whole) = f
    <3>1. \A j \in 1..f : (j - 1) * cs \in Int /\ cs \in Int
      BY <1>18
    <3>2. \A j \in 1..f : whole[j] \in F
      BY <1>7, <3>1
    <3>3. whole = [j \in 1..f |-> whole[j]]
      BY <1>7
    <3> HIDE DEF F
    <3> QED  BY <1>18, <3>2, <3>3
  <2>2. rest \in Seq(F)
    <3>1. Filled(cs, f * cs, l) \in F
      BY <1>18
    <3> HIDE DEF F
    <3> QED  BY <1>6, <3>1
  <2> HIDE DEF F
  <2>3. chs[i] = IF i <= f THEN whole[i] ELSE rest[i - f]
    BY <1>5, <1>8, <1>9, <2>1, <2>2, ConcatProperties
  <2>4. CASE i <= f
    BY <1>5, <1>7, <2>3, <2>4
  <2>5. CASE ~(i <= f)
    <3>1. i = f + 1 /\ i - f = 1 /\ Len(rest) = 1
      <4>1. ~(Len(rest) = 0)
        BY <1>8, <1>18, <2>5
      <4>2. Len(rest) = 1
        BY <1>9, <4>1
      <4> QED  BY <1>8, <1>18, <2>5, <4>2
    <3> QED  BY <1>9, <2>3, <2>5, <3>1
  <2> QED  BY <2>4, <2>5
<1>12. Len(chs) = N /\ chs = [i \in 1..N |-> chs[i]]
  <2> DEFINE F == {Filled(cs, u, v) : u \in Int, v \in Int}
  <2>1. whole \in Seq(F) /\ Len(whole) = f
    <3>1. \A j \in 1..f : (j - 1) * cs \in Int /\ cs \in Int
      BY <1>18
    <3>2. \A j \in 1..f : whole[j] \in F
      BY <1>7, <3>1
    <3>3. whole = [j \in 1..f |-> whole[j]]
      BY <1>7
    <3> HIDE DEF F
    <3> QED  BY <1>18, <3>2, <3>3
  <2>2. rest \in Seq(F)
    <3>1. Filled(cs, f * cs, l) \in F
      BY <1>18
    <3> HIDE DEF F
    <3> QED  BY <1>6, <3>1
  <2> HIDE DEF F
  <2>3. chs \in Seq(F) /\ Len(chs) = N
    BY <1>8, <2>1, <2>2, ConcatProperties
  <2> HIDE DEF chs
  <2> QED  BY <2>3
<1> HIDE DEF chs, N
<1>13. Starts(b, N, cs)
  <2>1. \A i \in 0..N : i * cs \in Nat
    BY <1>10
  <2>2. ASSUME NEW i \in 1..N PROVE b[i] = b[i - 1] + cs
    <3>1. i * cs = (i - 1) * cs + cs
      BY <1>10
    <3> QED  BY <1>10, <3>1
  <2> QED  BY <1>10, <2>1, <2>2 DEF Starts
<1>14. n <= b[N] /\ b[N] \in Nat
  <2>1. b[N] = N * cs
    BY <1>10
  <2>2. CASE N = f
    <3>1. l = 0
      BY <1>5, <1>8, <1>9, <2>2
    <3> QED  BY <1>5, <2>1, <2>2, <3>1
  <2>3. CASE N = f + 1
    <3>1. (f + 1) * cs = f * cs + cs
      BY <1>5
    <3> QED  BY <1>5, <2>1, <2>3, <3>1
  <2> QED  BY <1>10, <2>2, <2>3
<1>15. ASSUME NEW i \in 1..N
       PROVE  /\ IsChunk(chs[i]) /\ chs[i].len = cs + MaxHeaderSize /\ chs[i].offr = MaxHeaderSize
              /\ \A c \in 1..cs : chs[i].buf[MaxHeaderSize + c - 1] = Full(n, b[i - 1] + c)
  <2>1. b[i - 1] = (i - 1) * cs /\ b[i - 1] \in Nat
    BY <1>10
  <2>2. PICK lo \in Nat : lo = b[i - 1]
    BY <2>1
  <2> HIDE DEF b
  <2>3. CASE i <= f
    <3>1. chs[i] = Filled(cs, lo, cs)
      BY <1>11, <2>1, <2>2, <2>3
    <3>2. /\ IsChunk(chs[i]) /\ chs[i].len = cs + MaxHeaderSize /\ chs[i].offr = MaxHeaderSize
          /\ \A c \in 1..cs : chs[i].buf[MaxHeaderSize + c - 1] = IF c <= cs THEN Data(lo + c) ELSE Zero
      <4>1. cs \in 0..cs /\ MaxHeaderSize \in Nat
        OBVIOUS
      <4>2. PICK ck : ck = Filled(cs, lo, cs)
        OBVIOUS
      <4>3. IsChunk(ck) /\ ck.len = cs + MaxHeaderSize /\ ck.offr = MaxHeaderSize
        BY <4>1, <4>2, FilledChunk
      <4>4. \A c \in 1..cs : ck.buf[MaxHeaderSize + c - 1] = IF c <= cs THEN Data(lo + c) ELSE Zero
        BY <4>1, <4>2, FilledChunk
      <4> QED  BY <3>1, <4>2, <4>3, <4>4
    <3>3. lo + cs <= n
      <4>1. f * cs = (i - 1) * cs + cs + (f - i) * cs
        BY <1>5
      <4>2. (f - i) * cs \in Nat
        BY <1>5, <2>3
      <4> QED  BY <1>5, <2>1, <2>2, <4>1, <4>2
    <3>4. ASSUME NEW c \in 1..cs PROVE Full(n, lo + c) = IF c <= cs THEN Data(lo + c) ELSE Zero
      BY <3>3 DEF Full
    <3> QED  BY <2>2, <3>2, <3>4
  <2>4. CASE ~(i <= f)
    <3>1. i - 1 = f
      BY <1>5, <1>10, <2>4
    <3>2. chs[i] = Filled(cs, lo, l) /\ l \in 0..cs /\ n = lo + l
      BY <1>5, <1>11, <2>1, <2>2, <2>4, <3>1
    <3>3. /\ IsChunk(chs[i]) /\ chs[i].len = cs + MaxHeaderSize /\ chs[i].offr = MaxHeaderSize
          /\ \A c \in 1..cs : chs[i].buf[MaxHeaderSize + c - 1] = IF c <= l THEN Data(lo + c) ELSE Zero
      <4>2. PICK ck : ck = Filled(cs, lo, l)
        OBVIOUS
      <4>3. IsChunk(ck) /\ ck.len = cs + MaxHeaderSize /\ ck.offr = MaxHeaderSize
        BY <3>2, <4>2, FilledChunk
      <4>4. \A c \in 1..cs : ck.buf[MaxHeaderSize + c - 1] = IF c <= l THEN Data(lo + c) ELSE Zero
        BY <3>2, <4>2, FilledChunk
      <4> QED  BY <3>2, <4>2, <4>3, <4>4
    <3>4. ASSUME NEW c \in 1..cs PROVE Full(n, lo + c) = IF c <= l THEN Data(lo + c) ELSE Zero
      <4>1. lo + c <= n <=> c <= l
        BY <3>2
      <4> QED  BY <4>1 DEF Full
    <3> QED  BY <2>2, <3>3, <3>4
  <2> QED  BY <2>3, <2>4
<1>16. Offset([i \in 1..N |-> chs[i].offr], 0, b, N, cs, 0)
  <2>1. \A i \in 1..N : i - 1 \in 0..N /\ Within(0, b[i - 1], cs) = 0
    <3>1. \A i \in 1..N : i - 1 \in 0..N /\ b[i - 1] \in Nat
      BY <1>10, <1>13 DEF Starts
    <3> HIDE DEF b
    <3> QED  BY <3>1 DEF Within
  <2>2. b[0] = 0 /\ (0 < N => b[0 + 1] > 0)
    <3> HIDE DEF b
    <3> QED  BY <1>10, <1>13 DEF Starts
  <2> HIDE DEF b
  <2> QED  BY <1>10, <1>14, <1>15, <2>1, <2>2 DEF Offset
<1> HIDE DEF b
<1>17. Holding(Received(cs, n), n, N, b, cs, 0)
  <2>1. PICK list : list = [chs |-> chs, offr |-> 0, offw |-> 0]
    OBVIOUS
  <2>2. /\ list = [chs |-> list.chs, offr |-> list.offr, offw |-> list.offw] /\ list.chs = chs
        /\ list.offr = 0
    BY <2>1
  <2>3. IsList(list, N)
    BY <1>12, <1>15, <2>2 DEF IsList
  <2>4. Holding(list, n, N, b, cs, 0)
    BY <1>13, <1>14, <1>15, <1>16, <2>2, <2>3 DEF Holding
  <2> QED  BY <1>2, <2>1, <2>4 DEF newChunkList
<1> QED  BY <1>17

\* A message received and not read.
LEMMA InitReaderInv == ReaderInit => ReaderInv
<1> SUFFICES ASSUME NEW cs \in ChunkSizes, NEW n \in 0..MaxLen, mlen = n, cl = Received(cs, n),
                    got = << >>, last = [k |-> 0, n |-> 0, err |-> "nil"]
             PROVE  ReaderInv
  BY DEF ReaderInit
<1>1. cs \in Nat \ {0} /\ n \in Nat /\ MaxHeaderSize \in Nat
  BY ReaderAssumption
<1>2. PICK N, b : Holding(Received(cs, n), n, N, b, cs, 0)
  BY <1>1, ReceivedHolding
<1>3. Len(got) = 0 /\ \A F : got \in Seq(F)
  OBVIOUS
<1>4. ReaderInvWith(N, b, cs)
  BY <1>2, <1>3 DEF ReaderInvWith
<1> QED  BY <1>4 DEF ReaderInv

\* Every read keeps it.
LEMMA StepReaderInv == ReaderInv /\ [ReaderNext]_readerVars => ReaderInv'
<1> SUFFICES ASSUME NEW N, NEW b, NEW cs, ReaderInvWith(N, b, cs), [ReaderNext]_readerVars
             PROVE  ReaderInvWith(N, b, cs)'
  BY DEF ReaderInv
<1>1. CASE UNCHANGED readerVars
  BY <1>1 DEF ReaderInvWith, readerVars
<1>2. ASSUME NEW k \in Nat, Read(k) PROVE ReaderInvWith(N, b, cs)'
  <2> DEFINE r == ReadList(cl, k)
             P == Len(got)
             F == {Full(mlen, j) : j \in Nat}
  <2>1. /\ cl' = r.cl /\ got' = got \o r.p /\ last' = [k |-> k, n |-> r.n, err |-> r.err] /\ mlen' = mlen
    BY <1>2 DEF Read
  <2>2. Holding(cl, mlen, N, b, cs, P) /\ got \in Seq(F) /\ \A j \in 1..P : got[j] = Full(mlen, j)
    BY DEF ReaderInvWith
  <2>3. MaxHeaderSize \in Nat
    BY ReaderAssumption
  <2>4. /\ r.n \in 0..(b[N] - P) /\ r.n <= k /\ (r.n < k => P + r.n = b[N])
        /\ r.err = Outcome(k, r.n)
        /\ r.p \in Seq(F) /\ Len(r.p) = r.n
        /\ \A j \in 1..r.n : r.p[j] = Full(mlen, P + j)
        /\ Holding(r.cl, mlen, N, b, cs, P + r.n)
    <3> HIDE DEF P
    <3> QED  BY <2>2, <2>3, ReadHolding
  <2>5. PICK m : m = r.n
    OBVIOUS
  <2>6. PICK p : p = r.p
    OBVIOUS
  <2> HIDE DEF r, F
  <2>7. P \in Nat /\ m \in Nat /\ b[N] \in Nat /\ mlen \in Nat /\ mlen <= b[N]
    <3>1. P \in Nat
      BY <2>2
    <3>2. b[N] \in Nat /\ mlen \in Nat /\ mlen <= b[N]
      BY <2>2 DEF Holding, Starts
    <3> QED  BY <2>4, <2>5, <3>1, <3>2
  <2>8. /\ got' \in Seq(F) /\ Len(got') = P + m
        /\ \A j \in 1..(P + m) : got'[j] = IF j <= P THEN got[j] ELSE p[j - P]
    BY <2>1, <2>2, <2>4, <2>5, <2>6, ConcatProperties
  <2> HIDE DEF P
  <2>9. ASSUME NEW j \in 1..(P + m) PROVE got'[j] = Full(mlen, j)
    <3>1. CASE j <= P
      BY <2>2, <2>7, <2>8, <3>1
    <3>2. CASE ~(j <= P)
      <4>1. PICK i \in 1..m : i = j - P
        BY <2>7, <3>2
      <4>2. P + i = j /\ p[i] = Full(mlen, P + i)
        BY <2>4, <2>5, <2>6, <2>7, <4>1
      <4> QED  BY <2>8, <3>2, <4>1, <4>2
    <3> QED  BY <3>1, <3>2
  <2>10. m < k => r.err = "EOF"
    BY <2>4, <2>5, <2>7 DEF Outcome
  <2>11. k > 0 /\ r.err = "EOF" => P + m >= mlen
    <3>1. k > 0 /\ r.err = "EOF" => m < k
      BY <2>4, <2>5 DEF Outcome
    <3> QED  BY <2>4, <2>5, <2>7, <3>1
  <2>12. last'.k = k /\ last'.n = m /\ last'.err = r.err
    BY <2>1, <2>5
  <2>13. Holding(cl', mlen', N, b, cs, Len(got'))
    BY <2>1, <2>4, <2>5, <2>8
  <2>14. F = {Full(mlen', j) : j \in Nat}
    BY <2>1 DEF F
  <2> QED  BY <2>1, <2>8, <2>9, <2>10, <2>11, <2>12, <2>13, <2>14 DEF ReaderInvWith
<1>3. ASSUME ReaderNext PROVE ReaderInvWith(N, b, cs)'
  BY <1>2, <1>3, ReaderAssumption DEF ReaderNext, ReadUint32, ReadUint16, ReadUint8, ReadByte
<1> QED  BY <1>1, <1>3

(***************************************************************************)
(* The invariant of the reader, for messages of every length in chunks of  *)
(* every size, and reads of every size (message.go:247-261).               *)
(***************************************************************************)
THEOREM ReaderInvAlways == ReaderSpec => []ReaderInv
<1> QED  BY InitReaderInv, StepReaderInv, PTL DEF ReaderSpec

(***************************************************************************)
(* What the handlers read is the message, byte by byte, and then zeros:    *)
(* what they read is what the invariant says was given out.                *)
(***************************************************************************)
THEOREM ReadsMessageThenZerosAlways == ReaderSpec => []ReadsMessageThenZeros
<1>1. ReaderInv => ReadsMessageThenZeros
  BY DEF ReaderInv, ReaderInvWith, ReadsMessageThenZeros, Full
<1> QED  BY <1>1, ReaderInvAlways, PTL

(***************************************************************************)
(* No read of something fails while bytes of the message are left, and a   *)
(* short read says so (message.go:166-176, 247-261): only a read that      *)
(* comes to the end of the last chunk is short.                            *)
(***************************************************************************)
THEOREM FailsOnlyAtEndAlways == ReaderSpec => []FailsOnlyAtEnd
<1>1. ReaderInv => FailsOnlyAtEnd
  BY DEF ReaderInv, ReaderInvWith, FailsOnlyAtEnd
<1> QED  BY <1>1, ReaderInvAlways, PTL

-----------------------------------------------------------------------------
(* Writing *)

\* The list has a body of P bytes; the room for headers is untouched.
Filling(list, N, b, cs, P) ==
  /\ Starts(b, N, cs)
  /\ IsList(list, N)
  /\ \A i \in 1..N :
       /\ list.chs[i].len = cs + MaxHeaderSize
       /\ list.chs[i].head = MaxHeaderSize /\ list.chs[i].offs = MaxHeaderSize
       /\ list.chs[i].buf = [c \in 0..(cs + MaxHeaderSize - 1) |-> list.chs[i].buf[c]]
       /\ \A c \in 1..cs : b[i - 1] + c <= P => list.chs[i].buf[MaxHeaderSize + c - 1] = Data(b[i - 1] + c)
  /\ Offset([i \in 1..N |-> list.chs[i].offw], list.offw, b, N, cs, P)

\* A write of the next k bytes of the body.
LEMMA WriteFilling ==
  ASSUME MaxHeaderSize \in Nat, NEW list, NEW N, NEW b, NEW cs, NEW P,
         Filling(list, N, b, cs, P), NEW k \in Nat
  PROVE  LET r == WriteList(list, [j \in 1..k |-> Data(P + j)])
         IN  /\ r.n \in 0..(b[N] - P) /\ r.n <= k /\ (r.n < k => P + r.n = b[N])
             /\ Filling(r.cl, N, b, cs, P + r.n)
<1> DEFINE off == [i \in 1..N |-> list.chs[i].offw]
           p == [j \in 1..k |-> Data(P + j)]
           cells == Ahead(list, list.offw, [i \in 1..has(list) |-> list.chs[i].offw])
           m == Few(Len(p), cells)
           r == WriteList(list, p)
           Buf(i) == [c \in DOMAIN list.chs[i].buf |->
                        IF \E j \in 1..m : cells[j] = <<i, c>>
                        THEN p[CHOOSE j \in 1..m : cells[j] = <<i, c>>] ELSE list.chs[i].buf[c]]
           chs == [i \in 1..N |-> [list.chs[i] EXCEPT !.offw = list.chs[i].offw + TakenIn(cells, m, i),
                                                      !.buf = Buf(i)]]
           next == ChunkOfNext(list, cells, m)
<1>1. /\ N \in Nat /\ cs \in Nat /\ P \in Nat /\ b[N] \in Nat /\ P <= b[N] /\ has(list) = N
      /\ Starts(b, N, cs) /\ Len(list.chs) = N
      /\ Offset(off, list.offw, b, N, cs, P)
  BY DEF Filling, IsList, has, Starts, Offset
<1>2. CellsFrom(cells, b, N, P)
  <2>1. \A i \in 1..N : list.chs[i].len = cs + MaxHeaderSize
    BY DEF Filling
  <2> HIDE DEF cells
  <2>2. cells = Ahead(list, list.offw, off)
    BY <1>1 DEF cells
  <2> HIDE DEF off
  <2> QED  BY <1>1, <2>1, <2>2, AheadCells
<1>3. Len(cells) = b[N] - P /\ Len(cells) \in Nat /\ Len(p) = k
  <2>1. Len(p) = k
    OBVIOUS
  <2> HIDE DEF cells, p
  <2> QED  BY <1>1, <1>2, <2>1 DEF CellsFrom
<1>4. m \in 0..(b[N] - P) /\ m <= k /\ (m < k => P + m = b[N]) /\ m \in Nat
  <2> HIDE DEF cells, p
  <2> QED  BY <1>1, <1>3 DEF Few
<1>5. /\ r.n = m
      /\ r.cl = [list EXCEPT !.chs = [i \in 1..has(list) |->
                   [list.chs[i] EXCEPT !.offw = list.chs[i].offw + TakenIn(cells, m, i), !.buf = Buf(i)]],
                             !.offw = next]
  <2>1. r.n = m
    BY DEF WriteList
  <2>2. r.cl = [list EXCEPT !.chs = [i \in 1..has(list) |->
                   [list.chs[i] EXCEPT !.offw = list.chs[i].offw + TakenIn(cells, m, i), !.buf = Buf(i)]],
                             !.offw = next]
    BY DEF WriteList
  <2> QED  BY <2>1, <2>2
<1>6. r.cl = [list EXCEPT !.chs = chs, !.offw = next]
  <2> HIDE DEF r, cells, m, next, Buf
  <2> QED  BY <1>1, <1>5
<1> HIDE DEF cells, m, r, next
\* Where the bytes go: byte q of the list to its place, the others stay.
<1>7. ASSUME NEW i \in 1..N, NEW c \in 1..cs, NEW d, d = MaxHeaderSize + c - 1
      PROVE  Buf(i)[d] = IF P < b[i - 1] + c /\ b[i - 1] + c <= P + m
                         THEN Data(b[i - 1] + c) ELSE list.chs[i].buf[d]
  <2>1. PICK lo \in Nat : lo = b[i - 1]
    <3>1. i - 1 \in 0..N
      BY <1>1
    <3> QED  BY <1>1, <3>1 DEF Starts
  <2>2. b[i] = lo + cs
    BY <1>1, <2>1 DEF Starts
  <2>3. PICK q \in Nat : q = lo + c
    BY <1>1, <2>1
  <2>4. d \in DOMAIN list.chs[i].buf
    <3>1. d \in 0..(cs + MaxHeaderSize - 1)
      BY <1>1, <1>7
    <3> QED  BY <3>1 DEF Filling
  <2>5. q \in 1..b[N] /\ b[i - 1] < q /\ q <= b[i]
    <3>1. b[i] <= b[N]
      <4>1. i \in 0..N /\ N \in 0..N /\ b[i] \in Nat
        BY <1>1 DEF Starts
      <4>2. CASE i = N
        BY <1>1, <4>2
      <4>3. CASE i # N
        <5>1. i < N
          BY <1>1, <4>3
        <5>2. b[i] + cs <= b[N]
          BY <1>1, <4>1, <5>1, StartsOrdered
        <5> QED  BY <1>1, <4>1, <5>2
      <4> QED  BY <4>2, <4>3
    <3>2. PICK e \in Nat : e = b[N]
      BY <1>1 DEF Starts
    <3>3. lo + cs <= e /\ cs \in Nat
      BY <1>1, <2>2, <3>1, <3>2
    <3>4. q \in 1..e /\ lo < q /\ q <= lo + cs
      BY <2>3, <3>3
    <3> QED  BY <2>1, <2>2, <3>2, <3>4
  <2>6. ASSUME NEW j \in 1..m PROVE cells[j] = <<i, d>> <=> P + j = q
    <3>1. PICK u \in Nat : u = P + j
      BY <1>1
    <3>2. u \in 1..b[N] /\ P < u /\ u - P = j
      BY <1>1, <1>4, <3>1
    <3>3. PICK h \in 1..N : b[h - 1] < u /\ u <= b[h]
      BY <1>1, <3>2, Located
    <3>4. cells[j] = <<h, MaxHeaderSize + u - b[h - 1] - 1>>
      BY <1>2, <3>1, <3>2, <3>3 DEF CellsFrom
    <3>5. ASSUME u = q PROVE cells[j] = <<i, d>>
      <4>1. h = i
        BY <1>1, <2>5, <3>3, <3>5, OneChunkOf
      <4>2. MaxHeaderSize + u - lo - 1 = d
        BY <1>7, <2>3, <3>5
      <4> QED  BY <2>1, <3>4, <4>1, <4>2
    <3>6. ASSUME cells[j] = <<i, d>> PROVE u = q
      <4>1. h = i /\ MaxHeaderSize + u - b[h - 1] - 1 = d
        BY <3>4, <3>6
      <4> QED  BY <1>7, <2>1, <2>3, <4>1
    <3> QED  BY <3>1, <3>5, <3>6
  <2>7. CASE P < q /\ q <= P + m
    <3>1. PICK j \in 1..m : j = q - P
      BY <1>1, <1>4, <2>7
    <3>2. P + j = q
      BY <1>1, <3>1
    <3>3. \A l \in 1..m : cells[l] = <<i, d>> <=> l = j
      BY <1>1, <1>4, <2>6, <3>1, <3>2
    <3>4. (CHOOSE l \in 1..m : cells[l] = <<i, d>>) = j
      BY <3>3
    <3>5. Buf(i)[d] = p[CHOOSE l \in 1..m : cells[l] = <<i, d>>]
      BY <2>4, <3>3
    <3>6. p[j] = Data(P + j)
      BY <1>4
    <3> HIDE DEF Buf, p
    <3> QED  BY <2>1, <2>3, <2>7, <3>2, <3>4, <3>5, <3>6
  <2>8. CASE ~(P < q /\ q <= P + m)
    <3>1. ASSUME NEW j \in 1..m PROVE P + j # q
      BY <1>1, <1>4, <2>8
    <3>2. ~ \E j \in 1..m : cells[j] = <<i, d>>
      BY <2>6, <3>1
    <3>3. Buf(i)[d] = list.chs[i].buf[d]
      BY <2>4, <3>2
    <3> HIDE DEF Buf
    <3> QED  BY <2>1, <2>3, <2>8, <3>3
  <2> QED  BY <2>7, <2>8
<1>8. ASSUME NEW i \in 1..N PROVE Buf(i) = [c \in 0..(cs + MaxHeaderSize - 1) |-> Buf(i)[c]]
  <2>1. DOMAIN list.chs[i].buf = 0..(cs + MaxHeaderSize - 1)
    BY DEF Filling
  <2>2. Buf(i) = [c \in DOMAIN list.chs[i].buf |-> Buf(i)[c]]
    OBVIOUS
  <2> HIDE DEF Buf
  <2> QED  BY <2>1, <2>2
<1> HIDE DEF Buf, p
<1>9. ASSUME NEW i \in 1..N
      PROVE  /\ IsChunk(chs[i]) /\ chs[i].buf = Buf(i) /\ chs[i].len = list.chs[i].len
             /\ chs[i].head = list.chs[i].head /\ chs[i].offs = list.chs[i].offs
             /\ chs[i].offw = off[i] + TakenIn(cells, m, i)
  <2>1. PICK ck : ck = list.chs[i]
    OBVIOUS
  <2>2. IsChunk(ck)
    BY <2>1 DEF Filling, IsList
  <2>3. PICK v : v = ck.offw + TakenIn(cells, m, i)
    OBVIOUS
  <2>4. PICK B : B = Buf(i)
    OBVIOUS
  <2>5. chs[i] = [ck EXCEPT !.offw = v, !.buf = B]
    BY <2>1, <2>3, <2>4
  <2>6. off[i] = ck.offw
    BY <2>1
  <2> HIDE DEF chs, off
  <2>7. chs[i] = [buf |-> B, len |-> ck.len, offr |-> ck.offr, offw |-> v, head |-> ck.head, offs |-> ck.offs]
    BY <2>2, <2>5 DEF IsChunk
  <2> QED  BY <2>1, <2>3, <2>4, <2>6, <2>7 DEF IsChunk
<1>10. /\ r.cl = [chs |-> chs, offr |-> list.offr, offw |-> next]
       /\ Len(chs) = N /\ chs = [i \in 1..N |-> chs[i]]
  <2>1. Len(chs) = N /\ chs = [i \in 1..N |-> chs[i]]
    BY <1>1
  <2>2. list = [chs |-> list.chs, offr |-> list.offr, offw |-> list.offw]
    BY DEF Filling, IsList
  <2> HIDE DEF chs
  <2>3. r.cl = [chs |-> chs, offr |-> list.offr, offw |-> next]
    BY <1>6, <2>2
  <2> QED  BY <2>1, <2>3
<1> HIDE DEF chs
<1>11. Offset([i \in 1..N |-> chs[i].offw], next, b, N, cs, P + m)
  <2> DEFINE off2 == [i \in 1..N |-> chs[i].offw]
  <2>1. \A i \in 1..N : off2[i] = off[i] + TakenIn(cells, m, i)
    BY <1>9
  <2> HIDE DEF off2, off
  <2>2. Offset(off2, next, b, N, cs, P + m)
    BY <1>1, <1>2, <1>4, <2>1, OffsetMoved DEF next
  <2> QED  BY <2>2 DEF off2
<1>12. Filling(r.cl, N, b, cs, P + m)
  <2>1. PICK l : l = [chs |-> chs, offr |-> list.offr, offw |-> next]
    OBVIOUS
  <2>2. l = [chs |-> l.chs, offr |-> l.offr, offw |-> l.offw] /\ l.chs = chs /\ l.offw = next
    BY <2>1
  <2>3. IsList(l, N)
    BY <1>9, <1>10, <2>2 DEF IsList
  <2>4. ASSUME NEW i \in 1..N
        PROVE  /\ chs[i].len = cs + MaxHeaderSize
               /\ chs[i].head = MaxHeaderSize /\ chs[i].offs = MaxHeaderSize
               /\ chs[i].buf = [c \in 0..(cs + MaxHeaderSize - 1) |-> chs[i].buf[c]]
    BY <1>8, <1>9 DEF Filling
  <2>5. ASSUME NEW i \in 1..N, NEW c \in 1..cs, b[i - 1] + c <= P + m
        PROVE  chs[i].buf[MaxHeaderSize + c - 1] = Data(b[i - 1] + c)
    <3>1. PICK d : d = MaxHeaderSize + c - 1
      OBVIOUS
    <3>2. Buf(i)[d] = IF P < b[i - 1] + c /\ b[i - 1] + c <= P + m
                      THEN Data(b[i - 1] + c) ELSE list.chs[i].buf[d]
      BY <1>7, <3>1
    <3>3. b[i - 1] + c <= P => list.chs[i].buf[d] = Data(b[i - 1] + c)
      BY <3>1 DEF Filling
    <3>4. b[i - 1] + c \in Int
      <4>1. i - 1 \in 0..N
        BY <1>1
      <4>2. b[i - 1] \in Nat
        BY <1>1, <4>1 DEF Starts
      <4> QED  BY <4>2
    <3>5. Buf(i)[d] = Data(b[i - 1] + c)
      BY <1>1, <2>5, <3>2, <3>3, <3>4
    <3> QED  BY <1>9, <3>1, <3>5
  <2>6. Filling(l, N, b, cs, P + m)
    BY <1>1, <1>11, <2>2, <2>3, <2>4, <2>5 DEF Filling
  <2> QED  BY <1>10, <2>1, <2>6
<1> QED  BY <1>4, <1>5, <1>12 DEF r, p

\* The chunks allocated for a message of n bytes have room for one more.
LEMMA AllocFilling ==
  ASSUME NEW D \in Nat \ {0}, NEW n \in Nat, MaxHeaderSize \in Nat, NEW list,
         list = newChunkList([i \in 1..(n \div D + 1) |-> newChunk(D)])
  PROVE  \E N, b : Filling(list, N, b, D, 0) /\ n < b[N] /\ (n < D => N = 1)
<1> DEFINE H == MaxHeaderSize
<1>1. PICK f : f = n \div D
  OBVIOUS
<1>2. f \in Nat /\ f * D <= n /\ n < f * D + D
  BY <1>1
<1> DEFINE N == f + 1
           b == [i \in 0..N |-> i * D]
           chs == [i \in 1..N |-> newChunk(D)]
           zero == [c \in 0..(D + H - 1) |-> Zero]
           new == [buf |-> zero, len |-> D + H, offr |-> H, offw |-> H, head |-> H, offs |-> H]
<1>3. N \in Nat
  BY <1>2
<1>4. list = [chs |-> chs, offr |-> 0, offw |-> 0]
  BY <1>1 DEF newChunkList
<1>5. newChunk(D) = new
  BY DEF newChunk
<1>6. Starts(b, N, D)
  <2>1. \A i \in 0..N : i * D \in Nat
    BY <1>3
  <2>2. ASSUME NEW i \in 1..N PROVE b[i] = b[i - 1] + D
    <3>1. i * D = (i - 1) * D + D
      BY <1>3
    <3> QED  BY <1>3, <3>1
  <2> HIDE DEF N
  <2> QED  BY <1>3, <2>1, <2>2 DEF Starts
<1>7. n < b[N] /\ b[N] \in Nat
  <2>1. (f + 1) * D = f * D + D
    BY <1>2
  <2>2. b[N] = N * D
    BY <1>3
  <2> HIDE DEF b
  <2> QED  BY <1>2, <2>1, <2>2
<1>8. n < D => N = 1
  <2> SUFFICES ASSUME n < D, f >= 1 PROVE FALSE
    BY <1>2
  <2>1. (f - 1) * D \in Nat
    BY <1>2
  <2>2. f * D = (f - 1) * D + D
    BY <1>2
  <2> QED  BY <1>2, <2>1, <2>2
<1>9. Len(chs) = N /\ chs = [i \in 1..N |-> chs[i]] /\ \A i \in 1..N : chs[i] = new
  BY <1>3, <1>5
<1> HIDE DEF chs, b, N
<1>10. /\ IsChunk(new) /\ new.len = D + H /\ new.head = H /\ new.offs = H /\ new.offw = H
       /\ new.buf = [c \in 0..(D + H - 1) |-> new.buf[c]]
  BY DEF IsChunk
<1> HIDE DEF new
<1>11. IsList(list, N)
  <2>1. list = [chs |-> list.chs, offr |-> list.offr, offw |-> list.offw] /\ list.chs = chs
    BY <1>4
  <2> QED  BY <1>9, <1>10, <2>1 DEF IsList
<1>12. \A i \in 1..N : i - 1 \in 0..N /\ b[i - 1] \in Nat /\ Within(0, b[i - 1], D) = 0
  <2>1. \A i \in 1..N : i - 1 \in 0..N /\ b[i - 1] \in Nat
    BY <1>3, <1>6 DEF Starts
  <2> QED  BY <2>1 DEF Within
<1>13. Offset([i \in 1..N |-> list.chs[i].offw], list.offw, b, N, D, 0)
  <2>1. list.offw = 0 /\ list.chs = chs
    BY <1>4
  <2>2. b[0] = 0 /\ (0 < N => b[0 + 1] > 0)
    BY <1>3, <1>6 DEF Starts
  <2> QED  BY <1>3, <1>7, <1>9, <1>10, <1>12, <2>1, <2>2 DEF Offset
<1>14. Filling(list, N, b, D, 0)
  <2>1. list.chs = chs
    BY <1>4
  <2>2. \A i \in 1..N : \A c \in 1..D : ~(b[i - 1] + c <= 0)
    BY <1>12
  <2> QED  BY <1>6, <1>9, <1>10, <1>11, <1>13, <2>1, <2>2 DEF Filling
<1> QED  BY <1>7, <1>8, <1>14

-----------------------------------------------------------------------------

-----------------------------------------------------------------------------
(* Headers *)

\* The headers that HeadersAssumption allows.
Hdrs == [csid : 2..MaxStreamsNum, timestamp : 0..(Word - 1), mlen : Nat, typo : STRING, msid : Nat]

\* The room for the header is what the reader takes.
LEMMA HeaderRoom ==
  ASSUME NEW h \in Hdrs, NEW size, NEW hs, hs = HeaderSize(h.csid, Extended(h.timestamp))
  PROVE  hs \in 1..18 /\ hs = BytesRead(HeaderFields(h, size), h.csid)
<1> DEFINE f == HeaderFields(h, size)
           more == Extended(h.timestamp)
<1>1. Word \in Nat \ {0} /\ Escape \in Nat \ {0} /\ h.timestamp \in Nat
  BY WriterAssumption DEF Hdrs
<1>2. f.timestamp = Escape <=> more
  BY <1>1 DEF HeaderFields, Extended
<1>3. PICK bs \in 1..3 : bs = BasicSize(h.csid)
  BY DEF BasicSize
<1> HIDE DEF f, more
<1>4. hs = 12 + (IF more THEN 4 ELSE 0) + bs - 1
  BY <1>3 DEF HeaderSize, more
<1>5. BytesRead(f, h.csid) = bs + 11 + (IF more THEN 4 ELSE 0)
  BY <1>2, <1>3 DEF BytesRead
<1>6. hs \in 1..18 /\ hs = BytesRead(f, h.csid)
  BY <1>4, <1>5
<1> QED  BY <1>6 DEF f

\* The reader makes of it what was meant.
LEMMA HeaderMeant ==
  ASSUME NEW h \in Hdrs, NEW size
  PROVE  Understood(HeaderFields(h, size), h.csid) = [h EXCEPT !.mlen = size]
<1>1. Word \in Nat \ {0} /\ Escape \in Nat \ {0} /\ h.timestamp \in Nat
  BY WriterAssumption DEF Hdrs
<1>2. [h EXCEPT !.mlen = size]
        = [csid |-> h.csid, timestamp |-> h.timestamp, mlen |-> size, typo |-> h.typo, msid |-> h.msid]
  BY DEF Hdrs
<1> DEFINE f == HeaderFields(h, size)
<1>3. f.mlen = size /\ f.typo = h.typo /\ f.msid = h.msid
      /\ (IF f.timestamp = Escape THEN f.ext ELSE f.timestamp) = h.timestamp
  BY <1>1 DEF HeaderFields, Extended
<1> HIDE DEF f
<1>4. Understood(f, h.csid)
        = [csid |-> h.csid, timestamp |-> h.timestamp, mlen |-> size, typo |-> h.typo, msid |-> h.msid]
  BY <1>3 DEF Understood
<1> QED  BY <1>2, <1>4 DEF f

-----------------------------------------------------------------------------
(* The writer *)

\* The chunks that alloc takes.
D == DefaultSendChunkSize

\* What the reader will make of the header at hand.
Meant == Understood(header, hdr.csid)

(***************************************************************************)
(* The invariant of the writer, of headers: once a message is prepared,    *)
(* the reader will make of its header what was meant.                      *)
(***************************************************************************)
HeaderInv ==
  /\ sent \in Nat /\ mlen \in Nat
  /\ hdr \in Headers \/ (phase = "idle" /\ sent = 0)
  /\ HeadersUnderstood

(***************************************************************************)
(* And of bodies: what is put stands in the chunks in order, and a message *)
(* in one chunk is, once prepared, what Send finds in that chunk.          *)
(***************************************************************************)
BodyInv ==
  /\ phase = "filling" =>
       /\ put \in 0..mlen /\ offs = 0 /\ wire = << >>
       /\ \E N, b : Filling(cl, N, b, D, put) /\ mlen < b[N] /\ (Short => N = 1)
  /\ Short /\ phase = "ready" =>
       /\ cl.offw = 0 /\ ToSend(0) = OneChunk
       /\ (offs = 0 /\ wire = << >>) \/ (offs = 1 /\ wire = OneChunk)
  /\ WireIsChunk

WriterInv == HeaderInv /\ BodyInv

\* What the assumption says of a header.
LEMMA HdrsAre ==
  /\ Headers \subseteq Hdrs
  /\ \A h \in Headers : h.csid <= MaxStreamsNum /\ h.csid \in Nat
<1>1. Headers \subseteq Hdrs
  BY HeadersAssumption DEF Hdrs
<1>2. ASSUME NEW h \in Headers PROVE h.csid <= MaxStreamsNum /\ h.csid \in Nat
  <2>1. h.csid \in 2..MaxStreamsNum
    BY <1>1 DEF Hdrs
  <2> QED  BY <2>1, WriterAssumption
<1> QED  BY <1>1, <1>2

\* What goes to the wire.
WireBytes == {HeaderByte(i) : i \in Int} \cup {Data(i) : i \in Int}

\* A chunk of hs header bytes and n of the body.
ChunkOf(hs, n) == [i \in 1..hs |-> HeaderByte(i - 1)] \o [i \in 1..n |-> Data(i)]

\* The same, byte by byte.
InChunk(o, hs, n) ==
  /\ o \in Seq(WireBytes) /\ Len(o) = hs + n
  /\ \A j \in 1..(hs + n) : o[j] = IF j <= hs THEN HeaderByte(j - 1) ELSE Data(j - hs)

\* It is what it looks like.
LEMMA ChunkOfType ==
  ASSUME NEW hs \in Nat, NEW n \in Nat
  PROVE  InChunk(ChunkOf(hs, n), hs, n)
<1> PICK o : o = ChunkOf(hs, n)
  OBVIOUS
<1> DEFINE S == WireBytes
           A == [i \in 1..hs |-> HeaderByte(i - 1)]
           B == [i \in 1..n |-> Data(i)]
<1>1. \A i \in Int : HeaderByte(i) \in S /\ Data(i) \in S
  BY DEF WireBytes
<1>2. A \in Seq(S) /\ Len(A) = hs
  BY <1>1
<1>3. B \in Seq(S) /\ Len(B) = n
  BY <1>1
<1>4. o = A \o B
  BY DEF ChunkOf
<1>5. /\ A \o B \in Seq(S) /\ Len(A \o B) = hs + n
      /\ \A j \in 1..(hs + n) : (A \o B)[j] = IF j <= hs THEN A[j] ELSE B[j - hs]
  <2> HIDE DEF A, B
  <2>1. A \o B \in Seq(S)
    BY <1>2, <1>3, ConcatProperties
  <2>2. Len(A \o B) = hs + n
    BY <1>2, <1>3, ConcatProperties
  <2>3. \A j \in 1..(Len(A) + Len(B)) : (A \o B)[j] = IF j <= Len(A) THEN A[j] ELSE B[j - Len(A)]
    BY <1>2, <1>3, ConcatProperties
  <2> QED  BY <1>2, <1>3, <2>1, <2>2, <2>3
<1>6. ASSUME NEW j \in 1..(hs + n) PROVE o[j] = IF j <= hs THEN HeaderByte(j - 1) ELSE Data(j - hs)
  <2>1. CASE j <= hs
    BY <1>4, <1>5, <2>1
  <2>2. CASE ~(j <= hs)
    <3>1. j - hs \in 1..n
      BY <2>2
    <3> QED  BY <1>4, <1>5, <2>2, <3>1
  <2> QED  BY <2>1, <2>2
<1> QED  BY <1>4, <1>5, <1>6 DEF InChunk

\* Nothing sent.
LEMMA InitWriterInv == WriterInit => WriterInv
<1> SUFFICES ASSUME WriterInit PROVE WriterInv
  OBVIOUS
<1>1. HeaderInv
  BY WriterAssumption DEF WriterInit, HeaderInv, HeadersUnderstood
<1>2. BodyInv
  BY DEF WriterInit, BodyInv, WireIsChunk
<1> QED  BY <1>1, <1>2 DEF WriterInv

\* A new message, in chunks that are empty.
LEMMA StepAlloc ==
  ASSUME WriterInv, NEW h \in Headers, NEW n \in Lengths, alloc(h, n)
  PROVE  WriterInv'
<1>0. n \in Nat /\ D \in Nat \ {0} /\ MaxHeaderSize \in Nat
  BY WriterAssumption, RoomAssumption DEF D
<1>1. /\ phase = "idle" /\ phase' = "filling" /\ hdr' = h /\ mlen' = n /\ put' = 0 /\ offs' = 0 /\ wire' = << >>
      /\ header' = header /\ sent' = sent
      /\ cl' = newChunkList([i \in 1..(n \div D + 1) |-> newChunk(D)])
  BY DEF alloc, D
<1>2. HeaderInv'
  BY <1>0, <1>1 DEF WriterInv, HeaderInv, HeadersUnderstood
<1>3. PICK N, b : Filling(cl', N, b, D, 0) /\ n < b[N] /\ (n < D => N = 1)
  BY <1>0, <1>1, AllocFilling
<1>4. Filling(cl, N, b, D, put)' /\ (mlen < b[N])' /\ (Short => N = 1)'
  <2>1. (mlen < b[N])' /\ (Short => N = 1)'
    BY <1>1, <1>3 DEF Short, D
  <2>2. Filling(cl, N, b, D, put)'
    <3>1. Starts(b, N, D)'
      BY <1>3 DEF D, Filling, Starts
    <3>2. IsList(cl, N)'
      BY <1>3 DEF Filling, IsList, IsChunk
    <3>3. Offset([i \in 1..N |-> cl.chs[i].offw], cl.offw, b, N, D, put)'
      BY <1>1, <1>3 DEF D, Filling, Offset
    <3>4. \A i \in 1..N :
            /\ cl'.chs[i].len = D + MaxHeaderSize
            /\ cl'.chs[i].head = MaxHeaderSize /\ cl'.chs[i].offs = MaxHeaderSize
            /\ cl'.chs[i].buf = [c \in 0..(D + MaxHeaderSize - 1) |-> cl'.chs[i].buf[c]]
            /\ \A c \in 1..D : b[i - 1] + c <= put' => cl'.chs[i].buf[MaxHeaderSize + c - 1] = Data(b[i - 1] + c)
      BY <1>1, <1>3 DEF Filling
    <3> QED  BY <3>1, <3>2, <3>3, <3>4 DEF D, Filling
  <2> QED  BY <2>1, <2>2
<1>5. BodyInv'
  BY <1>0, <1>1, <1>4 DEF BodyInv, WireIsChunk
<1> QED  BY <1>2, <1>5 DEF WriterInv

\* A write puts the next bytes of the body.
LEMMA StepWrite ==
  ASSUME WriterInv, NEW k \in 1..mlen, Write(k)
  PROVE  WriterInv'
<1>0. D \in Nat \ {0} /\ MaxHeaderSize \in Nat
  BY WriterAssumption, RoomAssumption DEF D
<1> DEFINE w == WriteList(cl, [j \in 1..k |-> Data(put + j)])
<1>1. /\ phase = "filling" /\ put + k <= mlen /\ cl' = w.cl /\ put' = put + w.n
      /\ UNCHANGED <<phase, hdr, mlen, offs, header, wire, sent>>
  BY DEF Write
<1>2. HeaderInv'
  BY <1>1 DEF WriterInv, HeaderInv, HeadersUnderstood, Short
<1>3. PICK N, b : Filling(cl, N, b, D, put) /\ mlen < b[N] /\ (Short => N = 1)
  BY <1>1 DEF WriterInv, BodyInv
<1>4. mlen \in Nat /\ put \in 0..mlen /\ offs = 0 /\ wire = << >> /\ k \in Nat
  BY <1>1 DEF WriterInv, HeaderInv, BodyInv
<1>5. /\ w.n \in 0..(b[N] - put) /\ w.n <= k
      /\ Filling(w.cl, N, b, D, put + w.n)
  BY <1>0, <1>3, <1>4, WriteFilling
<1> HIDE DEF w
<1>6. put' \in 0..mlen
  BY <1>1, <1>4, <1>5
<1>7. Filling(cl, N, b, D, put)' /\ (mlen < b[N])' /\ (Short => N = 1)'
  BY <1>1, <1>3, <1>5 DEF Short, D, Filling, Offset, IsList, IsChunk, Starts
<1>8. BodyInv'
  BY <1>1, <1>4, <1>6, <1>7 DEF BodyInv, WireIsChunk
<1> QED  BY <1>2, <1>8 DEF WriterInv

\* A short body stands in the first chunk.
LEMMA ShortBody ==
  ASSUME WriterInv, phase = "filling", Short, put = mlen
  PROVE  LET ck == cl.chs[1]
             H == MaxHeaderSize
         IN  /\ cl = [chs |-> cl.chs, offr |-> cl.offr, offw |-> 0] /\ cl.offw = 0 /\ DOMAIN cl.chs = 1..1
             /\ has(cl) = 1 /\ IsChunk(ck) /\ ck.head = H /\ ck.offs = H /\ ck.offw = H + mlen
             /\ DOMAIN ck.buf = 0..(D + H - 1)
             /\ \A c \in 1..mlen : ck.buf[H + c - 1] = Data(c)
<1> DEFINE ck == cl.chs[1]
           H == MaxHeaderSize
<1>0. D \in Nat \ {0} /\ H \in Nat /\ mlen \in Nat /\ mlen < D
  BY WriterAssumption, RoomAssumption DEF D, WriterInv, HeaderInv, Short
<1>1. PICK N, b : Filling(cl, N, b, D, mlen) /\ mlen < b[N] /\ N = 1
  BY DEF WriterInv, BodyInv
<1>2. b[0] = 0 /\ b[1] = D
  <2>1. 1 \in 1..N /\ 1 - 1 = 0
    BY <1>1
  <2>2. b[1] = b[1 - 1] + D /\ b[0] = 0
    BY <1>1, <2>1 DEF Filling, Starts
  <2> QED  BY <1>0, <2>1, <2>2
<1>3. cl.offw = 0
  <2>1. cl.offw \in 0..1 /\ b[cl.offw] <= mlen
    BY <1>1 DEF Filling, Offset
  <2> QED  BY <1>0, <1>2, <2>1
<1>4. cl = [chs |-> cl.chs, offr |-> cl.offr, offw |-> 0] /\ DOMAIN cl.chs = 1..1 /\ has(cl) = 1 /\ IsChunk(ck)
  BY <1>1, <1>3 DEF Filling, IsList, has
<1>5. ck.head = H /\ ck.offs = H
  BY <1>1 DEF Filling
<1>6. ck.buf = [c \in 0..(D + H - 1) |-> ck.buf[c]]
  BY <1>1 DEF Filling
<1>7. ck.offw = H + mlen
  <2>1. ck.offw = H + Within(mlen, b[1 - 1], D)
    BY <1>1 DEF Filling, Offset
  <2>2. Within(mlen, 0, D) = mlen
    BY <1>0 DEF Within
  <2> QED  BY <1>2, <2>1, <2>2
<1>8. ASSUME NEW c \in 1..mlen PROVE ck.buf[H + c - 1] = Data(c)
  <2>1. c \in 1..D /\ b[1 - 1] + c = c /\ c <= mlen
    BY <1>0, <1>2
  <2>2. ck.buf[H + c - 1] = Data(b[1 - 1] + c)
    BY <1>1, <2>1 DEF Filling
  <2> QED  BY <2>1, <2>2
<1>9. DOMAIN ck.buf = 0..(D + H - 1)
  <2> HIDE DEF ck
  <2> QED  BY <1>6
<1> QED  BY <1>3, <1>4, <1>5, <1>7, <1>8, <1>9

\* With a header in front.
IsHeaded(e, H, hs, n) ==
  /\ e.offs = H - hs /\ e.offw = H + n
  /\ \A j \in 1..(hs + n) : e.buf[e.offs + j - 1] = IF j <= hs THEN HeaderByte(j - 1) ELSE Data(j - hs)

\* Headed puts it there.
LEMMA HeadedChunk ==
  ASSUME NEW ck, IsChunk(ck), NEW H \in Nat, NEW n \in Nat, NEW d \in Nat, n < d, NEW hs \in 1..H,
         ck.head = H, ck.offs = H, ck.offw = H + n, DOMAIN ck.buf = 0..(d + H - 1),
         \A c \in 1..n : ck.buf[H + c - 1] = Data(c)
  PROVE  IsHeaded(Headed(ck, hs), H, hs, n)
<1> PICK e : e = Headed(ck, hs)
  OBVIOUS
<1> DEFINE r == reset(ck, hs)
           t == H - hs
           B == [c \in DOMAIN ck.buf |-> IF c \in t..(t + hs - 1) THEN HeaderByte(c - t) ELSE ck.buf[c]]
<1>1. r = [buf |-> ck.buf, len |-> ck.len, offr |-> ck.offr, offw |-> H + n, head |-> t, offs |-> t]
  <2>1. ck = [buf |-> ck.buf, len |-> ck.len, offr |-> ck.offr, offw |-> ck.offw, head |-> ck.head, offs |-> ck.offs]
    BY DEF IsChunk
  <2>2. r = [ck EXCEPT !.head = ck.head - hs, !.offs = ck.head - hs]
    BY DEF reset
  <2> HIDE DEF r
  <2> QED  BY <2>1, <2>2
<1>2. e = [r EXCEPT !.buf = [c \in DOMAIN r.buf |->
             IF c \in r.head..(r.head + hs - 1) THEN HeaderByte(c - r.head) ELSE r.buf[c]]]
  <2> HIDE DEF r
  <2> QED  BY DEF Headed, r
<1> HIDE DEF r
<1>3. e = [buf |-> B, len |-> ck.len, offr |-> ck.offr, offw |-> H + n, head |-> t, offs |-> t]
  <2>1. r.buf = ck.buf /\ r.head = t
    BY <1>1
  <2>2. e = [r EXCEPT !.buf = B]
    BY <1>2, <2>1
  <2> HIDE DEF B, t
  <2> QED  BY <1>1, <2>2
<1>4. e.offs = t /\ e.offw = H + n /\ e.buf = B
  <2> HIDE DEF B, t
  <2> QED  BY <1>3
<1>5. t \in Nat /\ t + hs = H
  OBVIOUS
<1> HIDE DEF t
<1>6. ASSUME NEW j \in 1..(hs + n) PROVE B[t + j - 1] = IF j <= hs THEN HeaderByte(j - 1) ELSE Data(j - hs)
  <2>1. PICK c \in Nat : c = t + j - 1
    BY <1>5
  <2>2. c \in 0..(d + H - 1)
    BY <1>5, <2>1
  <2>3. B[c] = IF c \in t..(t + hs - 1) THEN HeaderByte(c - t) ELSE ck.buf[c]
    BY <2>2
  <2>4. CASE j <= hs
    <3>1. c \in t..(t + hs - 1) /\ c - t = j - 1
      BY <1>5, <2>1, <2>4
    <3> HIDE DEF B
    <3> QED  BY <2>1, <2>3, <2>4, <3>1
  <2>5. CASE ~(j <= hs)
    <3>1. c \notin t..(t + hs - 1)
      BY <1>5, <2>1, <2>5
    <3>2. PICK i \in 1..n : i = j - hs
      BY <2>5
    <3>3. c = H + i - 1
      BY <1>5, <2>1, <3>2
    <3> HIDE DEF B
    <3> QED  BY <2>1, <2>3, <2>5, <3>1, <3>2, <3>3
  <2> QED  BY <2>4, <2>5
<1> QED  BY <1>4, <1>6 DEF t, IsHeaded

\* The header is put in front of the body, and will be understood.
LEMMA StepPrepare == ASSUME WriterInv, prepare PROVE WriterInv'
<1> DEFINE H == MaxHeaderSize
           size == Size(cl)
           hs == HeaderSize(hdr.csid, Extended(hdr.timestamp))
           made == HeaderFields(hdr, size)
<1>0. /\ D \in Nat \ {0} /\ H \in Nat /\ H >= 18 /\ Word \in Nat \ {0}
  BY WriterAssumption, RoomAssumption DEF D
<1>1. /\ phase = "filling" /\ put = mlen /\ phase' = "ready"
      /\ UNCHANGED <<hdr, mlen, put, offs, wire, sent>>
  BY DEF prepare
<1>2. /\ hdr \in Headers /\ hdr \in Hdrs /\ ~(hdr.csid > MaxStreamsNum)
  <2>1. hdr \in Headers
    BY <1>1 DEF WriterInv, HeaderInv
  <2>2. hdr.csid <= MaxStreamsNum /\ hdr.csid \in Nat /\ MaxStreamsNum \in Nat
    BY <2>1, HdrsAre, WriterAssumption
  <2> QED  BY <2>1, <2>2, HdrsAre
<1>3. /\ header' = made
      /\ cl' = [cl EXCEPT !.chs = [i \in DOMAIN cl.chs |->
                   IF i = 1 THEN Headed(cl.chs[i], hs)
                   ELSE IF i > cl.offw + 1 THEN Followed(cl.chs[i], BasicSize(hdr.csid))
                   ELSE cl.chs[i]]]
  <2>1. header' = made
    BY <1>2 DEF prepare
  <2>2. cl' = [cl EXCEPT !.chs = [i \in DOMAIN cl.chs |->
                   IF i = 1 THEN Headed(cl.chs[i], hs)
                   ELSE IF i > cl.offw + 1 THEN Followed(cl.chs[i], BasicSize(hdr.csid))
                   ELSE cl.chs[i]]]
    BY <1>2 DEF prepare
  <2> QED  BY <2>1, <2>2
<1> HIDE DEF size
<1>5. hs \in 1..18 /\ hs = BytesRead(made, hdr.csid)
  <2>1. \A x : x = hs => x \in 1..18 /\ x = BytesRead(made, hdr.csid)
    BY <1>2, HeaderRoom
  <2> QED  BY <2>1
<1>6. Understood(made, hdr.csid) = [hdr EXCEPT !.mlen = size]
  BY <1>2, HeaderMeant
<1> HIDE DEF hs, made
<1>7. [hdr EXCEPT !.mlen = size].mlen = size
  BY <1>2 DEF Hdrs
<1>8. Meant' = [hdr EXCEPT !.mlen = size]
  BY <1>1, <1>3, <1>6 DEF Meant
<1>9. mlen \in Nat /\ sent \in Nat
  BY DEF WriterInv, HeaderInv
<1>10. Short => size = mlen
  <2> SUFFICES ASSUME Short PROVE size = mlen
    OBVIOUS
  <2> DEFINE ck == cl.chs[1]
  <2>1. cl.offw = 0 /\ has(cl) = 1 /\ ck.head = H /\ ck.offw = H + mlen
    BY <1>1, ShortBody
  <2>2. size = (1 - 0) * ((H + mlen) - H)
    BY <2>1 DEF size, Size
  <2> QED  BY <1>0, <1>9, <2>2
<1>12. HeaderInv'
  <2>1. (Short => Meant.mlen = mlen)'
    BY <1>1, <1>7, <1>8, <1>10 DEF Short
  <2>2. (Meant = [hdr EXCEPT !.mlen = Meant.mlen])'
    BY <1>1, <1>7, <1>8
  <2>3. HeadersUnderstood'
    BY <2>1, <2>2 DEF HeadersUnderstood, Meant
  <2> QED  BY <1>1, <1>2, <1>9, <2>3 DEF HeaderInv
<1>15. OneChunk' = ChunkOf(hs, mlen)
  BY <1>1, <1>3, <1>5 DEF OneChunk, ChunkOf
<1>13. ASSUME Short PROVE cl'.offw = 0 /\ (ToSend(0) = OneChunk)'
  <2> DEFINE ck == cl.chs[1]
             e == Headed(ck, hs)
  <2>1. /\ cl = [chs |-> cl.chs, offr |-> cl.offr, offw |-> 0] /\ DOMAIN cl.chs = 1..1
        /\ IsChunk(ck) /\ ck.head = H /\ ck.offs = H /\ ck.offw = H + mlen
        /\ DOMAIN ck.buf = 0..(D + H - 1)
        /\ \A c \in 1..mlen : ck.buf[H + c - 1] = Data(c)
    BY <1>1, <1>13, ShortBody
  <2>2. PICK g : g = [i \in DOMAIN cl.chs |->
                   IF i = 1 THEN Headed(cl.chs[i], hs)
                   ELSE IF i > cl.offw + 1 THEN Followed(cl.chs[i], BasicSize(hdr.csid))
                   ELSE cl.chs[i]]
    OBVIOUS
  <2>3. g[1] = e
    BY <2>1, <2>2
  <2>4. cl' = [chs |-> g, offr |-> cl.offr, offw |-> 0]
    BY <1>3, <2>1, <2>2
  <2>5. cl'.offw = 0 /\ cl'.chs = g
    BY <2>4
  <2> HIDE DEF ck
  <2>6. mlen < D /\ mlen \in Nat /\ hs \in 1..H
    BY <1>0, <1>5, <1>9, <1>13 DEF Short, D
  <2>7. /\ e.offs = H - hs /\ e.offw = H + mlen
        /\ \A j \in 1..(hs + mlen) : e.buf[e.offs + j - 1] = IF j <= hs THEN HeaderByte(j - 1) ELSE Data(j - hs)
    <3>1. PICK n \in Nat : n = mlen
      BY <2>6
    <3>2. PICK d \in Nat : d = D
      BY <1>0
    <3>3. PICK x : x = ck
      OBVIOUS
    <3>4. PICK f : f = Headed(x, hs)
      OBVIOUS
    <3>5. /\ IsChunk(x) /\ x.head = H /\ x.offs = H /\ x.offw = H + n /\ DOMAIN x.buf = 0..(d + H - 1)
          /\ \A c \in 1..n : x.buf[H + c - 1] = Data(c)
      BY <2>1, <3>1, <3>2, <3>3
    <3>6. H \in Nat /\ n < d /\ hs \in 1..H
      BY <1>0, <2>6, <3>1, <3>2
    <3>7. IsHeaded(f, H, hs, n)
      BY <3>4, <3>5, <3>6, HeadedChunk
    <3>9. e = f
      BY <3>3, <3>4 DEF e
    <3> HIDE DEF e
    <3> QED  BY <3>1, <3>7, <3>9 DEF IsHeaded
  <2> HIDE DEF e
  <2>8. e.offw - e.offs = hs + mlen
    BY <1>0, <2>6, <2>7
  <2>9. (ToSend(0))' = [j \in 1..(hs + mlen) |-> e.buf[e.offs + j - 1]]
    <3>1. cl'.chs[0 + 1] = e
      BY <2>3, <2>5
    <3>2. (ToSend(0))' = [j \in 1..(e.offw - e.offs) |-> e.buf[e.offs + j - 1]]
      BY <3>1 DEF ToSend
    <3> QED  BY <2>8, <3>2
  <2>10. PICK o : o = ChunkOf(hs, mlen)
    OBVIOUS
  <2>11. /\ o \in Seq(WireBytes) /\ Len(o) = hs + mlen
         /\ \A j \in 1..(hs + mlen) : o[j] = IF j <= hs THEN HeaderByte(j - 1) ELSE Data(j - hs)
    <3>1. PICK n \in Nat : n = mlen
      BY <2>6
    <3>2. hs \in Nat /\ o = ChunkOf(hs, n)
      BY <2>6, <2>10, <3>1
    <3>3. InChunk(o, hs, n)
      BY <3>2, ChunkOfType
    <3> QED  BY <3>1, <3>3 DEF InChunk
  <2>12. o = [j \in 1..(hs + mlen) |-> o[j]]
    BY <2>11
  <2>13. (ToSend(0))' = OneChunk'
    BY <1>15, <2>7, <2>9, <2>10, <2>11, <2>12
  <2> QED  BY <2>5, <2>13
<1>14. BodyInv'
  <2>1. offs' = 0 /\ wire' = << >>
    BY <1>1 DEF WriterInv, BodyInv
  <2>2. Short' = Short
    BY <1>1 DEF Short
  <2>4. (Short => IsPrefix(wire, OneChunk))'
    <3> SUFFICES ASSUME Short' PROVE IsPrefix(<< >>, OneChunk')
      BY <2>1
    <3>1. hs \in Nat /\ mlen \in Nat
      BY <1>5, <1>9
    <3>2. PICK o \in Seq(WireBytes) : o = OneChunk'
      BY <1>15, <3>1, ChunkOfType DEF InChunk
    <3>3. Len(<< >>) = 0 /\ Len(o) \in Nat
      OBVIOUS
    <3>4. SubSeq(<< >>, 1, 0) = << >> /\ SubSeq(o, 1, 0) = << >>
      BY SubSeqEmpty
    <3> QED  BY <3>2, <3>3, <3>4 DEF IsPrefix
  <2> QED  BY <1>1, <1>13, <2>1, <2>2, <2>4 DEF BodyInv, WireIsChunk
<1> QED  BY <1>12, <1>14 DEF WriterInv

\* The reader takes some bytes.
LEMMA RoomIsNat == BytesRead(header, hdr.csid) \in Nat
<1>1. BasicSize(hdr.csid) \in 1..3
  BY DEF BasicSize
<1> QED  BY <1>1 DEF BytesRead

\* The chunk goes out, or a part of it.
LEMMA StepSendChunk ==
  ASSUME WriterInv, NEW n \in 0..(DefaultSendChunkSize + MaxHeaderSize), SendChunk(n)
  PROVE  WriterInv'
<1>1. /\ phase = "ready" /\ offs <= cl.offw /\ n <= Len(ToSend(offs))
      /\ wire' = wire \o SubSeq(ToSend(offs), 1, n)
      /\ UNCHANGED <<hdr, mlen, put, cl, header, sent>>
      /\ \/ n = Len(ToSend(offs)) /\ offs' = offs + 1 /\ phase' = phase
         \/ n # Len(ToSend(offs)) /\ phase' = "failed" /\ offs' = offs
  BY DEF SendChunk
<1>2. phase' \in {"ready", "failed"} /\ hdr \in Headers
  BY <1>1 DEF WriterInv, HeaderInv
<1>3. HeaderInv'
  BY <1>1, <1>2 DEF WriterInv, HeaderInv, HeadersUnderstood, Short
<1>4. OneChunk' = OneChunk /\ Short' = Short
  BY <1>1 DEF OneChunk, Short
<1>5. BodyInv'
  <2> SUFFICES ASSUME Short PROVE BodyInv'
    BY <1>2, <1>4 DEF BodyInv, WireIsChunk
  <2>1. cl.offw = 0 /\ ToSend(0) = OneChunk /\ ((offs = 0 /\ wire = << >>) \/ (offs = 1 /\ wire = OneChunk))
    BY <1>1 DEF WriterInv, BodyInv
  <2>2. offs = 0 /\ wire = << >>
    BY <1>1, <2>1
  <2>3. PICK hs \in Nat : hs = BytesRead(header, hdr.csid)
    BY RoomIsNat
  <2>4. mlen \in Nat
    BY DEF WriterInv, HeaderInv
  <2>5. PICK o \in Seq(WireBytes) : o = OneChunk
    <3>1. OneChunk = ChunkOf(hs, mlen)
      BY <2>3 DEF OneChunk, ChunkOf
    <3> QED  BY <2>4, <3>1, ChunkOfType DEF InChunk
  <2>6. Len(o) \in Nat /\ n \in Nat /\ n <= Len(o) /\ wire' = << >> \o SubSeq(o, 1, n)
    BY <1>1, <2>1, <2>2, <2>5, WriterAssumption, RoomAssumption
  <2>7. /\ SubSeq(o, 1, n) \in Seq(WireBytes) /\ Len(SubSeq(o, 1, n)) = n
        /\ \A i \in 1..n : SubSeq(o, 1, n)[i] = o[i]
    BY <2>6
  <2>8. wire' = SubSeq(o, 1, n)
    BY <2>6, <2>7, ConcatEmptySeq
  <2>9. IsPrefix(wire', o)
    <3>1. PICK w \in Seq(WireBytes) : w = SubSeq(o, 1, n)
      BY <2>7
    <3>2. SubSeq(w, 1, n) = w
      BY <2>6, <2>7, <3>1
    <3> QED  BY <2>6, <2>7, <2>8, <3>1, <3>2 DEF IsPrefix
  <2>10. n = Len(o) => wire' = o
    BY <2>6, <2>7, <2>8
  <2>11. (ToSend(0))' = ToSend(0) /\ cl'.offw = 0
    BY <1>1, <2>1 DEF ToSend
  <2>12. phase' = "ready" => offs' = 1 /\ wire' = OneChunk'
    BY <1>1, <1>4, <2>1, <2>2, <2>5, <2>10
  <2> QED  BY <1>2, <1>4, <2>1, <2>5, <2>9, <2>11, <2>12 DEF BodyInv, WireIsChunk
<1> QED  BY <1>3, <1>5 DEF WriterInv

\* Nothing is left to send.
LEMMA StepSent == ASSUME WriterInv, Sent PROVE WriterInv'
<1>1. /\ phase = "ready" /\ offs > cl.offw /\ phase' = "idle" /\ sent' = sent + 1
      /\ UNCHANGED <<hdr, mlen, put, cl, offs, header, wire>>
  BY DEF Sent
<1>7. HeaderInv'
  BY <1>1 DEF WriterInv, HeaderInv, HeadersUnderstood, Short
<1>8. BodyInv'
  <2>1. OneChunk' = OneChunk /\ Short' = Short
    BY <1>1 DEF OneChunk, Short
  <2>2. Short => wire = OneChunk
    BY <1>1 DEF WriterInv, BodyInv
  <2> QED  BY <1>1, <2>1, <2>2 DEF BodyInv, WireIsChunk
<1> QED  BY <1>7, <1>8 DEF WriterInv

\* So every step keeps the invariant.
LEMMA StepWriterInv == WriterInv /\ [WriterNext]_writerVars => WriterInv'
<1> SUFFICES ASSUME WriterInv, [WriterNext]_writerVars PROVE WriterInv'
  OBVIOUS
<1>1. ASSUME NEW h \in Headers, NEW n \in Lengths, alloc(h, n) PROVE WriterInv'
  BY <1>1, StepAlloc
<1>2. ASSUME NEW k \in 1..mlen, Write(k) PROVE WriterInv'
  BY <1>2, StepWrite
<1>3. CASE prepare
  BY <1>3, StepPrepare
<1>4. ASSUME NEW n \in 0..(DefaultSendChunkSize + MaxHeaderSize), SendChunk(n) PROVE WriterInv'
  BY <1>4, StepSendChunk
<1>5. CASE Sent
  BY <1>5, StepSent
<1>6. CASE UNCHANGED writerVars
  <2>1. HeaderInv'
    BY <1>6 DEF writerVars, WriterInv, HeaderInv, HeadersUnderstood, Short
  <2>2. /\ OneChunk' = OneChunk /\ Short' = Short /\ (ToSend(0))' = ToSend(0)
        /\ phase' = phase /\ cl' = cl /\ put' = put /\ mlen' = mlen /\ offs' = offs /\ wire' = wire /\ sent' = sent
    BY <1>6 DEF writerVars, OneChunk, Short, ToSend
  <2>3. ASSUME NEW N, NEW b, Filling(cl, N, b, D, put) /\ mlen < b[N] /\ (Short => N = 1)
        PROVE  (Filling(cl, N, b, D, put) /\ mlen < b[N] /\ (Short => N = 1))'
    BY <2>2, <2>3 DEF Filling, Offset, IsList, IsChunk, Starts, D
  <2>4. BodyInv'
    BY <2>2, <2>3 DEF WriterInv, BodyInv, WireIsChunk
  <2> QED  BY <2>1, <2>4 DEF WriterInv
<1> QED  BY <1>1, <1>2, <1>3, <1>4, <1>5, <1>6 DEF WriterNext

(***************************************************************************)
(* The invariant of the writer, for all headers, bodies and chunk sizes    *)
(* (message.go:401-521): what is put stands in the chunks in order, and a  *)
(* short body behind its header in the first one, whatever is sent of it.  *)
(***************************************************************************)
THEOREM WriterInvAlways == WriterSpec => []WriterInv
<1> QED  BY InitWriterInv, StepWriterInv, PTL DEF WriterSpec

(***************************************************************************)
(* What goes out of a message in one chunk is a prefix, and in the end the *)
(* whole, of as many header bytes as the reader takes and then the body    *)
(* (message.go:145-154, 405-521): HeaderSize is what BytesRead counts, and *)
(* Headed leaves the body alone.                                           *)
(***************************************************************************)
THEOREM WireIsChunkAlways == WriterSpec => []WireIsChunk
<1>1. WriterInv => WireIsChunk
  BY DEF WriterInv, BodyInv
<1> QED  BY <1>1, WriterInvAlways, PTL

(***************************************************************************)
(* The reader makes of every header what was meant (message.go:443-508,    *)
(* conn.go:310-395), for all times in uint32: what is written into the     *)
(* header's room is what is looked for there, and the length counted from  *)
(* the chunks is that of a body in one chunk.                              *)
(***************************************************************************)
THEOREM HeadersUnderstoodAlways == WriterSpec => []HeadersUnderstood
<1>1. WriterInv => HeadersUnderstood
  BY DEF WriterInv, HeaderInv
<1> QED  BY <1>1, WriterInvAlways, PTL
=============================================================================
