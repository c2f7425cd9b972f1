----------------------------- MODULE ConnProofs -----------------------------
(***************************************************************************)
(* That a connection follows its peer, for every peer, application, cut of *)
(* the link and constant.  The argument: the wire always holds, for every  *)
(* message not yet served, the first chunk of what its peer wrote, at a    *)
(* place that can be told (LaidIn); the header being read agrees with the  *)
(* one that stands there (Place); and the chunk size the peer had when it  *)
(* wrote is the one this end has when it reads (SizesIn).  A message in    *)
(* more chunks, or with a header that leaves out what pumpMessage does not *)
(* remember, ends the connection at its first chunk or one step after it.  *)
(*                                                                         *)
(* That its counters are those of AckWindow.  And that no reply outgrows   *)
(* the chunks the peer reads: the order in which one handler writes its    *)
(* replies is kept over failing writes and over commands.                  *)
(***************************************************************************)
EXTENDS Conn, AckWindowProofs, SequenceTheorems, WellFoundedInduction, TLAPS

-----------------------------------------------------------------------------
(* Sequences joined into one *)

\* Induction over the naturals, as a fact about sets: every set of naturals
\* that is not empty has a least element.
LEMMA SetInduction ==
  ASSUME NEW S, 0 \in S, \A n \in Nat : n \in S => n + 1 \in S
  PROVE  Nat \subseteq S
<1> DEFINE T == Nat \ S
           R == OpToRel(<, Nat)
<1> SUFFICES ASSUME T # {} PROVE FALSE
  OBVIOUS
<1>1. IsWellFoundedOn(R, Nat)
  BY NatLessThanWellFounded
<1> HIDE DEF R
<1>2. PICK x \in T : \A y \in T : <<y, x>> \notin R
  BY <1>1, WFMin
<1>3. \A y \in Nat : y < x => <<y, x>> \in R
  BY DEF R, OpToRel
<1>4. x \in Nat \ {0} /\ x - 1 \in Nat /\ x - 1 < x
  BY <1>2
<1>5. x - 1 \notin T
  BY <1>2, <1>3, <1>4
<1>6. x - 1 \in S /\ x = (x - 1) + 1
  BY <1>4, <1>5
<1>7. x \in S
  BY <1>4, <1>6
<1> QED  BY <1>2, <1>7

\* Induction from 1 to n.
LEMMA UpTo ==
  ASSUME NEW n \in Nat \ {0}, NEW S, 1 \in S, \A k \in 1..(n - 1) : k \in S => k + 1 \in S
  PROVE  1..n \subseteq S
<1> DEFINE T == {k \in Nat : k + 1 <= n => k + 1 \in S}
<1>1. 0 \in T
  OBVIOUS
<1>2. ASSUME NEW k \in Nat, k \in T PROVE k + 1 \in T
  <2> SUFFICES ASSUME k + 2 <= n PROVE (k + 1) + 1 \in S
    OBVIOUS
  <2>1. k + 1 \in 1..(n - 1) /\ k + 1 \in S
    BY <1>2
  <2> QED  BY <2>1
<1>3. Nat \subseteq T
  <2> HIDE DEF T
  <2> QED  BY <1>1, <1>2, SetInduction
<1>4. ASSUME NEW i \in 1..n PROVE i \in S
  <2>1. i - 1 \in T
    BY <1>3
  <2> QED  BY <2>1
<1> QED  BY <1>4

\* t begins with s.
Starts(t, s) == Len(t) >= Len(s) /\ \A i \in 1..Len(s) : t[i] = s[i]

\* The first k of the sequences ss, joined one by one.
Joins(f, ss, k) ==
  /\ f[1] = ss[1]
  /\ \A i \in 2..k : f[i] = f[i - 1] \o ss[i]
  /\ \A i \in 1..k : Starts(f[i], ss[1])

\* What begins with s still does when it goes on.
LEMMA StartsConcat ==
  ASSUME NEW S, NEW s \in Seq(S), NEW t \in Seq(S), NEW u \in Seq(S), Starts(t, s)
  PROVE  t \o u \in Seq(S) /\ Starts(t \o u, s)
<1> DEFINE c == t \o u
<1>1. /\ Len(s) \in Nat /\ Len(t) \in Nat /\ Len(u) \in Nat /\ Len(s) <= Len(t)
      /\ \A i \in 1..Len(s) : t[i] = s[i]
  BY DEF Starts
<1>2. /\ c \in Seq(S) /\ Len(c) = Len(t) + Len(u)
      /\ \A i \in 1..(Len(t) + Len(u)) : c[i] = IF i <= Len(t) THEN t[i] ELSE u[i - Len(t)]
  BY ConcatProperties
<1> HIDE DEF c
<1>3. Starts(c, s)
  BY <1>1, <1>2 DEF Starts
<1> QED  BY <1>2, <1>3 DEF c

\* One more sequence joined.
LEMMA JoinMore ==
  ASSUME NEW S, NEW n \in Nat \ {0}, NEW ss \in [1..n -> Seq(S)], NEW k \in 1..(n - 1),
         NEW f \in [1..k -> Seq(S)], Joins(f, ss, k)
  PROVE  \E g \in [1..(k + 1) -> Seq(S)] : Joins(g, ss, k + 1)
<1> DEFINE h == f[k] \o ss[k + 1]
           g == [i \in 1..(k + 1) |-> IF i = k + 1 THEN h ELSE f[i]]
<1>1. f[k] \in Seq(S) /\ ss[k + 1] \in Seq(S) /\ ss[1] \in Seq(S) /\ Starts(f[k], ss[1])
  BY DEF Joins
<1>2. h \in Seq(S) /\ Starts(h, ss[1])
  BY <1>1, StartsConcat
<1> HIDE DEF h
<1>3. g \in [1..(k + 1) -> Seq(S)] /\ g[k + 1] = h /\ \A i \in 1..k : g[i] = f[i]
  BY <1>2
<1> HIDE DEF g
<1>4. g[1] = ss[1]
  BY <1>3 DEF Joins
<1>5. ASSUME NEW i \in 2..(k + 1) PROVE g[i] = g[i - 1] \o ss[i]
  <2>1. CASE i = k + 1
    <3>1. g[i - 1] = f[k] /\ g[i] = h /\ ss[i] = ss[k + 1]
      BY <1>3, <2>1
    <3> QED  BY <3>1 DEF h
  <2>2. CASE i # k + 1
    <3>1. i \in 2..k /\ i \in 1..k /\ i - 1 \in 1..k
      BY <2>2
    <3>2. g[i] = f[i] /\ g[i - 1] = f[i - 1] /\ f[i] = f[i - 1] \o ss[i]
      BY <1>3, <3>1 DEF Joins
    <3> QED  BY <3>2
  <2> QED  BY <2>1, <2>2
<1>6. ASSUME NEW i \in 1..(k + 1) PROVE Starts(g[i], ss[1])
  <2>1. CASE i = k + 1
    BY <1>2, <1>3, <2>1
  <2>2. CASE i # k + 1
    <3>1. i \in 1..k /\ g[i] = f[i]
      BY <1>3, <2>2
    <3> QED  BY <3>1 DEF Joins
  <2> QED  BY <2>1, <2>2
<1>7. Joins(g, ss, k + 1)
  BY <1>4, <1>5, <1>6 DEF Joins
<1> QED  BY <1>3, <1>7

\* All of them.
LEMMA JoinAll ==
  ASSUME NEW S, NEW n \in Nat \ {0}, NEW ss \in [1..n -> Seq(S)]
  PROVE  \E f \in [1..n -> Seq(S)] : Joins(f, ss, n)
<1> DEFINE Joined(k) == \E f \in [1..k -> Seq(S)] : Joins(f, ss, k)
           T == {k \in 1..n : Joined(k)}
<1>1. Joined(1)
  <2> DEFINE f == [i \in 1..1 |-> ss[1]]
  <2>1. f \in [1..1 -> Seq(S)] /\ f[1] = ss[1] /\ ss[1] \in Seq(S)
    OBVIOUS
  <2> HIDE DEF f
  <2>2. Starts(ss[1], ss[1])
    BY <2>1 DEF Starts
  <2>3. Joins(f, ss, 1)
    BY <2>1, <2>2 DEF Joins
  <2> QED  BY <2>1, <2>3
<1>2. ASSUME NEW k \in 1..(n - 1), Joined(k) PROVE Joined(k + 1)
  BY <1>2, JoinMore
<1> HIDE DEF Joined
<1>3. 1 \in T /\ \A k \in 1..(n - 1) : k \in T => k + 1 \in T
  BY <1>1, <1>2
<1>4. n \in T
  <2> HIDE DEF T
  <2>1. 1..n \subseteq T
    BY <1>3, UpTo, Zenon
  <2> QED  BY <2>1
<1> QED  BY <1>4 DEF Joined

(***************************************************************************)
(* Sequences joined into one: the result begins with the first, and is the *)
(* first when there is no other.                                           *)
(***************************************************************************)
LEMMA FlattenStarts ==
  ASSUME NEW S, NEW n \in Nat \ {0}, NEW ss \in [1..n -> Seq(S)]
  PROVE  /\ FlattenSeq(ss) \in Seq(S)
         /\ Starts(FlattenSeq(ss), ss[1])
         /\ n = 1 => FlattenSeq(ss) = ss[1]
<1>1. PICK f \in [1..n -> Seq(S)] : Joins(f, ss, n)
  BY JoinAll
<1> DEFINE Recursive(h) == h = [i \in 1..n |-> IF i = 1 THEN ss[i] ELSE h[i - 1] \o ss[i]]
           G == CHOOSE h : Recursive(h)
<1>2. Recursive(f)
  <2> DEFINE F(i) == IF i = 1 THEN ss[i] ELSE f[i - 1] \o ss[i]
  <2>1. ASSUME NEW i \in 1..n PROVE f[i] = F(i)
    <3>1. CASE i = 1
      BY <1>1, <3>1 DEF Joins
    <3>2. CASE i # 1
      <4>1. i \in 2..n
        BY <3>2
      <4>2. f[i] = f[i - 1] \o ss[i]
        BY <1>1, <4>1 DEF Joins
      <4> QED  BY <3>2, <4>2
    <3> QED  BY <3>1, <3>2
  <2>2. f = [i \in 1..n |-> f[i]]
    OBVIOUS
  <2> HIDE DEF F
  <2>3. f = [i \in 1..n |-> F(i)]
    BY <2>1, <2>2
  <2> QED  BY <2>3 DEF F
<1>3. Recursive(G)
  <2> HIDE DEF Recursive
  <2> QED  BY <1>2, Zenon
<1>4. Len(ss) = n /\ n # 0
  OBVIOUS
<1>5. FlattenSeq(ss) = G[n]
  BY <1>4, Zenon DEF FlattenSeq
<1> HIDE DEF G
<1>6. G[1] = ss[1] /\ \A i \in 2..n : G[i] = G[i - 1] \o ss[i]
  <2>1. ASSUME NEW i \in 1..n PROVE G[i] = IF i = 1 THEN ss[i] ELSE G[i - 1] \o ss[i]
    BY <1>3, Zenon
  <2>2. 1 \in 1..n /\ \A i \in 2..n : i \in 1..n /\ i # 1
    OBVIOUS
  <2> HIDE DEF Recursive
  <2> QED  BY <2>1, <2>2, Zenon
<1> HIDE DEF Recursive
<1> DEFINE T == {k \in 1..n : G[k] = f[k]}
<1>7. 1 \in T
  BY <1>1, <1>6 DEF Joins
<1>8. ASSUME NEW k \in 1..(n - 1), k \in T PROVE k + 1 \in T
  <2>1. k + 1 \in 2..n /\ (k + 1) - 1 = k /\ G[k] = f[k]
    BY <1>8
  <2>2. G[k + 1] = G[k] \o ss[k + 1] /\ f[k + 1] = f[k] \o ss[k + 1]
    BY <1>1, <1>6, <2>1 DEF Joins
  <2>3. G[k + 1] = f[k + 1]
    BY <2>1, <2>2
  <2> QED  BY <2>1, <2>3
<1>9. n \in T
  <2> HIDE DEF T
  <2>1. 1..n \subseteq T
    BY <1>7, <1>8, UpTo
  <2> QED  BY <2>1
<1>10. FlattenSeq(ss) = f[n] /\ f[n] \in Seq(S) /\ Starts(f[n], ss[1]) /\ f[1] = ss[1]
  BY <1>1, <1>5, <1>9 DEF Joins
<1> QED  BY <1>10

-----------------------------------------------------------------------------
(* What a peer writes *)

\* What the fields hold, the fields, and the messages sent.
Values == [fmt : 0..3, csid : Nat] \cup Nat \cup BOOLEAN \cup Msgs
FieldNames == ReadingStates \cup {"handshake"}
WireFields == [f : FieldNames, n : Int, v : Values]
Sents == [m : Msgs, fmt : Fmts, csid : Csids, whole : BOOLEAN]

\* The body of the first chunk, if the message has one.
FirstBody(m, cs) == IF m.len = 0 THEN << >> ELSE <<Field("body", ChunkLen(m.len, cs, 1), m)>>

\* The first chunk of a message, with or without an extended timestamp.
FirstChunk(s, ext, cs) ==
  (BasicHeader(s.fmt, s.csid) \o MessageHeader(s.fmt, s.m, ext)) \o FirstBody(s.m, cs)

\* The fields of its basic header, of both headers, and of the chunk.
Basics(s) == IF s.csid < 64 THEN 1 ELSE 2
Heads(s, ext) == Basics(s) + (3 - s.fmt) + (IF ext THEN 1 ELSE 0)
ChunkFields(s, ext) == Heads(s, ext) + (IF s.m.len = 0 THEN 0 ELSE 1)

\* What the first byte of a basic header holds for the chunk stream.
SmallField(csid) == IF csid < 64 THEN csid ELSE IF csid < 320 THEN 0 ELSE 1

\* What stands where in it.
LaidOut(F, s, ext, cs) ==
  LET b == Basics(s)
  IN  /\ F[1] = Field("basic", 1, [fmt |-> s.fmt, csid |-> SmallField(s.csid)])
      /\ b = 2 => F[2] = Field("csid", IF s.csid < 320 THEN 1 ELSE 2, s.csid)
      /\ s.fmt <= 2 => F[b + 1] = Field("timestamp", 3, ext)
      /\ s.fmt <= 1 => F[b + 2] = Field("length", 4, s.m)
      /\ s.fmt = 0 => F[b + 3] = Field("msid", 4, 0)
      /\ ext => F[b + (3 - s.fmt) + 1] = Field("extended", 4, 0)
      /\ s.m.len > 0 => F[Heads(s, ext) + 1] = Field("body", ChunkLen(s.m.len, cs, 1), s.m)

\* The parts of a message sent.
LEMMA SentTypes ==
  ASSUME NEW s \in Sents
  PROVE  /\ s.m \in Msgs /\ s.fmt \in 0..3 /\ s.csid \in Nat \ {0, 1} /\ s.whole \in BOOLEAN
         /\ s.m.len \in Nat /\ s.m.typo \in Types
  BY ConnAssumption, MsgsAssumption, WordAssumption DEF Sents, ReadSizes

\* A field, and what it may hold.
LEMMA FieldType ==
  ASSUME NEW f \in FieldNames, NEW n \in Int, NEW v \in Values
  PROVE  Field(f, n, v) \in WireFields
  BY DEF Field, WireFields

LEMMA ValueTypes ==
  /\ \A fmt \in 0..3, csid \in Nat : [fmt |-> fmt, csid |-> csid] \in Values
  /\ \A n \in Nat : n \in Values
  /\ \A b \in BOOLEAN : b \in Values
  /\ \A m \in Msgs : m \in Values
  BY DEF Values

\* The same of each of the two headers on its own.
BasicLaidOut(B, fmt, csid) ==
  /\ B \in Seq(WireFields)
  /\ Len(B) = IF csid < 64 THEN 1 ELSE 2
  /\ B[1] = Field("basic", 1, [fmt |-> fmt, csid |-> SmallField(csid)])
  /\ csid >= 64 => B[2] = Field("csid", IF csid < 320 THEN 1 ELSE 2, csid)

HeaderLaidOut(H, fmt, m, ext) ==
  /\ H \in Seq(WireFields)
  /\ Len(H) = (3 - fmt) + (IF ext THEN 1 ELSE 0)
  /\ fmt <= 2 => H[1] = Field("timestamp", 3, ext)
  /\ fmt <= 1 => H[2] = Field("length", 4, m)
  /\ fmt = 0 => H[3] = Field("msid", 4, 0)
  /\ ext => H[(3 - fmt) + 1] = Field("extended", 4, 0)

\* Both hold of what BasicHeader and MessageHeader make, and LaidOut of the
\* chunk they begin.
LEMMA BasicLayout ==
  ASSUME NEW fmt \in 0..3, NEW csid \in Nat \ {0, 1}
  PROVE  BasicLaidOut(BasicHeader(fmt, csid), fmt, csid)
<1> DEFINE x == Field("basic", 1, [fmt |-> fmt, csid |-> SmallField(csid)])
           y == Field("csid", IF csid < 320 THEN 1 ELSE 2, csid)
<1>1. x \in WireFields /\ y \in WireFields
  <2>1. SmallField(csid) \in Nat
    BY DEF SmallField
  <2>2. [fmt |-> fmt, csid |-> SmallField(csid)] \in Values /\ csid \in Values
    BY <2>1, ValueTypes, Zenon
  <2>3. 1 \in Int /\ (IF csid < 320 THEN 1 ELSE 2) \in Int
    OBVIOUS
  <2>4. "basic" \in FieldNames /\ "csid" \in FieldNames
    BY DEF FieldNames, ReadingStates
  <2> QED  BY <2>2, <2>3, <2>4, FieldType, Zenon
<1>2. BasicHeader(fmt, csid) = <<x>> \o (IF csid < 64 THEN << >> ELSE <<y>>)
  BY DEF BasicHeader, SmallField
<1> HIDE DEF x, y
<1> DEFINE Y == IF csid < 64 THEN << >> ELSE <<y>>
<1>3. <<x>> \in Seq(WireFields) /\ Len(<<x>>) = 1 /\ <<x>>[1] = x
  BY <1>1
<1>4. Y \in Seq(WireFields) /\ Len(Y) = (IF csid < 64 THEN 0 ELSE 1) /\ (csid >= 64 => Y[1] = y)
  BY <1>1
<1> HIDE DEF Y
<1>5. /\ <<x>> \o Y \in Seq(WireFields) /\ Len(<<x>> \o Y) = 1 + Len(Y)
      /\ \A k \in 1..(1 + Len(Y)) : (<<x>> \o Y)[k] = IF k <= 1 THEN <<x>>[k] ELSE Y[k - 1]
  BY <1>3, <1>4, ConcatProperties
<1>6. (<<x>> \o Y)[1] = x /\ (csid >= 64 => (<<x>> \o Y)[2] = y)
  BY <1>3, <1>4, <1>5
<1>7. BasicHeader(fmt, csid) = <<x>> \o Y
  BY <1>2 DEF Y
<1> QED  BY <1>4, <1>5, <1>6, <1>7 DEF x, y, BasicLaidOut

LEMMA HeaderLayout ==
  ASSUME NEW fmt \in 0..3, NEW m \in Msgs, NEW ext \in BOOLEAN
  PROVE  HeaderLaidOut(MessageHeader(fmt, m, ext), fmt, m, ext)
<1> DEFINE t == Field("timestamp", 3, ext)
           l == Field("length", 4, m)
           i == Field("msid", 4, 0)
           e == Field("extended", 4, 0)
           E == IF ext THEN <<e>> ELSE << >>
           H == MessageHeader(fmt, m, ext)
<1>1. t \in WireFields /\ l \in WireFields /\ i \in WireFields /\ e \in WireFields
  <2>1. ext \in Values /\ m \in Values /\ 0 \in Values
    BY ValueTypes
  <2>2. 3 \in Int /\ 4 \in Int
    OBVIOUS
  <2>3. {"timestamp", "length", "msid", "extended"} \subseteq FieldNames
    BY DEF FieldNames, ReadingStates
  <2> QED  BY <2>1, <2>2, <2>3, FieldType, Zenon
<1>2. H = (((IF fmt <= 2 THEN <<t>> ELSE << >>) \o (IF fmt <= 1 THEN <<l>> ELSE << >>))
           \o (IF fmt = 0 THEN <<i>> ELSE << >>)) \o E
  BY DEF MessageHeader
<1> HIDE DEF t, l, i, e, H
<1> DEFINE P == IF fmt <= 2 THEN <<t>> ELSE << >>
           Q == IF fmt <= 1 THEN <<l>> ELSE << >>
           R == IF fmt = 0 THEN <<i>> ELSE << >>
           p == IF fmt <= 2 THEN 1 ELSE 0
           q == IF fmt <= 1 THEN 1 ELSE 0
           r == IF fmt = 0 THEN 1 ELSE 0
           x == IF ext THEN 1 ELSE 0
           U == P \o Q
           V == U \o R
<1>3. /\ P \in Seq(WireFields) /\ Len(P) = p /\ (p = 1 => P[1] = t)
      /\ Q \in Seq(WireFields) /\ Len(Q) = q /\ (q = 1 => Q[1] = l)
      /\ R \in Seq(WireFields) /\ Len(R) = r /\ (r = 1 => R[1] = i)
      /\ E \in Seq(WireFields) /\ Len(E) = x /\ (x = 1 => E[1] = e)
  BY <1>1
<1>4. H = V \o E
  BY <1>2
<1>5. /\ p \in 0..1 /\ q \in 0..1 /\ r \in 0..1 /\ x \in 0..1
      /\ q = 1 => p = 1
      /\ r = 1 => p = 1 /\ q = 1
      /\ p + q + r = 3 - fmt
      /\ (fmt <= 2 <=> p = 1) /\ (fmt <= 1 <=> q = 1) /\ (fmt = 0 <=> r = 1) /\ (ext <=> x = 1)
  OBVIOUS
<1> HIDE DEF E, P, Q, R, U, V, p, q, r, x
<1>6. /\ U \in Seq(WireFields) /\ Len(U) = p + q
      /\ \A k \in 1..(p + q) : U[k] = IF k <= p THEN P[k] ELSE Q[k - p]
  BY <1>3, ConcatProperties DEF U
<1>7. /\ V \in Seq(WireFields) /\ Len(V) = p + q + r
      /\ \A k \in 1..(p + q + r) : V[k] = IF k <= p + q THEN U[k] ELSE R[k - (p + q)]
  BY <1>3, <1>5, <1>6, ConcatProperties DEF V
<1>8. /\ H \in Seq(WireFields) /\ Len(H) = p + q + r + x
      /\ \A k \in 1..(p + q + r + x) : H[k] = IF k <= p + q + r THEN V[k] ELSE E[k - (p + q + r)]
  BY <1>3, <1>4, <1>5, <1>7, ConcatProperties
<1>9. p = 1 => H[1] = t
  BY <1>3, <1>5, <1>6, <1>7, <1>8
<1>10. q = 1 => H[2] = l
  BY <1>3, <1>5, <1>6, <1>7, <1>8
<1>11. r = 1 => H[3] = i
  BY <1>3, <1>5, <1>6, <1>7, <1>8
<1>12. x = 1 => H[(3 - fmt) + 1] = e
  BY SMTT(30), <1>3, <1>5, <1>7, <1>8
<1> QED  BY <1>5, <1>8, <1>9, <1>10, <1>11, <1>12 DEF t, l, i, e, H, x, HeaderLaidOut

LEMMA ChunkLayout ==
  ASSUME NEW s \in Sents, NEW ext \in BOOLEAN, NEW cs \in Nat \ {0}
  PROVE  LET F == FirstChunk(s, ext, cs)
         IN  /\ F \in Seq(WireFields)
             /\ Len(F) = ChunkFields(s, ext)
             /\ LaidOut(F, s, ext, cs)
<1> DEFINE B == BasicHeader(s.fmt, s.csid)
           H == MessageHeader(s.fmt, s.m, ext)
           Y == FirstBody(s.m, cs)
           b == Basics(s)
           h == (3 - s.fmt) + (IF ext THEN 1 ELSE 0)
           y == IF s.m.len = 0 THEN 0 ELSE 1
           F == FirstChunk(s, ext, cs)
<1>1. /\ s.m \in Msgs /\ s.fmt \in 0..3 /\ s.csid \in Nat \ {0, 1} /\ s.m.len \in Nat
  BY SentTypes
<1>2. /\ B \in Seq(WireFields) /\ Len(B) = b /\ b \in 1..2
      /\ B[1] = Field("basic", 1, [fmt |-> s.fmt, csid |-> SmallField(s.csid)])
      /\ b = 2 => B[2] = Field("csid", IF s.csid < 320 THEN 1 ELSE 2, s.csid)
  <2>1. BasicLaidOut(B, s.fmt, s.csid)
    BY <1>1, BasicLayout, Zenon
  <2> HIDE DEF B
  <2> QED  BY <1>1, <2>1 DEF BasicLaidOut, Basics
<1>3. /\ H \in Seq(WireFields) /\ Len(H) = h /\ h \in 0..4
      /\ s.fmt <= 2 => H[1] = Field("timestamp", 3, ext)
      /\ s.fmt <= 1 => H[2] = Field("length", 4, s.m)
      /\ s.fmt = 0 => H[3] = Field("msid", 4, 0)
      /\ ext => H[(3 - s.fmt) + 1] = Field("extended", 4, 0)
  <2>1. HeaderLaidOut(H, s.fmt, s.m, ext)
    BY <1>1, HeaderLayout, Zenon
  <2> HIDE DEF H
  <2> QED  BY <1>1, <2>1 DEF HeaderLaidOut
<1>4. /\ Y \in Seq(WireFields) /\ Len(Y) = y
      /\ s.m.len > 0 => Y[1] = Field("body", ChunkLen(s.m.len, cs, 1), s.m)
  <2> DEFINE x == Field("body", ChunkLen(s.m.len, cs, 1), s.m)
  <2>1. ChunkLen(s.m.len, cs, 1) \in Int
    BY <1>1 DEF ChunkLen
  <2>2. x \in WireFields
    <3>1. s.m \in Values /\ "body" \in FieldNames
      BY <1>1, ValueTypes DEF FieldNames, ReadingStates
    <3> QED  BY <2>1, <3>1, FieldType, Zenon
  <2>3. Y = IF s.m.len = 0 THEN << >> ELSE <<x>>
    BY DEF FirstBody
  <2> HIDE DEF x
  <2>4. CASE s.m.len = 0  BY <2>3, <2>4
  <2>5. CASE s.m.len # 0
    <3>1. Y = <<x>>
      BY <2>3, <2>5
    <3> QED  BY <2>2, <2>5, <3>1 DEF x
  <2> QED  BY <2>4, <2>5
<1>5. F = (B \o H) \o Y
  BY DEF FirstChunk
<1>6. ChunkFields(s, ext) = b + h + y /\ Heads(s, ext) = b + h
  BY <1>1, <1>2 DEF ChunkFields, Heads
<1> HIDE DEF B, H, Y, F, b, h, y
<1>7. /\ B \o H \in Seq(WireFields) /\ Len(B \o H) = b + h
      /\ \A k \in 1..(b + h) : (B \o H)[k] = IF k <= b THEN B[k] ELSE H[k - b]
  BY <1>2, <1>3, ConcatProperties
<1>8. y \in 0..1
  BY DEF y
<1>9. /\ F \in Seq(WireFields) /\ Len(F) = b + h + y
      /\ \A k \in 1..(b + h + y) : F[k] = IF k <= b + h THEN (B \o H)[k] ELSE Y[k - (b + h)]
  <2> PICK C : C = B \o H
    OBVIOUS
  <2>1. C \in Seq(WireFields) /\ Len(C) = b + h /\ Y \in Seq(WireFields) /\ Len(Y) = y /\ F = C \o Y
    BY <1>4, <1>5, <1>7
  <2>2. /\ C \o Y \in Seq(WireFields) /\ Len(C \o Y) = Len(C) + Len(Y)
        /\ \A k \in 1..(Len(C) + Len(Y)) : (C \o Y)[k] = IF k <= Len(C) THEN C[k] ELSE Y[k - Len(C)]
    BY ZenonT(30), <2>1, ConcatProperties
  <2> QED  BY <2>1, <2>2
<1>10. /\ \A k \in 1..b : F[k] = B[k]
       /\ \A k \in 1..h : F[b + k] = H[k]
       /\ y = 1 => F[b + h + 1] = Y[1]
  <2>1. \A k \in 1..b : F[k] = B[k]
    BY <1>2, <1>3, <1>7, <1>8, <1>9
  <2>2. ASSUME NEW k \in 1..h PROVE F[b + k] = H[k]
    <3>1. b + k \in 1..(b + h) /\ b + k \in 1..(b + h + y) /\ ~(b + k <= b) /\ (b + k) - b = k
      BY <1>2, <1>3, <1>8
    <3> QED  BY <1>7, <1>9, <3>1
  <2>3. y = 1 => F[b + h + 1] = Y[1]
    BY <1>2, <1>3, <1>8, <1>9
  <2> QED  BY <2>1, <2>2, <2>3
<1>11. s.m.len > 0 => F[Heads(s, ext) + 1] = Field("body", ChunkLen(s.m.len, cs, 1), s.m)
  BY <1>4, <1>6, <1>10 DEF y
<1>12. /\ s.fmt <= 2 => F[b + 1] = Field("timestamp", 3, ext)
       /\ s.fmt <= 1 => F[b + 2] = Field("length", 4, s.m)
       /\ s.fmt = 0 => F[b + 3] = Field("msid", 4, 0)
  BY <1>1, <1>3, <1>10 DEF h
<1>13. ext => F[b + (3 - s.fmt) + 1] = Field("extended", 4, 0)
  <2> SUFFICES ASSUME ext PROVE F[b + (3 - s.fmt) + 1] = Field("extended", 4, 0)
    OBVIOUS
  <2>1. (3 - s.fmt) + 1 \in 1..h /\ b + (3 - s.fmt) + 1 = b + ((3 - s.fmt) + 1)
    <3>1. h = (3 - s.fmt) + 1
      BY DEF h
    <3>2. s.fmt \in 0..3 /\ b \in Int
      BY <1>1, <1>2
    <3> HIDE DEF h
    <3> QED  BY <3>1, <3>2
  <2> QED  BY <1>3, <1>10, <2>1
<1>14. LaidOut(F, s, ext, cs)
  BY <1>2, <1>10, <1>11, <1>12, <1>13 DEF LaidOut, b
<1> QED  BY <1>6, <1>9, <1>14 DEF F

\* A message has a chunk at least, and one only when it fits.
LEMMA ChunkCounts ==
  ASSUME NEW n \in Nat, NEW cs \in Nat \ {0}
  PROVE  ChunkCount(n, cs) \in Nat \ {0} /\ (n <= cs => ChunkCount(n, cs) = 1)
<1>1. CASE n = 0
  BY <1>1 DEF ChunkCount
<1>2. CASE n > 0
  <2> DEFINE q == (n + cs - 1) \div cs
             r == (n + cs - 1) % cs
  <2>1. /\ q \in Int /\ r \in 0..(cs - 1)
        /\ n + cs - 1 = cs * q + r
    BY <1>2
  <2> HIDE DEF q, r
  <2>2. q >= 1
    <3> SUFFICES ASSUME q <= 0 PROVE FALSE
      BY <2>1
    <3>1. cs * q <= 0
      BY <2>1
    <3> QED  BY <1>2, <2>1, <3>1
  <2>3. n <= cs => q = 1
    <3> SUFFICES ASSUME n <= cs, q >= 2 PROVE FALSE
      BY <2>1, <2>2
    <3>1. cs * q >= cs * 2
      BY <2>1
    <3> QED  BY <1>2, <2>1, <3>1
  <2>4. ChunkCount(n, cs) = q
    BY <1>2 DEF ChunkCount, q
  <2> QED  BY <2>1, <2>2, <2>3, <2>4
<1> QED  BY <1>1, <1>2

(***************************************************************************)
(* What a peer writes for a message: it begins with the first chunk, and   *)
(* is that chunk when it holds the whole message.                          *)
(***************************************************************************)
LEMMA FieldsLayout ==
  ASSUME NEW s \in Sents, NEW ext \in BOOLEAN, NEW cs \in Nat \ {0}
  PROVE  LET W == Fields(s.m, s.fmt, s.csid, ext, cs)
         IN  /\ W \in Seq(WireFields)
             /\ Starts(W, FirstChunk(s, ext, cs))
             /\ s.m.len <= cs => W = FirstChunk(s, ext, cs)
<1> DEFINE n == ChunkCount(s.m.len, cs)
           Body(i) == IF s.m.len = 0 THEN << >> ELSE <<Field("body", ChunkLen(s.m.len, cs, i), s.m)>>
           Fmt(i) == IF i = 1 THEN s.fmt ELSE 3
           Chunk(i) == BasicHeader(Fmt(i), s.csid) \o MessageHeader(Fmt(i), s.m, ext) \o Body(i)
           ss == [i \in 1..n |-> Chunk(i)]
<1>1. /\ s.m \in Msgs /\ s.fmt \in 0..3 /\ s.csid \in Nat \ {0, 1} /\ s.m.len \in Nat
  BY SentTypes
<1>2. n \in Nat \ {0} /\ (s.m.len <= cs => n = 1)
  BY <1>1, ChunkCounts
<1>3. Fields(s.m, s.fmt, s.csid, ext, cs) = FlattenSeq(ss)
  BY Zenon DEF Fields
<1> HIDE DEF n
<1>4. ASSUME NEW i \in 1..n PROVE Chunk(i) \in Seq(WireFields)
  <2> DEFINE B == BasicHeader(Fmt(i), s.csid)
             H == MessageHeader(Fmt(i), s.m, ext)
             Y == Body(i)
             x == Field("body", ChunkLen(s.m.len, cs, i), s.m)
  <2>1. Fmt(i) \in 0..3
    BY <1>1
  <2> HIDE DEF Fmt
  <2>2. B \in Seq(WireFields)
    BY <1>1, <2>1, BasicLayout DEF BasicLaidOut
  <2>3. H \in Seq(WireFields)
    BY <1>1, <2>1, HeaderLayout DEF HeaderLaidOut
  <2>4. Y \in Seq(WireFields)
    <3>1. ChunkLen(s.m.len, cs, i) \in Int
      BY <1>1, <1>2 DEF ChunkLen
    <3>2. s.m \in Values /\ "body" \in FieldNames
      BY <1>1, ValueTypes DEF FieldNames, ReadingStates
    <3>3. x \in WireFields
      BY <3>1, <3>2, FieldType, Zenon
    <3>4. Y = IF s.m.len = 0 THEN << >> ELSE <<x>>
      OBVIOUS
    <3> HIDE DEF x, Y
    <3> QED  BY <3>3, <3>4
  <2>5. Chunk(i) = (B \o H) \o Y
    OBVIOUS
  <2> HIDE DEF B, H, Y, Chunk
  <2>6. B \o H \in Seq(WireFields)
    BY <2>2, <2>3, ConcatProperties
  <2> QED  BY <2>4, <2>5, <2>6, ConcatProperties
<1>5. Chunk(1) = FirstChunk(s, ext, cs)
  BY DEF FirstChunk, FirstBody
<1> HIDE DEF Chunk
<1>6. ss \in [1..n -> Seq(WireFields)] /\ ss[1] = FirstChunk(s, ext, cs)
  BY <1>2, <1>4, <1>5
<1> HIDE DEF ss
<1>7. /\ FlattenSeq(ss) \in Seq(WireFields)
      /\ Starts(FlattenSeq(ss), ss[1])
      /\ n = 1 => FlattenSeq(ss) = ss[1]
  BY <1>2, <1>6, FlattenStarts, Zenon
<1> QED  BY <1>2, <1>3, <1>6, <1>7

-----------------------------------------------------------------------------
(* What is left of it on the wire *)

\* What is left of the wire w, when c is the first of the messages ss not yet
\* served: at[j] is how many fields stand before message j (less than none
\* when some of it are read), ext[j] whether its timestamp is extended, and
\* cs[j] the size its peer cut it to.
LaidIn(w, lk, ss, c, at, ext, cs) ==
  /\ \A j \in c..Len(ss) :
       /\ \A i \in 1..ChunkFields(ss[j], ext[j]) :
            at[j] + i \in 1..Len(w) => w[at[j] + i] = FirstChunk(ss[j], ext[j], cs[j])[i]
       /\ at[j] + ChunkFields(ss[j], ext[j]) <= at[Len(ss) + 1]
       /\ ss[j].whole => at[j + 1] = at[j] + ChunkFields(ss[j], ext[j])
  /\ Len(w) <= at[Len(ss) + 1]
  /\ lk = "up" => Len(w) = at[Len(ss) + 1]

\* The sizes follow from what the peer has sent; last is the one it has now.
SizesIn(ss, last, cs) ==
  /\ cs[Len(ss) + 1] = last
  /\ \A j \in 1..Len(ss) :
       /\ ss[j].whole <=> ss[j].m.len <= cs[j]
       /\ cs[j + 1] = IF ss[j].m.typo = "SetChunkSize" THEN ss[j].m.arg ELSE cs[j]
  /\ \A j \in 1..(Len(ss) + 1) :
       \/ cs[j] = DefaultReadChunkSize
       \/ \E i \in 1..Len(ss) : ss[i].m.typo = "SetChunkSize" /\ cs[j] = ss[i].m.arg

\* The three functions, over n messages.
Maps(n, at, ext, cs) ==
  at \in [1..n -> Int] /\ ext \in [1..n -> BOOLEAN] /\ cs \in [1..n -> Nat \ {0}]

\* How many fields there are.
LEMMA ChunkFieldsType ==
  ASSUME NEW s \in Sents, NEW e \in BOOLEAN
  PROVE  /\ Basics(s) \in 1..2
         /\ Heads(s, e) \in Basics(s)..6
         /\ Heads(s, e) = Basics(s) + (3 - s.fmt) + (IF e THEN 1 ELSE 0)
         /\ ChunkFields(s, e) = Heads(s, e) + (IF s.m.len = 0 THEN 0 ELSE 1)
         /\ ChunkFields(s, e) \in Nat \ {0}
<1>1. s.fmt \in 0..3 /\ s.csid \in Nat /\ s.m.len \in Nat
  BY SentTypes
<1>2. Basics(s) \in 1..2
  BY <1>1 DEF Basics
<1>3. Heads(s, e) = Basics(s) + (3 - s.fmt) + (IF e THEN 1 ELSE 0)
  BY DEF Heads
<1>4. ChunkFields(s, e) = Heads(s, e) + (IF s.m.len = 0 THEN 0 ELSE 1)
  BY DEF ChunkFields
<1>5. Heads(s, e) \in Basics(s)..6
  BY <1>1, <1>2, <1>3
<1> QED  BY <1>2, <1>3, <1>4, <1>5

(***************************************************************************)
(* The next field on the wire, d fields into the chunk of message c.       *)
(***************************************************************************)
LEMMA NextField ==
  ASSUME NEW w \in Seq(WireFields), w # << >>, NEW lk, NEW ss \in Seq(Sents), NEW c \in 1..Len(ss),
         NEW at, NEW ext, NEW cs, Maps(Len(ss) + 1, at, ext, cs),
         LaidIn(w, lk, ss, c, at, ext, cs),
         NEW d \in 0..(ChunkFields(ss[c], ext[c]) - 1), at[c] = -d
  PROVE  w[1] = FirstChunk(ss[c], ext[c], cs[c])[d + 1]
<1>1. ss[c] \in Sents /\ ext[c] \in BOOLEAN /\ Len(w) \in Nat /\ Len(w) >= 1 /\ c \in c..Len(ss)
  <2>1. c \in 1..(Len(ss) + 1) /\ c \in c..Len(ss)
    OBVIOUS
  <2>2. ext[c] \in BOOLEAN
    BY <2>1 DEF Maps
  <2>3. Len(w) \in Nat /\ Len(w) >= 1
    BY EmptySeq
  <2> QED  BY <2>1, <2>2, <2>3
<1>2. ChunkFields(ss[c], ext[c]) \in Nat
  BY <1>1, ChunkFieldsType
<1>3. \A i \in 1..ChunkFields(ss[c], ext[c]) :
        at[c] + i \in 1..Len(w) => w[at[c] + i] = FirstChunk(ss[c], ext[c], cs[c])[i]
  BY <1>1 DEF LaidIn
<1>4. d + 1 \in 1..ChunkFields(ss[c], ext[c]) /\ at[c] + (d + 1) = 1 /\ 1 \in 1..Len(w)
  BY <1>1, <1>2
<1> QED  BY <1>3, <1>4

\* One field read: every message stands one field nearer.
Shifted(at, n) == [j \in 1..n |-> at[j] - 1]

LEMMA ShiftLaid ==
  ASSUME NEW w \in Seq(WireFields), w # << >>, NEW lk, NEW ss \in Seq(Sents),
         NEW c \in Nat \ {0},
         NEW at, NEW ext, NEW cs, Maps(Len(ss) + 1, at, ext, cs),
         LaidIn(w, lk, ss, c, at, ext, cs)
  PROVE  /\ Maps(Len(ss) + 1, Shifted(at, Len(ss) + 1), ext, cs)
         /\ LaidIn(Tail(w), lk, ss, c, Shifted(at, Len(ss) + 1), ext, cs)
         /\ \A j \in 1..(Len(ss) + 1) : Shifted(at, Len(ss) + 1)[j] = at[j] - 1
<1> DEFINE n == Len(ss)
           at2 == Shifted(at, n + 1)
           t == Tail(w)
           CF(j) == ChunkFields(ss[j], ext[j])
           FC(j) == FirstChunk(ss[j], ext[j], cs[j])
<1>1. /\ n \in Nat /\ t \in Seq(WireFields) /\ Len(w) \in Nat \ {0} /\ Len(t) = Len(w) - 1
      /\ \A i \in 1..Len(t) : t[i] = w[i + 1]
  BY HeadTailProperties, EmptySeq
<1>2. at2 \in [1..(n + 1) -> Int] /\ \A j \in 1..(n + 1) : at[j] \in Int /\ at2[j] = at[j] - 1
  <2>1. n + 1 \in Nat /\ at \in [1..(n + 1) -> Int]
    BY <1>1 DEF Maps
  <2>2. at2 = [j \in 1..(n + 1) |-> at[j] - 1]
    BY DEF Shifted
  <2> HIDE DEF n, at2
  <2>3. \A j \in 1..(n + 1) : at[j] \in Int /\ at[j] - 1 \in Int
    BY <2>1
  <2>4. at2 \in [1..(n + 1) -> Int]
    BY <2>2, <2>3
  <2>5. \A j \in 1..(n + 1) : at2[j] = at[j] - 1
    BY <2>2
  <2> QED  BY <2>3, <2>4, <2>5
<1>3. \A j \in 1..n : CF(j) \in Nat
  <2>1. ASSUME NEW j \in 1..n PROVE ss[j] \in Sents /\ ext[j] \in BOOLEAN
    <3>1. j \in 1..Len(ss) /\ j \in 1..(Len(ss) + 1)
      BY <1>1
    <3>2. ss[j] \in Sents
      BY <3>1
    <3>3. ext[j] \in BOOLEAN
      BY <3>1 DEF Maps
    <3> QED  BY <3>2, <3>3
  <2>2. ASSUME NEW j \in 1..n PROVE CF(j) \in Nat
    BY <2>1, <2>2, ChunkFieldsType
  <2> QED  BY <2>2
<1>4. /\ \A j \in c..n : /\ \A i \in 1..CF(j) : at[j] + i \in 1..Len(w) => w[at[j] + i] = FC(j)[i]
                         /\ at[j] + CF(j) <= at[n + 1]
                         /\ ss[j].whole => at[j + 1] = at[j] + CF(j)
      /\ Len(w) <= at[n + 1]
      /\ lk = "up" => Len(w) = at[n + 1]
  BY DEF LaidIn
<1> HIDE DEF n, at2, t, CF, FC
<1>5. ASSUME NEW j \in c..n
      PROVE  /\ \A i \in 1..CF(j) : at2[j] + i \in 1..Len(t) => t[at2[j] + i] = FC(j)[i]
             /\ at2[j] + CF(j) <= at2[n + 1]
             /\ ss[j].whole => at2[j + 1] = at2[j] + CF(j)
  <2>1. j \in c..n /\ j \in 1..(n + 1) /\ j + 1 \in 1..(n + 1) /\ n + 1 \in 1..(n + 1) /\ j \in 1..n
    BY <1>1
  <2>2. at[j] \in Int /\ at2[j] = at[j] - 1 /\ at2[j + 1] = at[j + 1] - 1 /\ at2[n + 1] = at[n + 1] - 1
        /\ at[j + 1] \in Int /\ at[n + 1] \in Int /\ CF(j) \in Nat
    BY <1>2, <1>3, <2>1
  <2>3. ASSUME NEW i \in 1..CF(j), at2[j] + i \in 1..Len(t) PROVE t[at2[j] + i] = FC(j)[i]
    <3>1. at[j] + i \in 1..Len(w) /\ (at2[j] + i) + 1 = at[j] + i
      <4> DEFINE a == at[j]
                 l == Len(t)
                 k == CF(j)
      <4>1. a \in Int /\ at2[j] = a - 1 /\ l \in Nat /\ Len(w) = l + 1 /\ k \in Nat
        BY <1>1, <2>2
      <4>2. i \in 1..k /\ (a - 1) + i \in 1..l
        BY <2>3, <4>1
      <4> HIDE DEF a, l, k
      <4>3. a + i \in 1..(l + 1) /\ ((a - 1) + i) + 1 = a + i
        BY <4>1, <4>2
      <4> QED  BY <4>1, <4>3 DEF a
    <3>2. w[at[j] + i] = FC(j)[i]
      BY <1>4, <2>1, <3>1
    <3> QED  BY <1>1, <2>3, <3>1, <3>2
  <2>4. at2[j] + CF(j) <= at2[n + 1]
    <3>1. at[j] + CF(j) <= at[n + 1]
      BY <1>4, <2>1
    <3>2. PICK x \in Int : x = at[j]
      BY <2>2
    <3>3. PICK y \in Int : y = at[n + 1]
      BY <2>2
    <3>4. PICK k \in Nat : k = CF(j)
      BY <2>2
    <3>5. x + k <= y
      BY <3>1, <3>2, <3>3, <3>4, Zenon
    <3>6. (x - 1) + k <= y - 1
      BY <3>5
    <3> QED  BY <2>2, <3>2, <3>3, <3>4, <3>6, Zenon
  <2>5. ss[j].whole => at2[j + 1] = at2[j] + CF(j)
    <3>1. ss[j].whole => at[j + 1] = at[j] + CF(j)
      BY <1>4, <2>1
    <3>2. at[j + 1] = at[j] + CF(j) => at2[j + 1] = at2[j] + CF(j)
      BY <2>2
    <3> QED  BY <3>1, <3>2
  <2> QED  BY <2>3, <2>4, <2>5
<1>6. Len(t) <= at2[n + 1] /\ (lk = "up" => Len(t) = at2[n + 1])
  <2>1. n + 1 \in 1..(n + 1)
    BY <1>1
  <2> QED  BY <1>1, <1>2, <1>4, <2>1
<1>7. LaidIn(t, lk, ss, c, at2, ext, cs)
  BY <1>5, <1>6 DEF LaidIn, CF, FC, n
<1>8. Maps(n + 1, at2, ext, cs)
  BY <1>2 DEF Maps, n
<1> QED  BY <1>2, <1>7, <1>8 DEF n, t, at2

\* One message served, or any suffix of the wire lost: the rest stays.
LEMMA PassLaid ==
  ASSUME NEW w, NEW lk, NEW ss \in Seq(Sents), NEW c \in Nat \ {0}, NEW at, NEW ext, NEW cs,
         LaidIn(w, lk, ss, c, at, ext, cs)
  PROVE  LaidIn(w, lk, ss, c + 1, at, ext, cs)
<1>1. \A j \in (c + 1)..Len(ss) : j \in c..Len(ss)
  OBVIOUS
<1> QED  BY <1>1 DEF LaidIn

LEMMA CutLaid ==
  ASSUME NEW w \in Seq(WireFields), NEW k \in 0..Len(w), NEW lk, NEW ss \in Seq(Sents),
         NEW c \in Nat \ {0}, NEW at, NEW ext, NEW cs, Maps(Len(ss) + 1, at, ext, cs),
         LaidIn(w, lk, ss, c, at, ext, cs)
  PROVE  /\ SubSeq(w, 1, k) \in Seq(WireFields) /\ Len(SubSeq(w, 1, k)) = k
         /\ \A i \in 1..k : SubSeq(w, 1, k)[i] = w[i]
         /\ LaidIn(SubSeq(w, 1, k), "cut", ss, c, at, ext, cs)
<1> DEFINE t == SubSeq(w, 1, k)
           n == Len(ss)
           CF(j) == ChunkFields(ss[j], ext[j])
           FC(j) == FirstChunk(ss[j], ext[j], cs[j])
<1>1. n \in Nat /\ t \in Seq(WireFields) /\ Len(t) = k /\ \A i \in 1..k : t[i] = w[i]
  BY SubSeqProperties
<1>2. /\ \A j \in c..n : /\ \A i \in 1..CF(j) : at[j] + i \in 1..Len(w) => w[at[j] + i] = FC(j)[i]
                         /\ at[j] + CF(j) <= at[n + 1]
                         /\ ss[j].whole => at[j + 1] = at[j] + CF(j)
      /\ Len(w) <= at[n + 1]
  BY DEF LaidIn
<1>3. Len(w) \in Nat /\ at[n + 1] \in Int
  <2>1. n + 1 \in 1..(n + 1)
    BY <1>1
  <2> QED  BY <2>1 DEF Maps
<1> HIDE DEF t, CF, FC
<1>4. ASSUME NEW j \in c..n, NEW i \in 1..CF(j), at[j] + i \in 1..Len(t)
      PROVE  t[at[j] + i] = FC(j)[i]
  <2>1. at[j] + i \in 1..k /\ at[j] + i \in 1..Len(w)
    BY <1>1, <1>3, <1>4
  <2> QED  BY <1>1, <1>2, <2>1
<1>5. Len(t) <= at[n + 1]
  BY <1>1, <1>2, <1>3
<1>6. LaidIn(t, "cut", ss, c, at, ext, cs)
  BY <1>2, <1>4, <1>5 DEF LaidIn, CF, FC
<1> QED  BY <1>1, <1>6 DEF t

(***************************************************************************)
(* One more message, cut to the size size, at the end of the wire.         *)
(***************************************************************************)
Extended(f, n, v) == [j \in 1..(n + 1) |-> IF j = n + 1 THEN v ELSE f[j]]

LEMMA AppendLaid ==
  ASSUME NEW w \in Seq(WireFields), NEW ss \in Seq(Sents), NEW s \in Sents, NEW x \in Seq(WireFields),
         NEW c \in 1..(Len(ss) + 1), NEW at, NEW ext, NEW cs, NEW e \in BOOLEAN,
         Maps(Len(ss) + 1, at, ext, cs),
         LaidIn(w, "up", ss, c, at, ext, cs),
         NEW at2, NEW ext2, NEW cs2, Maps(Len(ss) + 2, at2, ext2, cs2),
         \A j \in 1..(Len(ss) + 1) : at2[j] = at[j] /\ cs2[j] = cs[j],
         \A j \in 1..Len(ss) : ext2[j] = ext[j],
         ext2[Len(ss) + 1] = e,
         at2[Len(ss) + 2] = at[Len(ss) + 1] + Len(x),
         Starts(x, FirstChunk(s, e, cs[Len(ss) + 1])),
         s.whole => x = FirstChunk(s, e, cs[Len(ss) + 1])
  PROVE  LaidIn(w \o x, "up", Append(ss, s), c, at2, ext2, cs2)
<1> DEFINE n == Len(ss)
           t == w \o x
           tt == Append(ss, s)
           CF(j) == ChunkFields(tt[j], ext2[j])
           FC(j) == FirstChunk(tt[j], ext2[j], cs2[j])
<1>1. /\ n \in Nat /\ Len(tt) = n + 1 /\ tt[n + 1] = s /\ \A j \in 1..n : tt[j] = ss[j]
      /\ \A j \in 1..(n + 1) : tt[j] \in Sents
  OBVIOUS
<1>2. /\ Len(w) \in Nat /\ Len(x) \in Nat /\ t \in Seq(WireFields) /\ Len(t) = Len(w) + Len(x)
      /\ \A i \in 1..(Len(w) + Len(x)) : t[i] = IF i <= Len(w) THEN w[i] ELSE x[i - Len(w)]
  BY ConcatProperties
<1>3. at2 \in [1..(n + 2) -> Int] /\ ext2 \in [1..(n + 2) -> BOOLEAN] /\ cs2 \in [1..(n + 2) -> Nat \ {0}]
  BY DEF Maps
<1>4. at2[n + 1] = Len(w) /\ at2[n + 2] = Len(w) + Len(x) /\ cs2[n + 1] = cs[n + 1]
  BY <1>1, <1>2 DEF LaidIn
<1>5. ASSUME NEW j \in c..n
      PROVE  /\ CF(j) = ChunkFields(ss[j], ext[j]) /\ FC(j) = FirstChunk(ss[j], ext[j], cs[j])
             /\ CF(j) \in Nat /\ at2[j] \in Int /\ at2[j] = at[j] /\ at2[j + 1] = at[j + 1]
             /\ tt[j] = ss[j] /\ at2[n + 1] = at[n + 1]
  <2>1. /\ j \in 1..n /\ j \in 1..(n + 1) /\ j + 1 \in 1..(n + 1) /\ n + 1 \in 1..(n + 1)
        /\ j \in 1..(n + 2)
    BY <1>1
  <2>2. tt[j] = ss[j] /\ ext2[j] = ext[j] /\ cs2[j] = cs[j]
    BY <1>1, <2>1
  <2>3. tt[j] \in Sents /\ ext2[j] \in BOOLEAN /\ at2[j] \in Int
    BY <1>1, <1>3, <2>1
  <2>4. CF(j) \in Nat
    BY <2>3, ChunkFieldsType
  <2> QED  BY <2>1, <2>2, <2>3, <2>4
<1>6. ASSUME NEW j \in c..n
      PROVE  /\ \A i \in 1..CF(j) : at2[j] + i \in 1..Len(t) => t[at2[j] + i] = FC(j)[i]
             /\ at2[j] + CF(j) <= at2[n + 2]
             /\ tt[j].whole => at2[j + 1] = at2[j] + CF(j)
  <2>1. /\ \A i \in 1..CF(j) : at2[j] + i \in 1..Len(w) => w[at2[j] + i] = FC(j)[i]
        /\ at2[j] + CF(j) <= at2[n + 1]
        /\ tt[j].whole => at2[j + 1] = at2[j] + CF(j)
    <3> DEFINE cf == ChunkFields(ss[j], ext[j])
               fc == FirstChunk(ss[j], ext[j], cs[j])
    <3>1. /\ \A i \in 1..cf : at[j] + i \in 1..Len(w) => w[at[j] + i] = fc[i]
          /\ at[j] + cf <= at[n + 1]
          /\ ss[j].whole => at[j + 1] = at[j] + cf
      BY DEF LaidIn
    <3>2. CF(j) = cf /\ FC(j) = fc /\ at2[j] = at[j] /\ at2[j + 1] = at[j + 1]
          /\ tt[j] = ss[j] /\ at2[n + 1] = at[n + 1]
      BY <1>5
    <3> HIDE DEF cf, fc, CF, FC, tt, n
    <3> QED  BY <3>1, <3>2
  <2>2. at2[j] \in Int /\ CF(j) \in Nat
    BY <1>5
  <2> HIDE DEF CF, FC, t, tt
  <2>3. ASSUME NEW i \in 1..CF(j), at2[j] + i \in 1..Len(t) PROVE t[at2[j] + i] = FC(j)[i]
    <3>1. at2[j] + i \in 1..Len(w) /\ at2[j] + i <= Len(w) /\ at2[j] + i \in 1..(Len(w) + Len(x))
      BY SMTT(30), <1>2, <1>4, <2>1, <2>2, <2>3
    <3> QED  BY <1>2, <2>1, <3>1
  <2>4. at2[j] + CF(j) <= at2[n + 2]
    BY <1>2, <1>4, <2>1, <2>2
  <2> QED  BY <2>1, <2>3, <2>4
<1>7. /\ \A i \in 1..CF(n + 1) : at2[n + 1] + i \in 1..Len(t) => t[at2[n + 1] + i] = FC(n + 1)[i]
      /\ at2[n + 1] + CF(n + 1) <= at2[n + 2]
      /\ tt[n + 1].whole => at2[n + 2] = at2[n + 1] + CF(n + 1)
  <2> DEFINE F == FirstChunk(s, e, cs[n + 1])
             f == ChunkFields(s, e)
  <2>1. CF(n + 1) = f /\ FC(n + 1) = F
    BY <1>1, <1>4
  <2>2. cs[n + 1] \in Nat \ {0}
    <3>1. n + 1 \in 1..(n + 1)
      BY <1>1
    <3> QED  BY <3>1 DEF Maps
  <2>3. F \in Seq(WireFields) /\ Len(F) = f
    BY <2>2, ChunkLayout
  <2>4. f \in Nat
    BY ChunkFieldsType
  <2> HIDE DEF F, f
  <2>5. Len(x) >= f /\ \A i \in 1..f : x[i] = F[i]
    BY <2>3 DEF Starts, F
  <2> HIDE DEF CF, FC, t, tt
  <2>6. ASSUME NEW i \in 1..f, Len(w) + i \in 1..Len(t) PROVE t[Len(w) + i] = F[i]
    <3>1. Len(w) + i \in 1..(Len(w) + Len(x)) /\ ~(Len(w) + i <= Len(w)) /\ (Len(w) + i) - Len(w) = i
      BY <1>2, <2>4, <2>6
    <3> QED  BY <1>2, <2>5, <3>1
  <2>7. Len(w) + f <= Len(w) + Len(x)
    BY <1>2, <2>4, <2>5
  <2>8. tt[n + 1].whole => Len(x) = f
    BY <1>1, <2>3 DEF F
  <2> QED  BY <1>4, <2>1, <2>6, <2>7, <2>8
<1>8. Len(t) <= at2[n + 2] /\ Len(t) = at2[n + 2]
  BY <1>2, <1>4
<1> HIDE DEF CF, FC, t, tt
<1>9. ASSUME NEW j \in c..(n + 1)
      PROVE  /\ \A i \in 1..CF(j) : at2[j] + i \in 1..Len(t) => t[at2[j] + i] = FC(j)[i]
             /\ at2[j] + CF(j) <= at2[n + 2]
             /\ tt[j].whole => at2[j + 1] = at2[j] + CF(j)
  <2>1. CASE j = n + 1
    <3>1. j + 1 = n + 2
      BY <1>1, <2>1
    <3> QED  BY <1>7, <2>1, <3>1
  <2>2. CASE j # n + 1
    <3>1. j \in c..n
      BY <1>1, <2>2
    <3> QED  BY <1>6, <3>1
  <2> QED  BY <2>1, <2>2
<1>10. (n + 1) + 1 = n + 2
  BY <1>1
<1> HIDE DEF n
<1>11. LaidIn(t, "up", tt, c, at2, ext2, cs2)
  BY <1>1, <1>8, <1>9, <1>10 DEF LaidIn, CF, FC
<1> QED  BY <1>11 DEF t, tt

LEMMA AppendSizes ==
  ASSUME NEW ss \in Seq(Sents), NEW s \in Sents, NEW last, NEW next, NEW cs, NEW cs2,
         SizesIn(ss, last, cs),
         \A j \in 1..(Len(ss) + 1) : cs2[j] = cs[j],
         cs2[Len(ss) + 2] = next,
         s.whole <=> s.m.len <= last,
         next = IF s.m.typo = "SetChunkSize" THEN s.m.arg ELSE last
  PROVE  SizesIn(Append(ss, s), next, cs2)
<1> DEFINE n == Len(ss)
           tt == Append(ss, s)
<1>1. /\ n \in Nat /\ Len(tt) = n + 1 /\ tt[n + 1] = s /\ \A j \in 1..n : tt[j] = ss[j]
      /\ (n + 1) + 1 = n + 2
  OBVIOUS
<1>2. /\ cs[n + 1] = last
      /\ \A j \in 1..n : /\ ss[j].whole <=> ss[j].m.len <= cs[j]
                         /\ cs[j + 1] = IF ss[j].m.typo = "SetChunkSize" THEN ss[j].m.arg ELSE cs[j]
      /\ \A j \in 1..(n + 1) :
            \/ cs[j] = DefaultReadChunkSize
            \/ \E i \in 1..n : ss[i].m.typo = "SetChunkSize" /\ cs[j] = ss[i].m.arg
  BY DEF SizesIn
<1>3. cs2[n + 2] = next /\ \A j \in 1..(n + 1) : cs2[j] = cs[j]
  OBVIOUS
<1> HIDE DEF n, tt
<1>4. ASSUME NEW j \in 1..(n + 1)
      PROVE  /\ tt[j].whole <=> tt[j].m.len <= cs2[j]
             /\ cs2[j + 1] = IF tt[j].m.typo = "SetChunkSize" THEN tt[j].m.arg ELSE cs2[j]
  <2>1. CASE j = n + 1
    <3>1. tt[j] = s /\ cs2[j] = last /\ cs2[j + 1] = next
      BY <1>1, <1>2, <1>3, <2>1
    <3> QED  BY <3>1
  <2>2. CASE j # n + 1
    <3>1. j \in 1..n /\ j + 1 \in 1..(n + 1)
      BY <1>1, <2>2
    <3>2. tt[j] = ss[j] /\ cs2[j] = cs[j] /\ cs2[j + 1] = cs[j + 1]
      BY <1>1, <1>3, <3>1
    <3> QED  BY <1>2, <3>1, <3>2
  <2> QED  BY <2>1, <2>2
<1>5. ASSUME NEW j \in 1..(n + 1)
      PROVE  \/ cs2[j] = DefaultReadChunkSize
             \/ \E i \in 1..(n + 1) : tt[i].m.typo = "SetChunkSize" /\ cs2[j] = tt[i].m.arg
  <2>1. cs2[j] = cs[j]
    BY <1>3
  <2>2. CASE \E i \in 1..n : ss[i].m.typo = "SetChunkSize" /\ cs[j] = ss[i].m.arg
    <3>1. PICK i \in 1..n : ss[i].m.typo = "SetChunkSize" /\ cs[j] = ss[i].m.arg
      BY <2>2
    <3>2. i \in 1..(n + 1) /\ tt[i] = ss[i]
      BY <1>1
    <3> QED  BY <2>1, <3>1, <3>2
  <2> QED  BY <1>2, <2>1, <2>2
<1>6. ASSUME NEW j \in 1..(n + 2)
      PROVE  \/ cs2[j] = DefaultReadChunkSize
             \/ \E i \in 1..(n + 1) : tt[i].m.typo = "SetChunkSize" /\ cs2[j] = tt[i].m.arg
  <2>1. CASE j \in 1..(n + 1)
    BY <1>5, <2>1
  <2>2. CASE j \notin 1..(n + 1)
    <3>1. j = n + 2 /\ cs2[j] = next /\ n + 1 \in 1..(n + 1)
      BY <1>1, <1>3, <2>2
    <3>2. CASE s.m.typo = "SetChunkSize"
      BY <1>1, <3>1, <3>2
    <3>3. CASE s.m.typo # "SetChunkSize"
      <4>1. cs2[j] = cs2[n + 1]
        BY <1>2, <1>3, <3>1, <3>3
      <4> QED  BY <1>5, <3>1, <4>1
    <3> QED  BY <3>2, <3>3
  <2> QED  BY <2>1, <2>2
<1>7. cs2[Len(tt) + 1] = next
  BY <1>1, <1>3
<1>8. \A j \in 1..Len(tt) :
        /\ tt[j].whole <=> tt[j].m.len <= cs2[j]
        /\ cs2[j + 1] = IF tt[j].m.typo = "SetChunkSize" THEN tt[j].m.arg ELSE cs2[j]
  BY <1>1, <1>4
<1>9. \A j \in 1..(Len(tt) + 1) :
        \/ cs2[j] = DefaultReadChunkSize
        \/ \E i \in 1..Len(tt) : tt[i].m.typo = "SetChunkSize" /\ cs2[j] = tt[i].m.arg
  BY <1>1, <1>6
<1>10. SizesIn(tt, next, cs2)
  BY <1>7, <1>8, <1>9 DEF SizesIn
<1> QED  BY <1>10 DEF tt

-----------------------------------------------------------------------------
(* The invariant *)

\* The states of pumpMessage within the first chunk of a message, and those
\* of serve() between two messages.
Inside == {"csid", "timestamp", "length", "msid", "extended", "body"}
Serving == {"serveNew", "basic", "message", "user", "command", "reply"}

\* The types of what the proof is about.
HeaderType == [fmt : 0..3, csid : Nat, ext : BOOLEAN, mlen : ReadSizes, typo : Types]

TypesOK ==
  /\ pc \in ReadingStates \cup Closed \cup Serving
  /\ hdr \in HeaderType
  /\ msg \in Msgs \cup {None}
  /\ chunkSize \in Nat \ {0} /\ peer.chunkSize \in Nat \ {0}
  /\ link \in {"up", "cut"} /\ refused \in BOOLEAN
  /\ wire \in Seq(WireFields) /\ sent \in Seq(Sents) /\ seen \in Seq(Msgs \cup {None})

\* The message being read, or the next one to be.
Cur == Len(seen) + 1

\* Where pumpMessage is inside the first chunk of s, with p = at[Cur] and e
\* its ext, and what hdr holds by then.
InChunk(p, s, e) ==
  /\ hdr.fmt = s.fmt
  /\ pc = "csid" => p = -1 /\ s.csid >= 64 /\ hdr.csid = SmallField(s.csid)
  /\ pc # "csid" => hdr.csid = s.csid /\ s.csid <= MaxStreamsNum
  /\ pc = "timestamp" => p = -Basics(s) /\ s.fmt <= 2
  /\ pc = "length" => p = -(Basics(s) + 1) /\ s.fmt <= 1 /\ hdr.ext = e
  /\ pc = "msid" => p = -(Basics(s) + 2) /\ s.fmt = 0 /\ hdr.ext = e
  /\ pc = "extended" => p = -(Basics(s) + (3 - s.fmt)) /\ s.fmt <= 2 /\ e
  /\ pc = "body" => p = -(IF s.fmt = 3 THEN Basics(s) ELSE Heads(s, e))
  /\ IF pc \in {"msid", "extended", "body"} /\ s.fmt <= 1
     THEN hdr.mlen = s.m.len /\ hdr.typo = s.m.typo
     ELSE hdr.mlen = 0 /\ hdr.typo = "Zero"

\* What stands on the wire before the first message.
Handshakes(i) == Field("handshake", HandshakeSizes[i], 0)

\* Where the message Cur stands, in every state of serve().
Place(p, e) ==
  /\ pc = "challenge" => p = 2 /\ \A i \in 1..2 : i <= Len(wire) => wire[i] = Handshakes(i)
  /\ pc = "response" => p = 1 /\ (Len(wire) >= 1 => wire[1] = Handshakes(2))
  /\ pc \in Serving => p = 0
  /\ pc \in Inside => Cur <= Len(sent) /\ InChunk(p, sent[Cur], e)

\* The size the next chunk is read with.
ReadSize == IF pc = "message" /\ msg.typo = "SetChunkSize" THEN msg.arg ELSE chunkSize

(***************************************************************************)
(* This end follows its peer: every message sent and not yet served still  *)
(* has the fields of its first chunk on the wire, less those read of the   *)
(* one being read, and it was cut to the size that this end will have when *)
(* it comes to it.                                                         *)
(***************************************************************************)
FollowingWith(at, ext, cs) ==
  /\ Maps(Len(sent) + 1, at, ext, cs)
  /\ SizesIn(sent, peer.chunkSize, cs)
  /\ LaidIn(wire, link, sent, Cur, at, ext, cs)
  /\ Place(at[Cur], ext[Cur])
  /\ Cooperative => cs[Cur] = ReadSize

Following == \E at, ext, cs : FollowingWith(at, ext, cs)

\* A header of fmt 2 or 3 was not followed: the rest of its chunk comes next.
Lost ==
  /\ \/ pc = "message" /\ msg = None
     \/ pc = "basic" /\ "Zero" \in Claims
  /\ IF wire = << >> THEN ~Up ELSE wire[1].f \in {"extended", "body"}

\* What has been offered, and the message being served.
SeenOK ==
  /\ Len(seen) <= Len(sent)
  /\ pc = "message" => seen # << >> /\ msg = seen[Len(seen)]

\* NotDroppedForNothing, without the states it is about.
Excused == Cooperative /\ Up /\ ~refused => \E i \in 1..Len(sent) : ~Followable(sent[i])

(***************************************************************************)
(* The inductive invariant: a connection follows its peer, or is in the    *)
(* one step after a header it did not follow, or is given up for a reason. *)
(***************************************************************************)
ConnInv ==
  /\ TypesOK /\ SeenOK
  /\ pc \notin Closed => Following \/ Lost
  /\ pc \in Closed => Excused
  /\ FollowsPeer

\* Every state of serve().
States == ReadingStates \cup Closed \cup Serving

\* Following in the next state, from constants that hold what its variables do.
LEMMA FollowingNext ==
  ASSUME NEW at, NEW ext, NEW cs,
         Maps(Len(sent') + 1, at, ext, cs),
         SizesIn(sent', peer'.chunkSize, cs),
         LaidIn(wire', link', sent', Len(seen') + 1, at, ext, cs),
         NEW p, NEW e, p = at[Len(seen') + 1], e = ext[Len(seen') + 1], Place(p, e)',
         Cooperative => cs[Len(seen') + 1] = ReadSize'
  PROVE  Following'
<1>1. Cur' = Len(seen') + 1
  BY DEF Cur
<1>2. Place(at[Cur], ext[Cur])'
  BY <1>1 DEF Place
<1>3. FollowingWith(at, ext, cs)'
  BY <1>1, <1>2 DEF FollowingWith
<1> QED  BY <1>3 DEF Following

(***************************************************************************)
(* What is known of the message being read.                                *)
(***************************************************************************)
LEMMA Context ==
  ASSUME TypesOK, SeenOK, NEW at, NEW ext, NEW cs, FollowingWith(at, ext, cs)
  PROVE  /\ Cur \in 1..(Len(sent) + 1) /\ Len(sent) \in Nat
         /\ at[Cur] \in Int /\ ext[Cur] \in BOOLEAN /\ cs[Cur] \in Nat \ {0}
         /\ at[Cur] = 0 /\ wire # << >> => Cur <= Len(sent)
         /\ Cur <= Len(sent) => sent[Cur] \in Sents /\ Cur \in 1..Len(sent)
<1>1. Len(seen) \in Nat /\ Len(sent) \in Nat /\ Cur \in 1..(Len(sent) + 1) /\ Len(wire) \in Nat
  BY DEF TypesOK, SeenOK, Cur
<1>2. at[Cur] \in Int /\ ext[Cur] \in BOOLEAN /\ cs[Cur] \in Nat \ {0}
  BY <1>1 DEF FollowingWith, Maps
<1>3. Len(wire) <= at[Len(sent) + 1]
  BY DEF FollowingWith, LaidIn
<1>4. ASSUME at[Cur] = 0, wire # << >>, ~(Cur <= Len(sent)) PROVE FALSE
  <2>1. Cur = Len(sent) + 1
    BY <1>1, <1>4
  <2>2. Len(wire) >= 1
    BY <1>4 DEF TypesOK
  <2> QED  BY <1>1, <1>3, <1>4, <2>1, <2>2
<1>5. Cur <= Len(sent) => sent[Cur] \in Sents /\ Cur \in 1..Len(sent)
  BY <1>1 DEF TypesOK
<1> QED  BY <1>1, <1>2, <1>4, <1>5

(***************************************************************************)
(* The field read next, when d fields of the chunk have been read.         *)
(***************************************************************************)
LEMMA Arrives ==
  ASSUME TypesOK, SeenOK, NEW at, NEW ext, NEW cs, FollowingWith(at, ext, cs),
         wire # << >>, Cur <= Len(sent),
         NEW s, s = sent[Cur], NEW e, e = ext[Cur], NEW c, c = cs[Cur],
         NEW d \in 0..(ChunkFields(s, e) - 1), at[Cur] + d = 0
  PROVE  wire[1] = FirstChunk(s, e, c)[d + 1] /\ LaidOut(FirstChunk(s, e, c), s, e, c)
<1>1. /\ Cur \in 1..Len(sent) /\ s \in Sents /\ e \in BOOLEAN /\ c \in Nat \ {0}
  BY Context
<1>2. LaidOut(FirstChunk(s, e, c), s, e, c)
  BY <1>1, ChunkLayout
<1>3. wire[1] = FirstChunk(s, e, c)[d + 1]
  <2>1. at[Cur] = -d
    BY Context
  <2> QED  BY <1>1, <2>1, NextField DEF TypesOK, FollowingWith
<1> QED  BY <1>2, <1>3

\* What a read takes from the wire.
LEMMA ReadFacts ==
  ASSUME NEW s, Read(s)
  PROVE  /\ pc = s /\ Reading
         /\ wire # << >> /\ wire' = Tail(wire)
         /\ wire[1].f = FieldAt(s) /\ wire[1].n = Needed(s)
  BY DEF Read, Reads, Consume

(***************************************************************************)
(* A field read, and the message not yet whole: the rest stays in place.   *)
(***************************************************************************)
LEMMA Advance ==
  ASSUME TypesOK, SeenOK, NEW at, NEW ext, NEW cs, FollowingWith(at, ext, cs),
         wire # << >>, wire' = Tail(wire), UNCHANGED <<seen, sent, link, peer>>,
         ReadSize' = ReadSize,
         NEW p, NEW e, p = at[Cur] - 1, e = ext[Cur], Place(p, e)'
  PROVE  Following'
<1> DEFINE n == Len(sent)
           at2 == Shifted(at, n + 1)
<1>1. /\ n \in Nat /\ Cur \in 1..(n + 1) /\ Cur \in Nat \ {0} /\ Cur = Len(seen) + 1
  BY Context DEF Cur
<1>2. /\ wire \in Seq(WireFields) /\ sent \in Seq(Sents)
      /\ Maps(n + 1, at, ext, cs) /\ LaidIn(wire, link, sent, Cur, at, ext, cs)
  BY DEF TypesOK, FollowingWith
<1>3. /\ Maps(n + 1, at2, ext, cs)
      /\ LaidIn(Tail(wire), link, sent, Cur, at2, ext, cs)
      /\ \A j \in 1..(n + 1) : at2[j] = at[j] - 1
  <2>1. Maps(n + 1, at2, ext, cs)
    BY <1>1, <1>2, ShiftLaid
  <2>2. LaidIn(Tail(wire), link, sent, Cur, at2, ext, cs)
    BY <1>1, <1>2, ShiftLaid
  <2>3. \A j \in 1..(n + 1) : at2[j] = at[j] - 1
    BY DEF Shifted
  <2> QED  BY <2>1, <2>2, <2>3
<1>4. PICK a : a = at2
  OBVIOUS
<1>5. Maps(Len(sent') + 1, a, ext, cs) /\ SizesIn(sent', peer'.chunkSize, cs)
  BY <1>3, <1>4 DEF FollowingWith
<1>6. LaidIn(wire', link', sent', Len(seen') + 1, a, ext, cs)
  BY <1>1, <1>3, <1>4
<1>7. p = a[Len(seen') + 1] /\ e = ext[Len(seen') + 1]
  BY <1>1, <1>3, <1>4
<1>8. Cooperative => cs[Len(seen') + 1] = ReadSize'
  BY <1>1 DEF FollowingWith
<1> QED  BY <1>5, <1>6, <1>7, <1>8, FollowingNext

-----------------------------------------------------------------------------
(* Reading a message *)

\* What a step of serve() in the middle of a chunk comes to.
Continues ==
  /\ pc' \notin Closed => Following' \/ Lost'
  /\ pc' \in Closed => Excused'

(***************************************************************************)
(* The basic header is read: hdr has the format and the chunk stream.      *)
(***************************************************************************)
LEMMA BasicRead ==
  ASSUME TypesOK, SeenOK, NEW at, NEW ext, NEW cs, FollowingWith(at, ext, cs),
         pc \in {"basic", "csid"}, wire # << >>, wire' = Tail(wire),
         UNCHANGED <<seen, sent, link, peer, msg, chunkSize>>,
         NEW s, s = sent[Cur], Cur <= Len(sent), at[Cur] - 1 = -Basics(s),
         hdr'.fmt = s.fmt, hdr'.csid = s.csid, hdr'.mlen = 0, hdr'.typo = "Zero",
         pc' = AfterBasic(hdr')
  PROVE  Continues
<1>1. s \in Sents /\ s.fmt \in 0..3 /\ s.csid \in Nat /\ Cur \in 1..Len(sent)
  BY Context, SentTypes
<1>2. /\ hdr'.fmt = s.fmt /\ hdr'.csid = s.csid /\ hdr'.mlen = 0 /\ hdr'.typo = "Zero"
  OBVIOUS
<1>3. CASE s.csid > MaxStreamsNum
  <2>1. pc' = "ended"
    BY <1>2, <1>3 DEF AfterBasic
  <2>2. ~Followable(sent'[Cur]) /\ Cur \in 1..Len(sent')
    BY <1>1, <1>3, ConnAssumption DEF Followable
  <2> QED  BY <2>1, <2>2 DEF Continues, Excused, Closed
<1>4. CASE s.csid <= MaxStreamsNum
  <2>1. pc' = IF s.fmt <= 2 THEN "timestamp" ELSE "body"
    BY <1>1, <1>2, <1>4, ConnAssumption DEF AfterBasic
  <2> PICK p : p = at[Cur] - 1
    OBVIOUS
  <2> PICK e : e = ext[Cur]
    OBVIOUS
  <2>2. InChunk(p, s, e)'
    BY <1>1, <1>2, <1>4, <2>1 DEF InChunk
  <2>3. Cur' = Cur /\ sent' = sent
    BY DEF Cur
  <2>4. Place(p, e)'
    <3>1. pc' \in Inside /\ pc' \notin Serving /\ pc' # "challenge" /\ pc' # "response"
      BY <2>1 DEF Inside, Serving
    <3>2. InChunk(p, sent[Cur], e)' /\ Cur' <= Len(sent')
      BY <2>2, <2>3 DEF InChunk
    <3> QED  BY <3>1, <3>2 DEF Place
  <2>5. ReadSize' = ReadSize
    BY <2>1 DEF ReadSize
  <2>6. Following'
    BY <2>4, <2>5, Advance
  <2> QED  BY <2>1, <2>6 DEF Continues, Closed
<1> QED  BY <1>1, <1>3, <1>4, ConnAssumption

\* Having lost its place, this end takes what comes for no field at all.
LEMMA NotLost ==
  ASSUME Lost, NEW s \in ReadingStates, Read(s)
  PROVE  FALSE
<1>1. pc = s /\ wire # << >> /\ wire[1].f = FieldAt(s)
  BY ReadFacts
<1>2. s = "basic" /\ wire[1].f \in {"extended", "body"}
  BY <1>1 DEF Lost, ReadingStates
<1> QED  BY <1>1, <1>2 DEF FieldAt

LEMMA BasicHeaderStep ==
  ASSUME TypesOK, SeenOK, Following \/ Lost, readBasicHeader
  PROVE  Continues /\ hdr' \in HeaderType
<1>1. Following
  BY NotLost DEF readBasicHeader, ReadingStates
<1>2. PICK at, ext, cs : FollowingWith(at, ext, cs)
  BY <1>1 DEF Following
<1>3. UNCHANGED <<seen, sent, link, peer, msg, chunkSize>>
  BY DEF readBasicHeader
<1> DEFINE n == Len(sent)
<1> PICK s : s = sent[Cur]
  OBVIOUS
<1> PICK e : e = ext[Cur]
  OBVIOUS
<1> PICK c : c = cs[Cur]
  OBVIOUS
<1>4. /\ Cur \in 1..(n + 1) /\ n \in Nat
      /\ at[Cur] \in Int /\ ext[Cur] \in BOOLEAN /\ cs[Cur] \in Nat \ {0}
      /\ at[Cur] = 0 /\ wire # << >> => Cur <= n
      /\ Cur <= n => s \in Sents /\ Cur \in 1..n
  BY <1>2, Context
<1>5. CASE /\ Read("basic")
           /\ hdr' = [NoHeader EXCEPT !.fmt = wire[1].v.fmt, !.csid = wire[1].v.csid]
           /\ Go(IF hdr'.csid \in {0, 1} THEN "csid" ELSE AfterBasic(hdr'))
  <2>1. pc = "basic" /\ wire # << >> /\ wire' = Tail(wire)
    BY <1>5, ReadFacts
  <2>2. at[Cur] = 0
    BY <1>2, <2>1 DEF FollowingWith, Place, Serving
  <2>3. Cur <= n /\ s \in Sents /\ s.fmt \in 0..3 /\ s.csid \in Nat \ {0, 1}
    BY <1>4, <2>1, <2>2, SentTypes
  <2>4. 0 \in 0..(ChunkFields(s, e) - 1) /\ at[Cur] + 0 = 0 /\ Basics(s) \in 1..2
    BY <1>4, <2>2, <2>3, ChunkFieldsType
  <2>5. wire[1] = FirstChunk(s, e, c)[0 + 1] /\ LaidOut(FirstChunk(s, e, c), s, e, c)
    BY <1>2, <2>1, <2>3, <2>4, Arrives
  <2>6. wire[1].v = [fmt |-> s.fmt, csid |-> SmallField(s.csid)]
    BY <2>5 DEF LaidOut, Field
  <2>7. hdr' = [fmt |-> s.fmt, csid |-> SmallField(s.csid), ext |-> FALSE, mlen |-> 0, typo |-> "Zero"]
    <3>1. wire[1].v.fmt = s.fmt /\ wire[1].v.csid = SmallField(s.csid)
      BY <2>6
    <3>2. hdr' = [NoHeader EXCEPT !.fmt = s.fmt, !.csid = SmallField(s.csid)]
      BY <1>5, <3>1
    <3> QED  BY <3>2 DEF NoHeader
  <2>8. SmallField(s.csid) \in Nat
    BY <2>3 DEF SmallField
  <2>9. hdr' \in HeaderType
    <3>1. 0 \in ReadSizes /\ "Zero" \in Types
      BY WordAssumption DEF Types, ReadSizes
    <3> QED  BY <2>3, <2>7, <2>8, <3>1 DEF HeaderType
  <2>10. CASE s.csid < 64
    <3>1. SmallField(s.csid) = s.csid /\ Basics(s) = 1
      BY <2>10 DEF SmallField, Basics
    <3>2. hdr'.fmt = s.fmt /\ hdr'.csid = s.csid /\ hdr'.mlen = 0 /\ hdr'.typo = "Zero"
      BY <2>7, <3>1
    <3>3. pc' = AfterBasic(hdr')
      BY <1>5, <2>3, <3>2 DEF Go
    <3>4. Continues
      BY <1>2, <1>3, <2>1, <2>2, <2>3, <3>1, <3>2, <3>3, BasicRead
    <3> QED  BY <2>9, <3>4
  <2>11. CASE s.csid >= 64
    <3>1. SmallField(s.csid) \in {0, 1}
      BY <2>11, <2>3 DEF SmallField
    <3>2. hdr'.csid = SmallField(s.csid) /\ hdr'.fmt = s.fmt /\ hdr'.mlen = 0 /\ hdr'.typo = "Zero"
      BY <2>7
    <3>3. pc' = "csid"
      BY <1>5, <3>1, <3>2 DEF Go
    <3> PICK p : p = at[Cur] - 1
      OBVIOUS
    <3>4. InChunk(p, s, e)'
      BY <2>2, <2>11, <3>2, <3>3 DEF InChunk
    <3>5. Cur' = Cur /\ sent' = sent
      BY <1>3 DEF Cur
    <3>6. Place(p, e)'
      <4>1. pc' \in Inside /\ pc' \notin Serving /\ pc' # "challenge" /\ pc' # "response"
        BY <3>3 DEF Inside, Serving
      <4>2. InChunk(p, sent[Cur], e)' /\ Cur' <= Len(sent')
        BY <2>3, <3>4, <3>5 DEF InChunk
      <4> QED  BY <4>1, <4>2 DEF Place
    <3>7. ReadSize' = ReadSize
      BY <1>3, <2>1, <3>3 DEF ReadSize
    <3>8. Following'
      BY <1>2, <1>3, <2>1, <3>6, <3>7, Advance
    <3> QED  BY <2>9, <3>3, <3>8 DEF Continues, Closed
  <2> QED  BY <2>3, <2>10, <2>11
<1>6. CASE /\ Read("csid")
           /\ hdr' = [hdr EXCEPT !.csid = wire[1].v]
           /\ Go(AfterBasic(hdr'))
  <2>1. pc = "csid" /\ wire # << >> /\ wire' = Tail(wire)
    BY <1>6, ReadFacts
  <2>2. Cur <= n /\ InChunk(at[Cur], s, e)
    BY <1>2, <2>1 DEF FollowingWith, Place, Inside
  <2>3. /\ at[Cur] = -1 /\ s.csid >= 64 /\ hdr.csid = SmallField(s.csid) /\ hdr.fmt = s.fmt
        /\ hdr.mlen = 0 /\ hdr.typo = "Zero"
    BY <2>1, <2>2 DEF InChunk
  <2>4. s \in Sents /\ s.fmt \in 0..3 /\ s.csid \in Nat
    BY <1>4, <2>2, SentTypes
  <2>5. 1 \in 0..(ChunkFields(s, e) - 1) /\ Basics(s) = 2
    <3>1. Basics(s) = 2
      BY <2>3, <2>4 DEF Basics
    <3> QED  BY <1>4, <2>4, <3>1, ChunkFieldsType
  <2>6. wire[1] = FirstChunk(s, e, c)[1 + 1] /\ LaidOut(FirstChunk(s, e, c), s, e, c)
    BY <1>2, <2>1, <2>2, <2>3, <2>5, Arrives
  <2>7. wire[1].v = s.csid
    BY <2>5, <2>6 DEF LaidOut, Field
  <2>8. hdr' \in HeaderType
    BY <1>6, <2>4, <2>7 DEF HeaderType, TypesOK
  <2>9. hdr'.fmt = s.fmt /\ hdr'.csid = s.csid /\ hdr'.mlen = 0 /\ hdr'.typo = "Zero"
    BY <1>6, <2>3, <2>7 DEF HeaderType, TypesOK
  <2>10. pc' = AfterBasic(hdr') /\ at[Cur] - 1 = -Basics(s)
    BY <1>6, <2>3, <2>5 DEF Go
  <2>11. Continues
    BY <1>2, <1>3, <2>1, <2>2, <2>9, <2>10, BasicRead
  <2> QED  BY <2>8, <2>11
<1> QED  BY <1>5, <1>6 DEF readBasicHeader

(***************************************************************************)
(* The fields after the basic header.                                      *)
(***************************************************************************)
LEMMA MessageHeaderStep ==
  ASSUME TypesOK, SeenOK, Following \/ Lost, readChunkMessageHeader
  PROVE  Continues /\ hdr' \in HeaderType
<1>1. Following
  BY NotLost DEF readChunkMessageHeader, ReadingStates
<1>2. PICK at, ext, cs : FollowingWith(at, ext, cs)
  BY <1>1 DEF Following
<1>3. UNCHANGED <<seen, sent, link, peer, msg, chunkSize>>
  BY DEF readChunkMessageHeader
<1> DEFINE n == Len(sent)
<1> PICK s : s = sent[Cur]
  OBVIOUS
<1> PICK e : e = ext[Cur]
  OBVIOUS
<1> PICK c : c = cs[Cur]
  OBVIOUS
<1> PICK p : p = at[Cur] - 1
  OBVIOUS
<1>4. PICK f \in {"timestamp", "length", "msid", "extended"} : Read(f)
  BY DEF readChunkMessageHeader
<1>5. /\ pc = f /\ pc \in Inside /\ wire # << >> /\ wire' = Tail(wire)
      /\ f \in {"timestamp", "length", "msid", "extended"}
  BY <1>4, ReadFacts DEF Inside
<1>6. Cur <= n /\ InChunk(at[Cur], s, e)
  BY <1>2, <1>5 DEF FollowingWith, Place
<1>7. /\ s \in Sents /\ s.fmt \in 0..3 /\ s.m \in Msgs /\ s.m.len \in ReadSizes /\ s.m.typo \in Types
      /\ at[Cur] \in Int /\ e \in BOOLEAN /\ c \in Nat \ {0}
  BY <1>2, <1>6, Context, SentTypes, MsgsAssumption
<1>8. /\ Basics(s) \in 1..2
      /\ Heads(s, e) = Basics(s) + (3 - s.fmt) + (IF e THEN 1 ELSE 0)
      /\ ChunkFields(s, e) \in Nat /\ Heads(s, e) <= ChunkFields(s, e) /\ Heads(s, e) \in Nat
  BY <1>7, ChunkFieldsType
<1>9. ASSUME NEW d \in 0..(ChunkFields(s, e) - 1), at[Cur] + d = 0
      PROVE  wire[1] = FirstChunk(s, e, c)[d + 1] /\ LaidOut(FirstChunk(s, e, c), s, e, c)
  BY <1>2, <1>5, <1>6, <1>9, Arrives
<1>10. ASSUME pc' \in Inside, InChunk(p, s, e)' PROVE Following'
  <2>1. Cur' = Cur /\ sent' = sent
    BY <1>3 DEF Cur
  <2>2. Place(p, e)'
    <3>1. pc' \notin Serving /\ pc' # "challenge" /\ pc' # "response"
      BY <1>10 DEF Inside, Serving
    <3>2. InChunk(p, sent[Cur], e)' /\ Cur' <= Len(sent')
      BY <1>6, <1>10, <2>1 DEF InChunk
    <3> QED  BY <1>10, <3>1, <3>2 DEF Place
  <2>3. ReadSize' = ReadSize
    BY <1>3, <1>5, <1>10 DEF ReadSize, Inside
  <2> QED  BY <1>2, <1>3, <1>5, <2>2, <2>3, Advance
<1>11. CASE pc = "timestamp"
  <2>1. /\ at[Cur] = -Basics(s) /\ s.fmt <= 2 /\ hdr.fmt = s.fmt /\ hdr.csid = s.csid
        /\ s.csid <= MaxStreamsNum /\ hdr.mlen = 0 /\ hdr.typo = "Zero"
    BY <1>6, <1>11 DEF InChunk
  <2>2. Basics(s) \in 0..(ChunkFields(s, e) - 1) /\ at[Cur] + Basics(s) = 0 /\ p = -(Basics(s) + 1)
    BY <1>7, <1>8, <2>1
  <2>3. wire[1] = Field("timestamp", 3, e)
    BY <1>9, <2>1, <2>2 DEF LaidOut
  <2>4. /\ hdr' = [hdr EXCEPT !.ext = wire[1].v]
        /\ pc' = IF hdr.fmt <= 1 THEN "length" ELSE AfterFixed(hdr')
    BY <1>4, <1>11 DEF readChunkMessageHeader, Read, Go
  <2>5. wire[1].v = e
    BY <2>3 DEF Field
  <2>6. hdr' \in HeaderType
    BY <1>7, <2>4, <2>5 DEF TypesOK, HeaderType
  <2>7. /\ hdr'.fmt = s.fmt /\ hdr'.csid = s.csid /\ hdr'.mlen = 0 /\ hdr'.typo = "Zero" /\ hdr'.ext = e
    BY <2>1, <2>4, <2>5 DEF TypesOK, HeaderType
  <2>8. pc' = IF s.fmt <= 1 THEN "length" ELSE IF e THEN "extended" ELSE "body"
    BY <2>1, <2>4, <2>7 DEF AfterFixed
  <2>9. InChunk(p, s, e)'
    BY SMTT(30), <1>7, <1>8, <2>1, <2>2, <2>7, <2>8 DEF InChunk
  <2>10. pc' \in Inside
    BY <2>8 DEF Inside
  <2> QED  BY <1>10, <2>6, <2>8, <2>9, <2>10 DEF Continues, Closed
<1>12. CASE pc = "length"
  <2>1. /\ at[Cur] = -(Basics(s) + 1) /\ s.fmt <= 1 /\ hdr.fmt = s.fmt /\ hdr.csid = s.csid
        /\ s.csid <= MaxStreamsNum /\ hdr.ext = e
    BY <1>6, <1>12 DEF InChunk
  <2>2. /\ Basics(s) + 1 \in 0..(ChunkFields(s, e) - 1) /\ at[Cur] + (Basics(s) + 1) = 0
        /\ p = -(Basics(s) + 2)
    BY <1>7, <1>8, <2>1
  <2>3. wire[1] = Field("length", 4, s.m)
    BY <1>8, <1>9, <2>1, <2>2 DEF LaidOut
  <2>4. /\ hdr' = [hdr EXCEPT !.mlen = wire[1].v.len, !.typo = wire[1].v.typo]
        /\ pc' = IF hdr.fmt = 0 THEN "msid" ELSE AfterFixed(hdr)
    BY <1>4, <1>12 DEF readChunkMessageHeader, Read, Go
  <2>5. wire[1].v = s.m
    BY <2>3 DEF Field
  <2>6. hdr' \in HeaderType
    BY <1>7, <2>4, <2>5 DEF TypesOK, HeaderType
  <2>7. /\ hdr'.fmt = s.fmt /\ hdr'.csid = s.csid /\ hdr'.mlen = s.m.len /\ hdr'.typo = s.m.typo
        /\ hdr'.ext = e
    BY <2>1, <2>4, <2>5 DEF TypesOK, HeaderType
  <2>8. pc' = IF s.fmt = 0 THEN "msid" ELSE IF e THEN "extended" ELSE "body"
    BY <2>1, <2>4 DEF AfterFixed
  <2>9. InChunk(p, s, e)'
    BY <1>7, <1>8, <2>1, <2>2, <2>7, <2>8 DEF InChunk
  <2>10. pc' \in Inside
    BY <2>8 DEF Inside
  <2> QED  BY <1>10, <2>6, <2>8, <2>9, <2>10 DEF Continues, Closed
<1>13. CASE pc = "msid"
  <2>1. /\ at[Cur] = -(Basics(s) + 2) /\ s.fmt = 0 /\ hdr.fmt = s.fmt /\ hdr.csid = s.csid
        /\ s.csid <= MaxStreamsNum /\ hdr.ext = e /\ hdr.mlen = s.m.len /\ hdr.typo = s.m.typo
    BY <1>6, <1>13 DEF InChunk
  <2>2. p = -(Basics(s) + 3)
    BY <1>7, <1>8, <2>1
  <2>3. hdr' = hdr /\ pc' = AfterFixed(hdr)
    BY <1>4, <1>13 DEF readChunkMessageHeader, Read, Go
  <2>4. pc' = IF e THEN "extended" ELSE "body"
    BY <2>1, <2>3 DEF AfterFixed
  <2>5. InChunk(p, s, e)'
    BY <1>7, <1>8, <2>1, <2>2, <2>3, <2>4 DEF InChunk
  <2>6. pc' \in Inside
    BY <2>4 DEF Inside
  <2> QED  BY <1>10, <2>3, <2>4, <2>5, <2>6 DEF Continues, Closed, TypesOK
<1>14. CASE pc = "extended"
  <2>1. /\ at[Cur] = -(Basics(s) + (3 - s.fmt)) /\ s.fmt <= 2 /\ e /\ hdr.fmt = s.fmt
        /\ hdr.csid = s.csid /\ s.csid <= MaxStreamsNum
        /\ IF s.fmt <= 1 THEN hdr.mlen = s.m.len /\ hdr.typo = s.m.typo
                         ELSE hdr.mlen = 0 /\ hdr.typo = "Zero"
    BY <1>6, <1>14 DEF InChunk
  <2>2. p = -Heads(s, e)
    BY <1>7, <1>8, <2>1
  <2>3. hdr' = hdr /\ pc' = "body"
    BY <1>4, <1>14 DEF readChunkMessageHeader, Read, Go
  <2>4. InChunk(p, s, e)'
    BY <1>7, <1>8, <2>1, <2>2, <2>3 DEF InChunk
  <2>5. pc' \in Inside
    BY <2>3 DEF Inside
  <2> QED  BY <1>10, <2>3, <2>4, <2>5 DEF Continues, Closed, TypesOK
<1> QED  BY <1>5, <1>11, <1>12, <1>13, <1>14

(***************************************************************************)
(* A message delivered whole: the next chunk begins where this one ends.   *)
(***************************************************************************)
LEMMA Served ==
  ASSUME TypesOK, SeenOK, NEW at, NEW ext, NEW cs, FollowingWith(at, ext, cs),
         Cur <= Len(sent), NEW s, s = sent[Cur], NEW k, k \in {0, 1},
         k = 0 => wire' = wire,
         k = 1 => wire # << >> /\ wire' = Tail(wire),
         UNCHANGED <<sent, link, peer, chunkSize>>,
         pc = "body", pc' = "message", seen' = Append(seen, msg'),
         s.whole, at[Cur] + ChunkFields(s, ext[Cur]) = k,
         msg' = s.m \/ (msg'.typo # "SetChunkSize" /\ s.m.typo # "SetChunkSize")
  PROVE  Following'
<1> DEFINE n == Len(sent)
<1>1. /\ n \in Nat /\ Cur \in 1..n /\ Cur + 1 \in 1..(n + 1) /\ Cur \in Nat \ {0} /\ Cur = Len(seen) + 1
      /\ s \in Sents /\ at[Cur] \in Int
  BY Context DEF Cur
<1>2. /\ wire \in Seq(WireFields) /\ sent \in Seq(Sents)
      /\ Maps(n + 1, at, ext, cs) /\ LaidIn(wire, link, sent, Cur, at, ext, cs)
      /\ SizesIn(sent, peer.chunkSize, cs)
  BY DEF TypesOK, FollowingWith
<1>3. Len(seen') + 1 = Cur + 1
  BY <1>1 DEF TypesOK
<1>4. at[Cur + 1] = k
  BY <1>1, <1>2 DEF LaidIn
<1>5. PICK a : /\ Maps(n + 1, a, ext, cs) /\ LaidIn(wire', link, sent, Cur, a, ext, cs)
               /\ a[Cur + 1] = 0
  <2>1. CASE k = 0
    BY <1>2, <1>4, <2>1
  <2>2. CASE k = 1
    <3>1. wire # << >> /\ wire' = Tail(wire)
      BY <2>2
    <3>2. Maps(n + 1, Shifted(at, n + 1), ext, cs)
      BY <1>1, <1>2, <3>1, ShiftLaid
    <3>3. LaidIn(Tail(wire), link, sent, Cur, Shifted(at, n + 1), ext, cs)
      BY <1>1, <1>2, <3>1, ShiftLaid
    <3>4. Shifted(at, n + 1)[Cur + 1] = at[Cur + 1] - 1
      BY <1>1 DEF Shifted
    <3>5. Shifted(at, n + 1)[Cur + 1] = 0
      BY <1>4, <2>2, <3>4
    <3> QED  BY <3>1, <3>2, <3>3, <3>5
  <2> QED  BY <2>1, <2>2
<1>6. LaidIn(wire', link, sent, Cur + 1, a, ext, cs)
  BY <1>1, <1>2, <1>5, PassLaid
<1>7. cs[Cur + 1] = IF s.m.typo = "SetChunkSize" THEN s.m.arg ELSE cs[Cur]
  BY <1>1, <1>2 DEF SizesIn
<1>8. Cooperative => cs[Cur + 1] = ReadSize'
  <2>1. Cooperative => cs[Cur] = chunkSize
    BY DEF FollowingWith, ReadSize
  <2>2. ReadSize' = IF msg'.typo = "SetChunkSize" THEN msg'.arg ELSE chunkSize
    BY DEF ReadSize
  <2> QED  BY <1>7, <2>1, <2>2
<1>9. /\ Maps(Len(sent') + 1, a, ext, cs) /\ SizesIn(sent', peer'.chunkSize, cs)
      /\ LaidIn(wire', link', sent', Len(seen') + 1, a, ext, cs)
      /\ a[Len(seen') + 1] = 0
      /\ Cooperative => cs[Len(seen') + 1] = ReadSize'
  BY <1>2, <1>3, <1>5, <1>6, <1>8
<1> PICK p : p = a[Len(seen') + 1]
  OBVIOUS
<1> PICK e : e = ext[Len(seen') + 1]
  OBVIOUS
<1>10. Place(p, e)'
  BY <1>9 DEF Place, Serving, Inside
<1> QED  BY <1>9, <1>10, FollowingNext

\* pumpMessage only panics on a chunk stream or a chunk size it does not have.
LEMMA Panics ==
  ASSUME TypesOK, SeenOK, NEW at, NEW ext, NEW cs, FollowingWith(at, ext, cs), pc = "body",
         BodyPanics
  PROVE  Excused
<1> DEFINE n == Len(sent)
<1> PICK s : s = sent[Cur]
  OBVIOUS
<1> PICK e : e = ext[Cur]
  OBVIOUS
<1>1. Cur <= n /\ InChunk(at[Cur], s, e)
  BY DEF FollowingWith, Place, Inside
<1>2. s \in Sents /\ Cur \in 1..n /\ n \in Nat
  BY <1>1, Context
<1>3. hdr.csid = s.csid
  BY <1>1 DEF InChunk
<1>4. CASE hdr.csid = MaxStreamsNum
  <2>1. ~Followable(s)
    BY <1>2, <1>3, <1>4, ConnAssumption DEF Followable
  <2> QED  BY <1>2, <2>1 DEF Excused
<1>5. CASE (chunkSize + MaxHeaderSize) % Word < MaxHeaderSize + Wanted
  <2>1. chunkSize \in Nat \ {0} /\ hdr.mlen \in Nat /\ MaxHeaderSize \in Nat /\ Word \in Nat /\ Word > 0
    BY ConnAssumption, WordAssumption DEF TypesOK, HeaderType, ReadSizes
  <2>2. Wanted \in Nat /\ Wanted <= chunkSize
    BY <2>1 DEF Wanted
  <2>3. chunkSize + MaxHeaderSize >= Word
    <3> SUFFICES ASSUME chunkSize + MaxHeaderSize < Word PROVE FALSE
      BY <2>1
    <3>1. (chunkSize + MaxHeaderSize) % Word = chunkSize + MaxHeaderSize
      BY <2>1, SmallMod
    <3> QED  BY <1>5, <2>1, <2>2, <3>1
  <2> SUFFICES ASSUME Cooperative PROVE \E i \in 1..n : ~Followable(sent[i])
    BY DEF Excused
  <2>4. chunkSize = cs[Cur]
    BY DEF FollowingWith, ReadSize
  <2>5. chunkSize # DefaultReadChunkSize
    BY <2>1, <2>3, ConnAssumption, WordAssumption
  <2>6. PICK i \in 1..n : sent[i].m.typo = "SetChunkSize" /\ chunkSize = sent[i].m.arg
    BY <1>2, <2>4, <2>5 DEF FollowingWith, SizesIn
  <2>7. ~Followable(sent[i])
    BY <2>1, <2>3, <2>6, WordAssumption DEF Followable
  <2> QED  BY <2>7
<1> QED  BY <1>4, <1>5 DEF BodyPanics

(***************************************************************************)
(* The body read, or nothing to read: the message is delivered, or the     *)
(* connection ends for a reason.                                           *)
(***************************************************************************)
LEMMA BodyStep ==
  ASSUME TypesOK, SeenOK, Following \/ Lost, pumpMessage
  PROVE  /\ Continues
         /\ \/ UNCHANGED <<msg, seen>> /\ pc' \in Closed
            \/ /\ pc' = "message" /\ seen' = Append(seen, msg') /\ Cur <= Len(sent)
               /\ msg' = sent[Cur].m \/ (msg' = None /\ sent[Cur].fmt >= 2)
               /\ msg' \in Msgs \cup {None}
<1>1. pc = "body" /\ Following
  BY DEF pumpMessage, Lost
<1>2. PICK at, ext, cs : FollowingWith(at, ext, cs)
  BY <1>1 DEF Following
<1>3. UNCHANGED <<hdr, chunkSize, link, peer, sent, refused>>
  BY DEF pumpMessage
<1> DEFINE n == Len(sent)
<1> PICK s : s = sent[Cur]
  OBVIOUS
<1> PICK e : e = ext[Cur]
  OBVIOUS
<1> PICK c : c = cs[Cur]
  OBVIOUS
<1>4. Cur <= n /\ InChunk(at[Cur], s, e)
  BY <1>1, <1>2 DEF FollowingWith, Place, Inside
<1>5. /\ s \in Sents /\ Cur \in 1..n /\ n \in Nat /\ s.fmt \in 0..3 /\ s.m \in Msgs
      /\ s.m.len \in Nat /\ s.m.typo \in Types
      /\ at[Cur] \in Int /\ e \in BOOLEAN /\ c \in Nat \ {0}
  BY <1>2, <1>4, Context, SentTypes
<1>6. /\ s.m = [typo |-> s.m.typo, len |-> s.m.len, arg |-> s.m.arg]
      /\ s.m.len = 0 => s.m.arg = "none"
      /\ s.m.typo = "SetChunkSize" => s.m.len > 0
  BY <1>5, MsgsAssumption
<1>7. /\ Basics(s) \in 1..2
      /\ Heads(s, e) = Basics(s) + (3 - s.fmt) + (IF e THEN 1 ELSE 0)
      /\ ChunkFields(s, e) = Heads(s, e) + (IF s.m.len = 0 THEN 0 ELSE 1)
      /\ ChunkFields(s, e) \in Nat /\ Heads(s, e) \in Nat
  BY <1>5, ChunkFieldsType
<1>8. /\ at[Cur] = -(IF s.fmt = 3 THEN Basics(s) ELSE Heads(s, e))
      /\ IF s.fmt <= 1 THEN hdr.mlen = s.m.len /\ hdr.typo = s.m.typo
                       ELSE hdr.mlen = 0 /\ hdr.typo = "Zero"
  BY <1>1, <1>4 DEF InChunk
<1>9. s.whole <=> s.m.len <= c
  BY <1>2, <1>5 DEF FollowingWith, SizesIn
<1>10. chunkSize \in Nat \ {0} /\ (Cooperative => c = chunkSize)
  BY <1>1, <1>2 DEF TypesOK, FollowingWith, ReadSize
<1>11. ASSUME NEW d \in 0..(ChunkFields(s, e) - 1), at[Cur] + d = 0, wire # << >>
       PROVE  wire[1] = FirstChunk(s, e, c)[d + 1] /\ LaidOut(FirstChunk(s, e, c), s, e, c)
  BY <1>2, <1>4, <1>11, Arrives
<1>12. ASSUME ~Followable(s) PROVE Excused
  BY <1>5, <1>12 DEF Excused
<1>13. pc' \in Closed /\ Excused => Continues
  BY <1>3 DEF Continues, Excused, Up
<1>14. CASE BodyPanics /\ Go("panicked") /\ UNCHANGED <<ackVars, wire, msg, seen>>
  <2>1. Excused
    BY <1>1, <1>2, <1>14, Panics
  <2> QED  BY <1>13, <1>14, <2>1 DEF Go, Closed
<1>15. CASE Wanted = 0 /\ UNCHANGED wire /\ Deliver("none")
  <2>1. hdr.mlen = 0
    BY <1>5, <1>8, <1>10, <1>15 DEF Wanted
  <2>2. CASE hdr.typo = "OutOfRange"
    <3>1. ~Followable(s)
      BY <1>8, <2>2 DEF Followable
    <3>2. pc' = "ended" /\ UNCHANGED <<msg, seen>>
      BY <1>15, <2>2 DEF Deliver, End
    <3> QED  BY <1>12, <1>13, <3>1, <3>2 DEF Closed
  <2>3. CASE hdr.typo # "OutOfRange"
    <3>1. /\ msg' = [typo |-> hdr.typo, len |-> 0, arg |-> "none"] /\ seen' = Append(seen, msg')
          /\ pc' = "message"
      BY <1>15, <2>1, <2>3 DEF Deliver, Go
    <3>2. CASE s.m.len = 0 /\ at[Cur] + ChunkFields(s, e) = 0
      <4>1. s.whole
        BY <1>5, <1>9, <3>2
      <4>2. s.m.typo # "SetChunkSize" /\ msg'.typo # "SetChunkSize"
        BY <1>6, <1>8, <3>1, <3>2
      <4>3. Following'
        BY <1>1, <1>2, <1>3, <1>4, <1>15, <3>1, <3>2, <4>1, <4>2, Served
      <4>4. msg' = s.m \/ (msg' = None /\ s.fmt >= 2)
        BY <1>5, <1>6, <1>8, <3>1, <3>2 DEF None
      <4> QED  BY <1>4, <1>5, <3>1, <4>3, <4>4 DEF Continues, Closed
    <3>3. CASE ~(s.m.len = 0 /\ at[Cur] + ChunkFields(s, e) = 0)
      <4>1. s.fmt >= 2
        BY <1>5, <1>7, <1>8, <2>1, <3>3
      <4>2. msg' = None
        BY <1>5, <1>8, <3>1, <4>1 DEF None
      <4> PICK d : d = -at[Cur]
        OBVIOUS
      <4>3. d \in 0..(ChunkFields(s, e) - 1) /\ at[Cur] + d = 0
        <5>1. d = (IF s.fmt = 3 THEN Basics(s) ELSE Heads(s, e)) /\ at[Cur] = -d /\ d \in Nat
          BY SMTT(30), <1>5, <1>7, <1>8
        <5>2. d <= Heads(s, e)
          BY <1>5, <1>7, <5>1
        <5>3. CASE s.m.len = 0
          BY <1>5, <1>7, <3>3, <5>1, <5>2, <5>3
        <5>4. CASE s.m.len # 0
          BY <1>5, <1>7, <5>1, <5>2, <5>4
        <5> QED  BY <5>3, <5>4
      <4>4. ASSUME wire = << >> PROVE ~Up
        <5> SUFFICES ASSUME link = "up" PROVE FALSE
          BY DEF Up
        <5>1. Len(wire) = at[n + 1] /\ at[Cur] + ChunkFields(s, e) <= at[n + 1]
          BY <1>2, <1>5 DEF FollowingWith, LaidIn
        <5>2. Len(wire) = 0
          BY <4>4
        <5>3. at[n + 1] = 0 /\ at[Cur] + ChunkFields(s, e) >= 1
          BY <1>5, <1>7, <4>3, <5>1, <5>2
        <5> QED  BY <5>1, <5>3, <1>5, <1>7
      <4>5. ASSUME wire # << >> PROVE wire[1].f \in {"extended", "body"}
        <5>1. wire[1] = FirstChunk(s, e, c)[d + 1] /\ LaidOut(FirstChunk(s, e, c), s, e, c)
          BY <1>11, <4>3, <4>5
        <5>2. CASE s.fmt = 3 /\ e
          <6>1. d + 1 = Basics(s) + (3 - s.fmt) + 1
            BY <1>5, <1>7, <1>8, <5>2
          <6>2. wire[1] = Field("extended", 4, 0)
            BY <5>1, <5>2, <6>1 DEF LaidOut
          <6> QED  BY <6>2 DEF Field
        <5>3. CASE ~(s.fmt = 3 /\ e)
          <6>1. d + 1 = Heads(s, e) + 1 /\ s.m.len > 0
            <7>1. d = (IF s.fmt = 3 THEN Basics(s) ELSE Heads(s, e)) /\ d \in Nat
              BY <1>5, <1>7, <1>8
            <7>2. d = Heads(s, e)
              BY <1>5, <1>7, <5>3, <7>1
            <7>3. s.m.len # 0
              BY <1>7, <4>3, <7>2
            <7> QED  BY <1>5, <7>2, <7>3
          <6>2. wire[1].f = "body"
            BY <5>1, <6>1 DEF LaidOut, Field
          <6> QED  BY <6>2
        <5> QED  BY <5>2, <5>3
      <4>6. Lost'
        BY <1>3, <1>15, <3>1, <4>2, <4>4, <4>5 DEF Lost, Up
      <4> QED  BY <1>4, <3>1, <4>1, <4>2, <4>6 DEF Continues, Closed
    <3> QED  BY <3>2, <3>3
  <2> QED  BY <2>2, <2>3
<1>16. CASE Read("body") /\ Deliver(wire[1].v.arg)
  <2>1. /\ Reading /\ wire # << >> /\ wire' = Tail(wire) /\ wire[1].n = Needed("body")
    BY <1>16, ReadFacts
  <2>2. Wanted > 0 /\ wire[1].n = Wanted
    BY <1>1, <2>1 DEF Reading, Needed
  <2>3. hdr.mlen > 0 /\ s.fmt <= 1 /\ hdr.mlen = s.m.len /\ hdr.typo = s.m.typo
    BY <1>5, <1>8, <1>10, <2>2 DEF Wanted
  <2>4. Heads(s, e) \in 0..(ChunkFields(s, e) - 1) /\ at[Cur] + Heads(s, e) = 0
    BY <1>5, <1>7, <1>8, <2>3
  <2>5. wire[1] = Field("body", ChunkLen(s.m.len, c, 1), s.m)
    BY <1>11, <2>1, <2>3, <2>4 DEF LaidOut
  <2>6. wire[1].v = s.m /\ Wanted = ChunkLen(s.m.len, c, 1)
    BY <2>2, <2>5 DEF Field
  <2>7. Wanted = IF c <= s.m.len THEN c ELSE s.m.len
    BY <1>5, <2>6 DEF ChunkLen
  <2>8. CASE Wanted = hdr.mlen /\ hdr.typo # "OutOfRange"
    <3>1. msg' = s.m /\ seen' = Append(seen, msg') /\ pc' = "message"
      BY <1>6, <1>16, <2>3, <2>6, <2>8 DEF Deliver, Go
    <3>2. s.whole
      BY <1>5, <1>9, <2>3, <2>7, <2>8
    <3>3. at[Cur] + ChunkFields(s, e) = 1
      BY <1>5, <1>7, <2>3, <2>4
    <3>4. Following'
      BY <1>1, <1>2, <1>3, <1>4, <2>1, <3>1, <3>2, <3>3, Served
    <3> QED  BY <1>4, <1>5, <3>1, <3>4 DEF Continues, Closed
  <2>9. CASE ~(Wanted = hdr.mlen /\ hdr.typo # "OutOfRange")
    <3>1. pc' = "ended" /\ UNCHANGED <<msg, seen>>
      BY <1>16, <2>9 DEF Deliver, End
    <3>2. Excused
      <4>1. CASE hdr.typo = "OutOfRange"
        <5>1. ~Followable(s)
          BY <2>3, <4>1 DEF Followable
        <5> QED  BY <1>12, <5>1
      <4>2. CASE hdr.typo # "OutOfRange"
        <5>1. ~s.whole
          BY <1>5, <1>9, <2>3, <2>7, <2>9, <4>2
        <5>2. ~Followable(s)
          BY <5>1 DEF Followable
        <5> QED  BY <1>12, <5>2
      <4> QED  BY <4>1, <4>2
    <3> QED  BY <1>13, <3>1, <3>2 DEF Closed
  <2> QED  BY <2>8, <2>9
<1>17. \/ BodyPanics /\ Go("panicked") /\ UNCHANGED <<ackVars, wire, msg, seen>>
       \/ Wanted = 0 /\ UNCHANGED wire /\ Deliver("none")
       \/ Read("body") /\ Deliver(wire[1].v.arg)
  BY DEF pumpMessage
<1> QED  BY <1>14, <1>15, <1>16, <1>17

-----------------------------------------------------------------------------
(* Serving it *)

(***************************************************************************)
(* Nothing on the wire moves: only what serve() does next.                 *)
(***************************************************************************)
LEMMA Stays ==
  ASSUME TypesOK, SeenOK, Following, pc \in Serving, pc' \in Serving,
         UNCHANGED <<wire, link, sent, seen, peer>>,
         Cooperative => ReadSize' = ReadSize
  PROVE  Following'
<1>1. PICK at, ext, cs : FollowingWith(at, ext, cs)
  BY DEF Following
<1>2. Cur = Len(seen') + 1 /\ Cur' = Cur
  BY DEF Cur
<1>3. at[Cur] = 0
  BY <1>1 DEF FollowingWith, Place
<1> PICK p : p = at[Cur]
  OBVIOUS
<1> PICK e : e = ext[Cur]
  OBVIOUS
<1>4. Place(p, e)'
  BY <1>3 DEF Place, Serving, Inside
<1>5. /\ Maps(Len(sent') + 1, at, ext, cs) /\ SizesIn(sent', peer'.chunkSize, cs)
      /\ LaidIn(wire', link', sent', Len(seen') + 1, at, ext, cs)
      /\ p = at[Len(seen') + 1] /\ e = ext[Len(seen') + 1]
      /\ Cooperative => cs[Len(seen') + 1] = ReadSize'
  BY <1>1, <1>2 DEF FollowingWith
<1> QED  BY <1>4, <1>5, FollowingNext

LEMMA HandshakeStep ==
  ASSUME TypesOK, SeenOK, Following \/ Lost, handshake
  PROVE  Continues
<1>1. Following
  BY NotLost DEF handshake, ReadingStates
<1>2. PICK at, ext, cs : FollowingWith(at, ext, cs)
  BY <1>1 DEF Following
<1>3. UNCHANGED <<seen, sent, link, peer, msg, chunkSize>>
  BY DEF handshake
<1> PICK p : p = at[Cur] - 1
  OBVIOUS
<1> PICK e : e = ext[Cur]
  OBVIOUS
<1>4. CASE /\ Read("challenge")
           /\ \/ Go("response") /\ UNCHANGED refused
              \/ pc' \in {"ended", "panicked"} /\ refused' = TRUE
  <2>1. pc = "challenge" /\ wire # << >> /\ wire' = Tail(wire)
    BY <1>4, ReadFacts
  <2>2. at[Cur] = 2 /\ \A i \in 1..2 : i <= Len(wire) => wire[i] = Handshakes(i)
    BY <1>2, <2>1 DEF FollowingWith, Place
  <2>3. CASE pc' = "response"
    <3>1. Len(wire') = Len(wire) - 1 /\ (Len(wire') >= 1 => wire'[1] = wire[2])
      BY <2>1 DEF TypesOK
    <3>2. Len(wire') >= 1 => wire'[1] = Handshakes(2)'
      BY <2>1, <2>2, <3>1 DEF TypesOK, Handshakes
    <3>3. Place(p, e)'
      BY <2>2, <2>3, <3>2 DEF Place, Serving, Inside
    <3>4. ReadSize' = ReadSize
      BY <1>3, <2>1, <2>3 DEF ReadSize
    <3>5. Following'
      BY <1>2, <1>3, <2>1, <3>3, <3>4, Advance
    <3> QED  BY <2>3, <3>5 DEF Continues, Closed
  <2>4. CASE pc' \in {"ended", "panicked"} /\ refused' = TRUE
    BY <2>4 DEF Continues, Excused, Closed
  <2> QED  BY <1>4, <2>3, <2>4 DEF Go
<1>5. CASE /\ Read("response")
           /\ pc' \in {"serveNew"} \cup (IF Up THEN {} ELSE {"ended"})
  <2>1. pc = "response" /\ wire # << >> /\ wire' = Tail(wire)
    BY <1>5, ReadFacts
  <2>2. at[Cur] = 1
    BY <1>2, <2>1 DEF FollowingWith, Place
  <2>3. CASE pc' = "serveNew"
    <3>1. Place(p, e)'
      BY <2>2, <2>3 DEF Place, Serving, Inside
    <3>2. ReadSize' = ReadSize
      BY <1>3, <2>1, <2>3 DEF ReadSize
    <3>3. Following'
      BY <1>2, <1>3, <2>1, <3>1, <3>2, Advance
    <3> QED  BY <2>3, <3>3 DEF Continues, Closed
  <2>4. CASE pc' # "serveNew"
    <3>1. pc' = "ended" /\ ~Up
      BY <1>5, <2>4
    <3> QED  BY <1>3, <3>1 DEF Continues, Excused, Closed, Up
  <2> QED  BY <2>3, <2>4
<1> QED  BY <1>4, <1>5 DEF handshake

(***************************************************************************)
(* A cooperative connection that has not lost its place reads the field it *)
(* takes it for.                                                           *)
(***************************************************************************)
LEMMA TakesItFor ==
  ASSUME TypesOK, SeenOK, Following, Cooperative, Reading, wire # << >>
  PROVE  Reads(FieldAt(pc), Needed(pc))
<1>1. PICK at, ext, cs : FollowingWith(at, ext, cs)
  BY DEF Following
<1> DEFINE n == Len(sent)
<1> PICK s : s = sent[Cur]
  OBVIOUS
<1> PICK e : e = ext[Cur]
  OBVIOUS
<1> PICK c : c = cs[Cur]
  OBVIOUS
<1>2. CASE pc = "challenge" \/ pc = "response"
  <2>1. Len(wire) >= 1 /\ 1 \in 1..2
    BY DEF TypesOK
  <2>2. wire[1] = Handshakes(IF pc = "challenge" THEN 1 ELSE 2)
    BY <1>1, <1>2, <2>1 DEF FollowingWith, Place
  <2> QED  BY <1>2, <2>2 DEF Handshakes, Field, Reads, FieldAt, Needed
<1>3. CASE pc = "basic" \/ pc \in Inside
  <2>1. Cur <= n
    <3>1. CASE pc = "basic"
      <4>1. at[Cur] = 0
        BY <1>1, <3>1 DEF FollowingWith, Place, Serving
      <4> QED  BY <1>1, <4>1, Context
    <3>2. CASE pc \in Inside
      BY <1>1, <3>2 DEF FollowingWith, Place
    <3> QED  BY <1>3, <3>1, <3>2
  <2>2. /\ s \in Sents /\ s.fmt \in 0..3 /\ s.csid \in Nat /\ s.m.len \in Nat
        /\ at[Cur] \in Int /\ e \in BOOLEAN /\ c \in Nat \ {0}
    BY <1>1, <2>1, Context, SentTypes
  <2>3. /\ Basics(s) \in 1..2
        /\ Heads(s, e) = Basics(s) + (3 - s.fmt) + (IF e THEN 1 ELSE 0)
        /\ ChunkFields(s, e) = Heads(s, e) + (IF s.m.len = 0 THEN 0 ELSE 1)
        /\ ChunkFields(s, e) \in Nat \ {0} /\ Heads(s, e) \in Nat /\ Heads(s, e) <= ChunkFields(s, e)
    BY <2>2, ChunkFieldsType
  <2>4. ASSUME NEW d \in 0..(ChunkFields(s, e) - 1), at[Cur] + d = 0
        PROVE  wire[1] = FirstChunk(s, e, c)[d + 1] /\ LaidOut(FirstChunk(s, e, c), s, e, c)
    BY <1>1, <2>1, <2>4, Arrives
  <2>5. pc \in Inside => InChunk(at[Cur], s, e)
    BY <1>1 DEF FollowingWith, Place
  <2>6. CASE pc = "basic"
    <3>1. at[Cur] = 0 /\ 0 \in 0..(ChunkFields(s, e) - 1) /\ at[Cur] + 0 = 0
      BY <1>1, <2>3, <2>6 DEF FollowingWith, Place, Serving
    <3>2. wire[1].f = "basic" /\ wire[1].n = 1
      BY <2>4, <3>1 DEF LaidOut, Field
    <3> QED  BY <2>6, <3>2 DEF Reads, FieldAt, Needed
  <2>7. CASE pc = "csid"
    <3>1. at[Cur] = -1 /\ s.csid >= 64 /\ hdr.csid = SmallField(s.csid)
      BY <2>5, <2>7 DEF InChunk, Inside
    <3>2. Basics(s) = 2
      BY <2>2, <3>1 DEF Basics
    <3>3. 1 \in 0..(ChunkFields(s, e) - 1) /\ at[Cur] + 1 = 0
      BY <2>2, <2>3, <3>1, <3>2
    <3>4. wire[1] = Field("csid", IF s.csid < 320 THEN 1 ELSE 2, s.csid)
      BY <2>4, <3>2, <3>3 DEF LaidOut
    <3>5. Needed("csid") = IF s.csid < 320 THEN 1 ELSE 2
      BY <2>2, <3>1 DEF Needed, SmallField
    <3>6. wire[1].f = "csid" /\ wire[1].n = Needed("csid")
      BY <3>4, <3>5 DEF Field
    <3> QED  BY <2>7, <3>6 DEF Reads, FieldAt
  <2>8. CASE pc = "timestamp"
    <3>1. at[Cur] = -Basics(s) /\ s.fmt <= 2
      BY <2>5, <2>8 DEF InChunk, Inside
    <3>2. Basics(s) \in 0..(ChunkFields(s, e) - 1) /\ at[Cur] + Basics(s) = 0
      <4>1. Heads(s, e) >= Basics(s) + 1
        BY <2>2, <2>3, <3>1
      <4> QED  BY <2>2, <2>3, <3>1, <4>1
    <3>3. wire[1].f = "timestamp" /\ wire[1].n = 3
      BY <2>4, <3>1, <3>2 DEF LaidOut, Field
    <3> QED  BY <2>8, <3>3 DEF Reads, FieldAt, Needed
  <2>9. CASE pc = "length"
    <3>1. at[Cur] = -(Basics(s) + 1) /\ s.fmt <= 1
      BY <2>5, <2>9 DEF InChunk, Inside
    <3>2. Basics(s) + 1 \in 0..(ChunkFields(s, e) - 1) /\ at[Cur] + (Basics(s) + 1) = 0
          /\ (Basics(s) + 1) + 1 = Basics(s) + 2
      BY <2>2, <2>3, <3>1
    <3>3. wire[1].f = "length" /\ wire[1].n = 4
      BY <2>4, <3>1, <3>2 DEF LaidOut, Field
    <3> QED  BY <2>9, <3>3 DEF Reads, FieldAt, Needed
  <2>10. CASE pc = "msid"
    <3>1. at[Cur] = -(Basics(s) + 2) /\ s.fmt = 0
      BY <2>5, <2>10 DEF InChunk, Inside
    <3>2. Basics(s) + 2 \in 0..(ChunkFields(s, e) - 1) /\ at[Cur] + (Basics(s) + 2) = 0
          /\ (Basics(s) + 2) + 1 = Basics(s) + 3
      BY <2>2, <2>3, <3>1
    <3>3. wire[1].f = "msid" /\ wire[1].n = 4
      BY <2>4, <3>1, <3>2 DEF LaidOut, Field
    <3> QED  BY <2>10, <3>3 DEF Reads, FieldAt, Needed
  <2>11. CASE pc = "extended"
    <3>1. at[Cur] = -(Basics(s) + (3 - s.fmt)) /\ s.fmt <= 2 /\ e
      BY <2>5, <2>11 DEF InChunk, Inside
    <3> PICK d : d = Basics(s) + (3 - s.fmt)
      OBVIOUS
    <3>2. d \in Nat /\ d + 1 = Heads(s, e) /\ at[Cur] + d = 0
      <4>1. Heads(s, e) = Basics(s) + (3 - s.fmt) + 1
        BY <2>3, <3>1
      <4>2. d = Basics(s) + (3 - s.fmt) /\ at[Cur] = -(Basics(s) + (3 - s.fmt))
        BY <3>1
      <4>3. Basics(s) \in 1..2 /\ s.fmt \in 0..3 /\ s.fmt <= 2
        BY <2>2, <2>3, <3>1
      <4> QED  BY <4>1, <4>2, <4>3
    <3>3. d \in 0..(ChunkFields(s, e) - 1)
      BY <2>3, <3>2
    <3>4. wire[1] = FirstChunk(s, e, c)[Basics(s) + (3 - s.fmt) + 1] /\ LaidOut(FirstChunk(s, e, c), s, e, c)
      BY <2>4, <3>2, <3>3
    <3>5. wire[1] = Field("extended", 4, 0)
      BY <3>1, <3>4 DEF LaidOut
    <3>6. wire[1].f = "extended" /\ wire[1].n = 4
      BY <3>5 DEF Field
    <3> QED  BY <2>11, <3>6 DEF Reads, FieldAt, Needed
  <2>12. CASE pc = "body"
    <3>1. /\ at[Cur] = -(IF s.fmt = 3 THEN Basics(s) ELSE Heads(s, e))
          /\ IF s.fmt <= 1 THEN hdr.mlen = s.m.len ELSE hdr.mlen = 0
      BY <2>5, <2>12 DEF InChunk, Inside
    <3>2. Wanted > 0
      BY <2>12 DEF Reading
    <3>3. chunkSize = c /\ chunkSize \in Nat \ {0}
      BY <1>1, <2>12 DEF TypesOK, FollowingWith, ReadSize
    <3>4. s.fmt <= 1 /\ hdr.mlen = s.m.len /\ s.m.len > 0
      BY <2>2, <3>1, <3>2, <3>3 DEF Wanted
    <3>5. Heads(s, e) \in 0..(ChunkFields(s, e) - 1) /\ at[Cur] + Heads(s, e) = 0
      BY <2>2, <2>3, <3>1, <3>4
    <3>6. wire[1] = Field("body", ChunkLen(s.m.len, c, 1), s.m)
      BY <2>4, <3>4, <3>5 DEF LaidOut
    <3>7. ChunkLen(s.m.len, c, 1) = Wanted
      BY <2>2, <3>3, <3>4 DEF ChunkLen, Wanted
    <3>8. wire[1].f = "body" /\ wire[1].n = Wanted
      BY <3>6, <3>7 DEF Field
    <3> QED  BY <2>12, <3>8 DEF Reads, FieldAt, Needed
  <2> QED  BY <1>3, <2>6, <2>7, <2>8, <2>9, <2>10, <2>11, <2>12 DEF Inside
<1> QED  BY <1>2, <1>3 DEF Reading, ReadingStates, Inside

-----------------------------------------------------------------------------
(* The peer and the link *)

(***************************************************************************)
(* The steps of the environment.                                           *)
(***************************************************************************)
LEMMA CutFollowing ==
  ASSUME TypesOK, SeenOK, Following, Cut
  PROVE  Following'
<1>1. PICK at, ext, cs : FollowingWith(at, ext, cs)
  BY DEF Following
<1>2. UNCHANGED <<pc, hdr, msg, chunkSize, peer, sent, seen>> /\ link' = "cut"
  BY DEF Cut
<1>3. PICK k \in 0..Len(wire) : wire' = SubSeq(wire, 1, k)
  BY DEF Cut
<1>4. /\ Cur \in Nat \ {0} /\ wire \in Seq(WireFields) /\ sent \in Seq(Sents)
      /\ Maps(Len(sent) + 1, at, ext, cs) /\ LaidIn(wire, link, sent, Cur, at, ext, cs)
      /\ SizesIn(sent, peer.chunkSize, cs) /\ Place(at[Cur], ext[Cur])
      /\ Cooperative => cs[Cur] = ReadSize
  BY <1>1 DEF TypesOK, FollowingWith, Cur
<1>5. Len(wire') = k /\ \A i \in 1..k : wire'[i] = wire[i]
  BY <1>3, <1>4, CutLaid
<1>6. LaidIn(wire', "cut", sent, Cur, at, ext, cs)
  BY <1>3, <1>4, CutLaid
<1>7. Cur = Len(seen') + 1 /\ Cur' = Cur /\ ReadSize' = ReadSize /\ k <= Len(wire) /\ k \in Nat
  BY <1>2, <1>3 DEF Cur, ReadSize
<1> PICK p : p = at[Cur]
  OBVIOUS
<1> PICK e : e = ext[Cur]
  OBVIOUS
<1>8. Place(p, e)'
  <2>1. Place(p, e)
    BY <1>4
  <2>2. InChunk(p, sent[Cur], e) => InChunk(p, sent[Cur], e)'
    BY <1>2, <1>7 DEF InChunk
  <2>3. pc = "challenge" => p = 2 /\ \A i \in 1..2 : i <= Len(wire') => wire'[i] = Handshakes(i)'
    <3>1. ASSUME pc = "challenge", NEW i \in 1..2, i <= Len(wire') PROVE wire'[i] = Handshakes(i)'
      <4>1. i \in 1..k /\ i <= Len(wire)
        BY <1>4, <1>5, <1>7, <3>1
      <4>2. wire[i] = Handshakes(i)
        BY <2>1, <3>1, <4>1 DEF Place
      <4> QED  BY <1>5, <4>1, <4>2 DEF Handshakes
    <3> QED  BY <2>1, <3>1 DEF Place
  <2>4. pc = "response" => p = 1 /\ (Len(wire') >= 1 => wire'[1] = Handshakes(2)')
    <3>1. ASSUME pc = "response", Len(wire') >= 1 PROVE wire'[1] = Handshakes(2)'
      <4>1. 1 \in 1..k /\ Len(wire) >= 1
        BY <1>4, <1>5, <1>7, <3>1
      <4>2. wire[1] = Handshakes(2)
        BY <2>1, <3>1, <4>1 DEF Place
      <4> QED  BY <1>5, <4>1, <4>2 DEF Handshakes
    <3> QED  BY <2>1, <3>1 DEF Place
  <2> QED  BY <1>2, <1>7, <2>1, <2>2, <2>3, <2>4 DEF Place
<1>9. /\ Maps(Len(sent') + 1, at, ext, cs) /\ SizesIn(sent', peer'.chunkSize, cs)
      /\ LaidIn(wire', link', sent', Len(seen') + 1, at, ext, cs)
      /\ p = at[Len(seen') + 1] /\ e = ext[Len(seen') + 1]
      /\ Cooperative => cs[Len(seen') + 1] = ReadSize'
  BY <1>2, <1>4, <1>6, <1>7
<1> QED  BY <1>8, <1>9, FollowingNext

\* Whatever the cut leaves.
LEMMA CutLost ==
  ASSUME TypesOK, Lost, Cut
  PROVE  Lost'
<1>1. UNCHANGED <<pc, msg>> /\ link' = "cut"
  BY DEF Cut
<1>2. PICK k \in 0..Len(wire) : wire' = SubSeq(wire, 1, k)
  BY DEF Cut
<1>3. wire' # << >> => wire # << >> /\ wire'[1] = wire[1]
  <2>1. /\ Len(wire) \in Nat /\ Len(wire') = k
        /\ \A i \in 1..k : wire'[i] = wire[i]
    BY <1>2, SubSeqProperties DEF TypesOK
  <2>2. ASSUME wire' # << >> PROVE k >= 1
    <3>1. CASE k = 0
      BY <1>2, <2>2, <3>1
    <3> QED  BY <3>1
  <2> QED  BY <2>1, <2>2 DEF TypesOK
<1> QED  BY <1>1, <1>3 DEF Lost, Up

\* One more message: what is sent, and its fields.
LEMMA SendTypes ==
  ASSUME TypesOK, NEW m \in Msgs, NEW csid \in Csids, NEW fmt \in Fmts, NEW x \in ExtTimes,
         NEW s, s = [m |-> m, fmt |-> fmt, csid |-> csid, whole |-> m.len <= peer.chunkSize]
  PROVE  /\ s \in Sents /\ s.m = m /\ s.fmt = fmt /\ s.csid = csid /\ x \in BOOLEAN
         /\ s.whole <=> m.len <= peer.chunkSize
         /\ Fields(m, fmt, csid, x, peer.chunkSize) \in Seq(WireFields)
         /\ Starts(Fields(m, fmt, csid, x, peer.chunkSize), FirstChunk(s, x, peer.chunkSize))
         /\ s.whole => Fields(m, fmt, csid, x, peer.chunkSize) = FirstChunk(s, x, peer.chunkSize)
         /\ Fields(m, fmt, csid, x, peer.chunkSize) # << >>
<1> DEFINE W == Fields(m, fmt, csid, x, peer.chunkSize)
<1>1. s \in Sents /\ s.m = m /\ s.fmt = fmt /\ s.csid = csid /\ (s.whole <=> m.len <= peer.chunkSize)
  <2>1. s.m = m /\ s.fmt = fmt /\ s.csid = csid
    OBVIOUS
  <2>2. s.whole <=> m.len <= peer.chunkSize
    OBVIOUS
  <2>3. (m.len <= peer.chunkSize) \in BOOLEAN
    OBVIOUS
  <2>4. s \in Sents
    BY <2>3 DEF Sents
  <2> QED  BY <2>1, <2>2, <2>4
<1>2. x \in BOOLEAN /\ peer.chunkSize \in Nat \ {0}
  BY ConnAssumption DEF TypesOK
<1>3. W = Fields(s.m, s.fmt, s.csid, x, peer.chunkSize)
  BY <1>1
<1> HIDE DEF W
<1>4. W \in Seq(WireFields)
  BY <1>1, <1>2, <1>3, FieldsLayout
<1>5. Starts(W, FirstChunk(s, x, peer.chunkSize))
  BY <1>1, <1>2, <1>3, FieldsLayout
<1>6. s.m.len <= peer.chunkSize => W = FirstChunk(s, x, peer.chunkSize)
  BY <1>1, <1>2, <1>3, FieldsLayout
<1>7. Len(FirstChunk(s, x, peer.chunkSize)) \in Nat \ {0}
  <2>1. Len(FirstChunk(s, x, peer.chunkSize)) = ChunkFields(s, x)
    BY <1>1, <1>2, ChunkLayout
  <2>2. ChunkFields(s, x) \in Nat \ {0}
    BY <1>1, <1>2, ChunkFieldsType
  <2> QED  BY <2>1, <2>2
<1>8. W # << >>
  BY <1>4, <1>5, <1>7 DEF Starts
<1> QED  BY <1>1, <1>2, <1>4, <1>5, <1>6, <1>8 DEF W

\* Its first chunk comes to stand behind all the others.
LEMMA SendFollowing ==
  ASSUME TypesOK, SeenOK, Following, PeerSend
  PROVE  Following'
<1>1. PICK at, ext, cs : FollowingWith(at, ext, cs)
  BY DEF Following
<1>2. /\ UNCHANGED <<pc, hdr, msg, chunkSize, link, seen>> /\ link = "up"
  BY DEF PeerSend, Up
<1>3. PICK m \in Msgs, csid \in Csids, fmt \in Fmts, x \in ExtTimes :
        /\ wire' = wire \o Fields(m, fmt, csid, x, peer.chunkSize)
        /\ sent' = Append(sent, [m |-> m, fmt |-> fmt, csid |-> csid, whole |-> m.len <= peer.chunkSize])
        /\ peer'.chunkSize = IF m.typo = "SetChunkSize" THEN m.arg ELSE peer.chunkSize
  BY DEF PeerSend
<1> PICK s : s = [m |-> m, fmt |-> fmt, csid |-> csid, whole |-> m.len <= peer.chunkSize]
  OBVIOUS
<1> PICK W : W = Fields(m, fmt, csid, x, peer.chunkSize)
  OBVIOUS
<1> DEFINE n == Len(sent)
<1>4. /\ s \in Sents /\ s.m = m /\ x \in BOOLEAN
      /\ s.whole <=> m.len <= peer.chunkSize
      /\ W \in Seq(WireFields)
      /\ Starts(W, FirstChunk(s, x, peer.chunkSize))
      /\ s.whole => W = FirstChunk(s, x, peer.chunkSize)
  BY SendTypes
<1>5. /\ wire \in Seq(WireFields) /\ sent \in Seq(Sents) /\ peer.chunkSize \in Nat \ {0}
      /\ Maps(n + 1, at, ext, cs) /\ LaidIn(wire, "up", sent, Cur, at, ext, cs)
      /\ SizesIn(sent, peer.chunkSize, cs) /\ Place(at[Cur], ext[Cur])
      /\ Cooperative => cs[Cur] = ReadSize
  BY <1>1, <1>2 DEF TypesOK, FollowingWith
<1>6. Cur \in 1..(n + 1) /\ n \in Nat /\ Cur = Len(seen') + 1 /\ Cur' = Cur /\ ReadSize' = ReadSize
  BY <1>1, <1>2, Context DEF Cur, ReadSize
<1>7. peer'.chunkSize \in Nat \ {0}
  BY <1>3, <1>5, MsgsAssumption
<1>8. cs[n + 1] = peer.chunkSize /\ Len(wire) = at[n + 1]
  BY <1>5 DEF SizesIn, LaidIn
<1>9. at \in [1..(n + 1) -> Int] /\ ext \in [1..(n + 1) -> BOOLEAN] /\ cs \in [1..(n + 1) -> Nat \ {0}]
  BY <1>5 DEF Maps
<1> DEFINE at2 == Extended(at, n + 1, at[n + 1] + Len(W))
           cs2 == Extended(cs, n + 1, peer'.chunkSize)
           ext2 == Extended(Extended(ext, n, x), n + 1, FALSE)
<1>10. /\ at2 \in [1..(n + 2) -> Int] /\ at2[n + 2] = at[n + 1] + Len(W)
       /\ \A j \in 1..(n + 1) : at2[j] = at[j]
  <2>1. n \in Nat /\ Len(W) \in Nat /\ at[n + 1] + Len(W) \in Int
    <3>1. n \in Nat /\ Len(W) \in Nat /\ n + 1 \in 1..(n + 1)
      BY <1>4, <1>6
    <3>2. at[n + 1] \in Int
      BY <1>9, <3>1
    <3> QED  BY <3>1, <3>2
  <2>2. at2 = [j \in 1..(n + 2) |-> IF j = n + 2 THEN at[n + 1] + Len(W) ELSE at[j]]
    BY <2>1 DEF Extended
  <2> HIDE DEF at2
  <2>3. \A j \in 1..(n + 2) : j = n + 2 \/ at[j] \in Int
    BY <1>9, <2>1
  <2> QED  BY <2>1, <2>2, <2>3
<1>11. /\ cs2 \in [1..(n + 2) -> Nat \ {0}] /\ cs2[n + 2] = peer'.chunkSize
       /\ \A j \in 1..(n + 1) : cs2[j] = cs[j]
  <2>1. n \in Nat
    BY <1>6
  <2>2. cs2 = [j \in 1..(n + 2) |-> IF j = n + 2 THEN peer'.chunkSize ELSE cs[j]]
    BY <2>1 DEF Extended
  <2> HIDE DEF cs2
  <2>3. \A j \in 1..(n + 2) : j = n + 2 \/ cs[j] \in Nat \ {0}
    BY <1>9, <2>1
  <2> QED  BY <1>7, <2>1, <2>2, <2>3
<1>12. /\ ext2 \in [1..(n + 2) -> BOOLEAN] /\ ext2[n + 1] = x
       /\ \A j \in 1..n : ext2[j] = ext[j]
  <2>1. n + 1 \in Nat /\ (n + 1) + 1 = n + 2 /\ \A j \in 1..n : j \in 1..(n + 1)
    BY <1>6
  <2> DEFINE y == Extended(ext, n, x)
  <2>2. y \in [1..(n + 1) -> BOOLEAN] /\ y[n + 1] = x /\ \A j \in 1..n : y[j] = ext[j]
    BY <1>4, <1>6, <1>9 DEF Extended
  <2> HIDE DEF y
  <2>3. /\ Extended(y, n + 1, FALSE) \in [1..(n + 2) -> BOOLEAN]
        /\ \A j \in 1..(n + 1) : Extended(y, n + 1, FALSE)[j] = y[j]
    <3>1. Extended(y, n + 1, FALSE) = [j \in 1..(n + 2) |-> IF j = n + 2 THEN FALSE ELSE y[j]]
      BY <1>6 DEF Extended
    <3>2. \A j \in 1..(n + 2) : j = n + 2 \/ (j \in 1..(n + 1) /\ y[j] \in BOOLEAN)
      <4>1. \A j \in 1..(n + 2) : j = n + 2 \/ j \in 1..(n + 1)
        BY <1>6
      <4>2. \A j \in 1..(n + 1) : y[j] \in BOOLEAN
        BY <2>2
      <4> QED  BY <4>1, <4>2
    <3>3. \A j \in 1..(n + 1) : j \in 1..(n + 2) /\ j # n + 2
      BY <1>6
    <3> QED  BY <3>1, <3>2, <3>3
  <2>4. n + 1 \in 1..(n + 1)
    BY <1>6
  <2> QED  BY <2>1, <2>2, <2>3, <2>4 DEF y
<1> HIDE DEF at2, cs2, ext2
<1>13. Maps(n + 2, at2, ext2, cs2)
  BY <1>10, <1>11, <1>12 DEF Maps
<1>14. LaidIn(wire \o W, "up", Append(sent, s), Cur, at2, ext2, cs2)
  <2>1. /\ wire \in Seq(WireFields) /\ sent \in Seq(Sents)
        /\ s \in Sents /\ W \in Seq(WireFields) /\ x \in BOOLEAN
    BY <1>4, <1>5
  <2>2. Cur \in 1..(Len(sent) + 1) /\ Maps(Len(sent) + 1, at, ext, cs) /\ Maps(Len(sent) + 2, at2, ext2, cs2)
    BY <1>5, <1>6, <1>13
  <2>3. LaidIn(wire, "up", sent, Cur, at, ext, cs)
    BY <1>5
  <2>4. \A j \in 1..(Len(sent) + 1) : at2[j] = at[j] /\ cs2[j] = cs[j]
    BY <1>10, <1>11
  <2>5. (\A j \in 1..Len(sent) : ext2[j] = ext[j]) /\ ext2[Len(sent) + 1] = x
    BY <1>12
  <2>6. at2[Len(sent) + 2] = at[Len(sent) + 1] + Len(W)
    BY <1>10
  <2>7. Starts(W, FirstChunk(s, x, cs[Len(sent) + 1]))
    BY <1>4, <1>8
  <2>8. s.whole => W = FirstChunk(s, x, cs[Len(sent) + 1])
    BY <1>4, <1>8
  <2> HIDE DEF n
  <2> QED  BY SMTT(60), <2>1, <2>2, <2>3, <2>4, <2>5, <2>6, <2>7, <2>8, AppendLaid
<1>15. SizesIn(Append(sent, s), peer'.chunkSize, cs2)
  BY <1>3, <1>4, <1>5, <1>11, AppendSizes
<1>16. /\ sent' = Append(sent, s) /\ wire' = wire \o W /\ Len(sent') + 1 = n + 2 /\ Len(sent') = n + 1
       /\ \A j \in 1..n : sent'[j] = sent[j]
  BY <1>3, <1>5
<1> PICK a, b, c : a = at2 /\ b = ext2 /\ c = cs2
  OBVIOUS
<1> PICK p : p = at[Cur]
  OBVIOUS
<1> PICK e : e = ext2[Cur]
  OBVIOUS
<1>17. a[Len(seen') + 1] = p /\ e = b[Len(seen') + 1] /\ (Cooperative => c[Len(seen') + 1] = ReadSize')
  BY <1>5, <1>6, <1>10, <1>11
<1>18. Place(p, e)'
  <2>1. Place(p, ext[Cur])
    BY <1>5
  <2>2. ASSUME pc \in Inside PROVE Cur' <= Len(sent') /\ InChunk(p, sent[Cur], e)'
    <3>1. Cur <= n /\ InChunk(p, sent[Cur], ext[Cur])
      BY <2>1, <2>2 DEF Place
    <3>2. Cur \in 1..n /\ ext[Cur] = e /\ sent'[Cur] = sent[Cur]
      BY <1>6, <1>12, <1>16, <3>1
    <3>3. InChunk(p, sent[Cur], e)'
      BY <1>2, <1>6, <3>1, <3>2 DEF InChunk
    <3> QED  BY <1>6, <1>16, <3>1, <3>3
  <2>3. Len(wire) >= p
    <3>1. CASE Cur = n + 1
      BY <1>8, <3>1
    <3>2. CASE Cur # n + 1
      <4>1. Cur \in Cur..n /\ Cur \in 1..n /\ Cur \in 1..(n + 1) /\ n + 1 \in 1..(n + 1)
        BY <1>6, <3>2
      <4>2. at[Cur] + ChunkFields(sent[Cur], ext[Cur]) <= at[n + 1]
        BY <1>5, <4>1 DEF LaidIn
      <4>3. sent[Cur] \in Sents /\ ext[Cur] \in BOOLEAN /\ at[Cur] \in Int /\ at[n + 1] \in Int
        <5>1. sent[Cur] \in Sents
          BY <1>5, <4>1
        <5>2. ext[Cur] \in BOOLEAN /\ at[Cur] \in Int /\ at[n + 1] \in Int
          BY <1>9, <4>1
        <5> QED  BY <5>1, <5>2
      <4>4. ChunkFields(sent[Cur], ext[Cur]) \in Nat
        BY <4>3, ChunkFieldsType
      <4> QED  BY <1>8, <4>2, <4>3, <4>4
    <3> QED  BY <3>1, <3>2
  <2>4. \A i \in 1..Len(wire) : wire'[i] = wire[i]
    BY <1>4, <1>5, <1>16, ConcatProperties
  <2>5. pc = "challenge" => p = 2 /\ \A i \in 1..2 : i <= Len(wire') => wire'[i] = Handshakes(i)'
    <3>1. ASSUME pc = "challenge", NEW i \in 1..2 PROVE wire'[i] = Handshakes(i)'
      <4>1. p = 2 /\ i \in 1..Len(wire) /\ i <= Len(wire)
        BY <1>5, <2>1, <2>3, <3>1 DEF Place
      <4>2. wire[i] = Handshakes(i)
        BY <2>1, <3>1, <4>1 DEF Place
      <4> QED  BY <2>4, <4>1, <4>2 DEF Handshakes
    <3> QED  BY <2>1, <3>1 DEF Place
  <2>6. pc = "response" => p = 1 /\ (Len(wire') >= 1 => wire'[1] = Handshakes(2)')
    <3>1. ASSUME pc = "response" PROVE wire'[1] = Handshakes(2)'
      <4>1. p = 1 /\ 1 \in 1..Len(wire) /\ Len(wire) >= 1
        BY <1>5, <2>1, <2>3, <3>1 DEF Place
      <4>2. wire[1] = Handshakes(2)
        BY <2>1, <3>1, <4>1 DEF Place
      <4> QED  BY <2>4, <4>1, <4>2 DEF Handshakes
    <3> QED  BY <2>1, <3>1 DEF Place
  <2> QED  BY <1>2, <2>1, <2>2, <2>5, <2>6 DEF Place
<1>19. /\ Maps(Len(sent') + 1, a, b, c) /\ SizesIn(sent', peer'.chunkSize, c)
       /\ LaidIn(wire', link', sent', Len(seen') + 1, a, b, c)
  BY <1>2, <1>6, <1>13, <1>14, <1>15, <1>16
<1> QED  BY <1>17, <1>18, <1>19, FollowingNext

\* Behind the rest of the chunk that was not followed, too.
LEMMA SendLost ==
  ASSUME TypesOK, Lost, PeerSend
  PROVE  Lost'
<1>1. UNCHANGED <<pc, msg, link>> /\ link = "up"
  BY DEF PeerSend, Up
<1>2. wire # << >> /\ wire[1].f \in {"extended", "body"}
  BY <1>1 DEF Lost, Up
<1>3. PICK m \in Msgs, csid \in Csids, fmt \in Fmts, x \in ExtTimes :
        wire' = wire \o Fields(m, fmt, csid, x, peer.chunkSize)
  BY DEF PeerSend
<1> PICK s : s = [m |-> m, fmt |-> fmt, csid |-> csid, whole |-> m.len <= peer.chunkSize]
  OBVIOUS
<1>4. Fields(m, fmt, csid, x, peer.chunkSize) \in Seq(WireFields)
  BY SendTypes
<1>5. wire \in Seq(WireFields) /\ Len(wire) >= 1
  BY <1>2 DEF TypesOK
<1>6. wire' # << >> /\ wire'[1] = wire[1]
  BY <1>3, <1>4, <1>5, ConcatProperties
<1> QED  BY <1>1, <1>2, <1>6 DEF Lost

-----------------------------------------------------------------------------
(* Every step *)

\* The actions of serve() between two messages.
Serves == serveNew \/ serveMessage \/ serveUserMessage \/ serveCommand \/ sendReply

(***************************************************************************)
(* The built-in handler of no message ends the connection, but for a type  *)
(* that has none.                                                          *)
(***************************************************************************)
LEMMA Unserved ==
  ASSUME ConnInv, pc = "message", msg.typo \in {"Zero", "Unhandled"}
  PROVE  Excused
<1> SUFFICES ASSUME Cooperative PROVE \E i \in 1..Len(sent) : ~Followable(sent[i])
  BY DEF Excused
<1>1. SeenOK /\ FollowsPeer /\ seen \in Seq(Msgs \cup {None}) /\ sent \in Seq(Sents)
  BY DEF ConnInv, TypesOK
<1> PICK i : i = Len(seen)
  OBVIOUS
<1>2. i \in 1..Len(seen) /\ i \in 1..Len(sent) /\ msg = seen[i] /\ sent[i] \in Sents
  BY <1>1 DEF SeenOK
<1>3. seen[i] = sent[i].m \/ Ghost(i)
  BY <1>1, <1>2 DEF FollowsPeer
<1>4. CASE seen[i] = sent[i].m
  BY <1>2, <1>4 DEF Followable
<1>5. CASE Ghost(i)
  <2>1. sent[i].fmt >= 2 /\ sent[i].fmt \in 0..3
    BY <1>2, <1>5, SentTypes DEF Ghost
  <2>2. ~(sent[i].fmt <= 1)
    BY <2>1
  <2> QED  BY <1>2, <2>2 DEF Followable
<1> QED  BY <1>3, <1>4, <1>5

\* A message dispatched, by the application or by the built-in handler.
LEMMA MessageStep ==
  ASSUME ConnInv, serveMessage
  PROVE  /\ Continues
         /\ pc' \in {"basic", "user", "command", "ended"}
         /\ pc' = "ended" \/ (Cooperative => msg.typo # "Zero")
         /\ chunkSize' \in Nat \ {0} /\ refused' \in BOOLEAN
<1>1. /\ pc = "message" /\ UNCHANGED <<hdr, msg, replies, link, wire, out, peer, sent, seen>>
  BY DEF serveMessage
<1>2. /\ TypesOK /\ SeenOK /\ (Following \/ Lost) /\ chunkSize \in Nat \ {0} /\ refused \in BOOLEAN
      /\ msg \in Msgs \cup {None}
  BY <1>1 DEF ConnInv, TypesOK, Closed
<1>3. ReadSize = IF msg.typo = "SetChunkSize" THEN msg.arg ELSE chunkSize
  BY <1>1 DEF ReadSize
<1>4. pc' # "message" => ReadSize' = chunkSize'
  BY DEF ReadSize
<1>5. CASE msg.typo \in Claims /\ Go("basic") /\ UNCHANGED <<ackVars, chunkSize, refused>>
  <2>1. pc' = "basic" /\ chunkSize' = chunkSize /\ refused' = refused
    BY <1>5 DEF Go
  <2>2. Cooperative => msg.typo # "Zero" /\ msg.typo # "SetChunkSize"
    BY <1>5 DEF Cooperative
  <2>3. Following => Following'
    BY <1>1, <1>2, <1>3, <1>4, <2>1, <2>2, Stays DEF Serving
  <2>4. Lost => Lost'
    BY <1>1, <1>5, <2>1 DEF Lost, None, Up
  <2> QED  BY <1>2, <2>1, <2>2, <2>3, <2>4 DEF Continues, Closed
<1>6. CASE AppError /\ UNCHANGED <<ackVars, chunkSize>>
  BY <1>2, <1>6 DEF AppError, End, Continues, Closed, Excused
<1>7. CASE Builtin(msg.typo) /\ UNCHANGED refused
  <2>1. CASE msg.typo \in {"Zero", "Unhandled"}
    <3>1. pc' = "ended" /\ chunkSize' = chunkSize
      BY <1>7, <2>1 DEF Builtin, End
    <3>2. Excused
      BY <1>1, <2>1, Unserved
    <3>3. Excused'
      BY <1>1, <1>7, <3>2 DEF Excused, Up
    <3> QED  BY <1>2, <1>7, <3>1, <3>3 DEF Continues, Closed
  <2>2. CASE msg.typo \notin {"Zero", "Unhandled"}
    <3>1. ~Lost
      BY <1>1, <2>2 DEF Lost, None
    <3>2. /\ pc' \in {"basic", "user", "command"}
          /\ chunkSize' = IF msg.typo = "SetChunkSize" THEN msg.arg ELSE chunkSize
      BY <1>7, <2>2 DEF Builtin, serveSetChunkSize, serveWinAckSize, serveAmf0Cmd, Go
    <3>3. Following'
      BY <1>1, <1>2, <1>3, <1>4, <3>1, <3>2, Stays DEF Serving
    <3>4. chunkSize' \in Nat \ {0}
      <4>1. msg.typo = "SetChunkSize" => msg \in Msgs
        BY <1>2 DEF None
      <4> QED  BY <1>2, <3>2, <4>1, MsgsAssumption
    <3> QED  BY <1>2, <1>7, <2>2, <3>2, <3>3, <3>4 DEF Continues, Closed
  <2> QED  BY <2>1, <2>2
<1> QED  BY <1>5, <1>6, <1>7 DEF serveMessage

\* And the other steps between two messages.
LEMMA ServesStep ==
  ASSUME ConnInv, Serves
  PROVE  /\ Continues
         /\ pc' \in {"basic", "user", "command", "reply", "ended"}
         /\ pc = "message" => pc' = "ended" \/ (Cooperative => msg.typo # "Zero")
         /\ chunkSize' \in Nat \ {0} /\ refused' \in BOOLEAN
         /\ UNCHANGED <<hdr, msg, link, wire, peer, sent, seen>>
         /\ pc \in Serving
<1>1. CASE serveMessage
  BY <1>1, MessageStep DEF serveMessage, Serving
<1>2. CASE ~serveMessage
  <2>1. /\ pc \in Serving /\ pc # "message"
        /\ UNCHANGED <<hdr, msg, link, wire, peer, sent, seen, chunkSize>>
    BY <1>2 DEF Serves, serveNew, serveUserMessage, serveCommand, sendReply, Serving
  <2>2. pc # "basic"
    BY <1>2 DEF Serves, serveNew, serveUserMessage, serveCommand, sendReply
  <2>3. TypesOK /\ SeenOK /\ Following /\ chunkSize \in Nat \ {0} /\ refused \in BOOLEAN
    BY <2>1, <2>2 DEF ConnInv, TypesOK, Closed, Serving, Lost
  <2>4. CASE serveNew /\ AppError
    BY <2>1, <2>3, <2>4 DEF AppError, End, Continues, Closed, Excused
  <2>5. CASE ~(serveNew /\ AppError)
    <3>1. pc' \in {"basic", "reply"} /\ refused' = refused
      BY <1>2, <2>5 DEF Serves, serveNew, serveUserMessage, serveUserEvent, serveCommand, serveLogged,
                        sendReply, Go
    <3>2. ReadSize' = ReadSize
      BY <2>1, <3>1 DEF ReadSize
    <3>3. Following'
      BY <2>1, <2>3, <3>1, <3>2, Stays DEF Serving
    <3> QED  BY <2>1, <2>3, <3>1, <3>3 DEF Continues, Closed
  <2> QED  BY <2>4, <2>5
<1> QED  BY <1>1, <1>2

(***************************************************************************)
(* The steps that give the connection up.                                  *)
(***************************************************************************)
LEMMA GiveUpStep ==
  ASSUME ConnInv, readError \/ ackError \/ misread
  PROVE  /\ Continues
         /\ pc' \in Closed /\ (Cooperative => pc' # "misread")
         /\ pc \in ReadingStates
         /\ UNCHANGED <<hdr, msg, chunkSize, link, peer, sent, seen, refused>>
         /\ wire' = wire \/ (wire # << >> /\ wire' = Tail(wire))
<1>1. /\ UNCHANGED <<hdr, msg, chunkSize, link, peer, sent, seen, refused>>
      /\ pc \in ReadingStates /\ Reading
  BY DEF readError, ackError, misread, Reading
<1>2. CASE readError \/ ackError
  <2>1. ~Up /\ pc' = "ended" /\ link' = link
    BY <1>1, <1>2 DEF readError, ackError, AckFails, End
  <2>2. wire' = wire \/ (wire # << >> /\ wire' = Tail(wire))
    BY <1>2 DEF readError, ackError, Consume, Reads
  <2> QED  BY <1>1, <2>1, <2>2 DEF Continues, Closed, Excused, Up
<1>3. CASE misread
  <2>1. wire # << >> /\ wire' = wire /\ ~Reads(FieldAt(pc), Needed(pc)) /\ pc' = "misread"
    BY <1>3 DEF misread
  <2>2. ~Cooperative
    <3> SUFFICES ASSUME Cooperative PROVE FALSE
      OBVIOUS
    <3>1. TypesOK /\ SeenOK /\ (Following \/ Lost)
      BY <1>1 DEF ConnInv, Closed, ReadingStates
    <3>2. CASE Following
      BY <1>1, <2>1, <3>1, <3>2, TakesItFor
    <3>3. CASE Lost
      BY <1>1, <3>3 DEF Lost, Cooperative, ReadingStates
    <3> QED  BY <3>1, <3>2, <3>3
  <2> QED  BY <1>1, <2>1, <2>2 DEF Continues, Closed, Excused
<1> QED  BY <1>2, <1>3

\* A step that offers nothing leaves FollowsPeer as it was, unless it goes on
\* after the empty message.
LEMMA KeepsFollowing ==
  ASSUME SeenOK, FollowsPeer, UNCHANGED <<seen, sent>>,
         Cooperative => pc' # "misread",
         Cooperative => pc \notin {"message", "ended"} \/ pc' \in {"message", "ended"}
                        \/ (pc = "message" /\ msg.typo # "Zero")
  PROVE  FollowsPeer'
<1> SUFFICES ASSUME Cooperative PROVE /\ Len(seen) <= Len(sent)
                                      /\ \A i \in 1..Len(seen) : seen[i] = sent[i].m \/ Ghost(i)'
  BY DEF FollowsPeer, Cooperative
<1>1. Len(seen) <= Len(sent)
  BY DEF SeenOK
<1>2. ASSUME NEW i \in 1..Len(seen) PROVE seen[i] = sent[i].m \/ Ghost(i)'
  <2>1. seen[i] = sent[i].m \/ Ghost(i)
    BY <1>2 DEF FollowsPeer
  <2>2. ASSUME Ghost(i) PROVE Ghost(i)'
    <3>1. i = Len(seen) /\ pc \in {"message", "ended"} /\ seen[i] = None /\ sent[i].fmt >= 2
      BY <2>2 DEF Ghost
    <3>2. pc = "message" => msg.typo = "Zero"
      BY <3>1 DEF SeenOK, None
    <3> QED  BY <3>1, <3>2 DEF Ghost
  <2> QED  BY <2>1, <2>2
<1> QED  BY <1>1, <1>2

(***************************************************************************)
(* A step of serve() that delivers no message.                             *)
(***************************************************************************)
LEMMA ServeKeeps ==
  ASSUME ConnInv, Continues, UNCHANGED <<sent, seen, msg, peer, link>>,
         pc \notin Closed, pc' \in States, pc' # "message",
         hdr' \in HeaderType, refused' \in BOOLEAN, chunkSize' \in Nat \ {0},
         wire' = wire \/ (wire # << >> /\ wire' = Tail(wire)),
         Cooperative => pc' # "misread",
         pc = "message" => pc' = "ended" \/ (Cooperative => msg.typo # "Zero")
  PROVE  ConnInv'
<1>1. TypesOK /\ SeenOK /\ FollowsPeer
  BY DEF ConnInv
<1>2. wire' \in Seq(WireFields)
  <2>1. CASE wire' = wire
    BY <1>1, <2>1 DEF TypesOK
  <2>2. CASE wire # << >> /\ wire' = Tail(wire)
    BY <1>1, <2>2 DEF TypesOK
  <2> QED  BY <2>1, <2>2
<1>3. TypesOK'
  BY <1>1, <1>2 DEF TypesOK, States
<1>4. SeenOK'
  BY <1>1 DEF SeenOK
<1>5. FollowsPeer'
  <2>1. pc # "ended"
    BY DEF Closed
  <2> QED  BY <1>1, <2>1, KeepsFollowing
<1> QED  BY <1>3, <1>4, <1>5 DEF ConnInv, Continues

\* The step that may deliver one.
LEMMA PumpKeeps ==
  ASSUME ConnInv, pumpMessage
  PROVE  ConnInv'
<1>1. /\ pc = "body" /\ UNCHANGED <<hdr, chunkSize, link, peer, sent, refused>>
      /\ wire' = wire \/ (wire # << >> /\ wire' = Tail(wire))
  BY ReadFacts DEF pumpMessage
<1>2. TypesOK /\ SeenOK /\ FollowsPeer /\ (Following \/ Lost)
  BY <1>1 DEF ConnInv, Closed
<1>3. /\ Continues
      /\ \/ UNCHANGED <<msg, seen>> /\ pc' \in Closed
         \/ /\ pc' = "message" /\ seen' = Append(seen, msg') /\ Cur <= Len(sent)
            /\ msg' = sent[Cur].m \/ (msg' = None /\ sent[Cur].fmt >= 2)
            /\ msg' \in Msgs \cup {None}
  BY <1>2, BodyStep
<1>4. CASE UNCHANGED <<msg, seen>> /\ pc' \in Closed
  <2>1. hdr' \in HeaderType /\ refused' \in BOOLEAN /\ chunkSize' \in Nat \ {0}
    BY <1>1, <1>2 DEF TypesOK
  <2>2. pc' \in {"ended", "panicked"}
    BY <1>1, <1>4 DEF pumpMessage, Deliver, Go, End, Closed
  <2>3. pc \notin Closed /\ pc' \in States /\ pc' # "message" /\ pc' # "misread" /\ pc # "message"
    BY <1>1, <2>2 DEF Closed, States
  <2> QED  BY <1>1, <1>3, <1>4, <2>1, <2>3, ServeKeeps
<1>5. CASE /\ pc' = "message" /\ seen' = Append(seen, msg') /\ Cur <= Len(sent)
           /\ msg' = sent[Cur].m \/ (msg' = None /\ sent[Cur].fmt >= 2)
           /\ msg' \in Msgs \cup {None}
  <2>1. /\ seen \in Seq(Msgs \cup {None}) /\ Len(seen) \in Nat /\ Cur = Len(seen) + 1
        /\ seen' \in Seq(Msgs \cup {None}) /\ Len(seen') = Cur /\ seen'[Cur] = msg'
        /\ \A i \in 1..Len(seen) : seen'[i] = seen[i]
    BY <1>2, <1>5 DEF TypesOK, Cur
  <2>2. wire' \in Seq(WireFields)
    <3>1. CASE wire' = wire
      BY <1>2, <3>1 DEF TypesOK
    <3>2. CASE wire # << >> /\ wire' = Tail(wire)
      BY <1>2, <3>2 DEF TypesOK
    <3> QED  BY <1>1, <3>1, <3>2
  <2>3. TypesOK'
    BY <1>1, <1>2, <1>5, <2>1, <2>2 DEF TypesOK, Serving
  <2>4. SeenOK'
    <3>1. seen' # << >> /\ seen'[Len(seen')] = msg' /\ Len(seen') <= Len(sent')
      BY <1>1, <1>5, <2>1
    <3> QED  BY <3>1 DEF SeenOK
  <2>5. FollowsPeer'
    <3> SUFFICES ASSUME Cooperative
                 PROVE  \A i \in 1..Len(seen') : seen'[i] = sent[i].m \/ Ghost(i)'
      BY <1>1, <1>5, <2>1 DEF FollowsPeer, Cooperative
    <3> PICK k : k = Cur
      OBVIOUS
    <3>1. ASSUME NEW i \in 1..Len(seen'), i # k PROVE seen'[i] = sent[i].m
      <4>1. i \in 1..Len(seen) /\ seen'[i] = seen[i]
        BY <2>1, <3>1
      <4>2. ~Ghost(i)
        BY <1>1 DEF Ghost
      <4> QED  BY <1>2, <4>1, <4>2 DEF FollowsPeer
    <3>2. seen'[k] = sent[k].m \/ Ghost(k)'
      BY <1>1, <1>5, <2>1 DEF Ghost
    <3> QED  BY <3>1, <3>2
  <2>6. pc' \notin Closed
    BY <1>5 DEF Closed
  <2> QED  BY <1>3, <2>3, <2>4, <2>5, <2>6 DEF ConnInv, Continues
<1> QED  BY <1>3, <1>4, <1>5

\* All of serve(), then the peer, the cut and what changes nothing.
LEMMA ServeStep ==
  ASSUME ConnInv, serve
  PROVE  ConnInv'
<1>1. ASSUME pc \notin Closed PROVE TypesOK /\ SeenOK /\ (Following \/ Lost)
  BY <1>1 DEF ConnInv
<1>2. hdr \in HeaderType /\ chunkSize \in Nat \ {0} /\ refused \in BOOLEAN
  BY DEF ConnInv, TypesOK
<1>3. CASE handshake
  <2>1. /\ pc \in {"challenge", "response"}
        /\ UNCHANGED <<hdr, msg, chunkSize, link, peer, sent, seen>>
        /\ pc' \in {"response", "ended", "panicked", "serveNew"}
        /\ refused' \in BOOLEAN
        /\ wire # << >> /\ wire' = Tail(wire)
    BY <1>2, <1>3, ReadFacts DEF handshake, Go
  <2>2. pc \notin Closed /\ pc' \in States /\ pc' # "message" /\ pc' # "misread" /\ pc # "message"
    BY <2>1 DEF Closed, States, ReadingStates, Serving
  <2>3. Continues
    BY <1>1, <1>3, <2>2, HandshakeStep
  <2> QED  BY <1>2, <2>1, <2>2, <2>3, ServeKeeps
<1>4. CASE readBasicHeader \/ readChunkMessageHeader
  <2>1. /\ UNCHANGED <<msg, chunkSize, link, peer, sent, seen, refused>>
        /\ pc \in {"basic", "csid", "timestamp", "length", "msid", "extended"}
        /\ wire # << >> /\ wire' = Tail(wire)
    BY <1>4, ReadFacts DEF readBasicHeader, readChunkMessageHeader
  <2>2. pc' \in {"csid", "ended", "timestamp", "length", "msid", "extended", "body"}
    BY <1>4 DEF readBasicHeader, readChunkMessageHeader, Go, AfterBasic, AfterFixed
  <2>3. pc \notin Closed /\ pc' \in States /\ pc' # "message" /\ pc' # "misread" /\ pc # "message"
    BY <2>1, <2>2 DEF Closed, States, ReadingStates, Serving
  <2>4. Continues /\ hdr' \in HeaderType
    BY <1>1, <1>4, <2>3, BasicHeaderStep, MessageHeaderStep
  <2> QED  BY <1>2, <2>1, <2>3, <2>4, ServeKeeps
<1>5. CASE Serves
  <2>1. /\ Continues
        /\ pc' \in {"basic", "user", "command", "reply", "ended"}
        /\ pc = "message" => pc' = "ended" \/ (Cooperative => msg.typo # "Zero")
        /\ chunkSize' \in Nat \ {0} /\ refused' \in BOOLEAN
        /\ UNCHANGED <<hdr, msg, link, wire, peer, sent, seen>>
        /\ pc \in Serving
    BY <1>5, ServesStep
  <2>2. pc \notin Closed /\ pc' \in States /\ pc' # "message" /\ pc' # "misread"
    BY <2>1 DEF Closed, States, ReadingStates, Serving
  <2> QED  BY <1>2, <2>1, <2>2, ServeKeeps
<1>6. CASE readError \/ ackError \/ misread
  <2>1. /\ Continues
        /\ pc' \in Closed /\ (Cooperative => pc' # "misread")
        /\ pc \in ReadingStates
        /\ UNCHANGED <<hdr, msg, chunkSize, link, peer, sent, seen, refused>>
        /\ wire' = wire \/ (wire # << >> /\ wire' = Tail(wire))
    BY <1>6, GiveUpStep
  <2>2. pc \notin Closed /\ pc' \in States /\ pc' # "message" /\ pc # "message"
    BY <2>1 DEF Closed, States, ReadingStates
  <2> QED  BY <1>2, <2>1, <2>2, ServeKeeps
<1> QED  BY <1>3, <1>4, <1>5, <1>6, PumpKeeps DEF serve, Serves

LEMMA SendKeeps ==
  ASSUME ConnInv, PeerSend
  PROVE  ConnInv'
<1>1. /\ TypesOK /\ SeenOK /\ FollowsPeer /\ pc \notin Closed /\ (Following \/ Lost)
      /\ UNCHANGED <<pc, hdr, msg, chunkSize, link, seen, refused>>
  BY DEF ConnInv, PeerSend
<1>2. Following' \/ Lost'
  BY <1>1, SendFollowing, SendLost
<1>3. PICK m \in Msgs, csid \in Csids, fmt \in Fmts, x \in ExtTimes :
        /\ wire' = wire \o Fields(m, fmt, csid, x, peer.chunkSize)
        /\ sent' = Append(sent, [m |-> m, fmt |-> fmt, csid |-> csid, whole |-> m.len <= peer.chunkSize])
        /\ peer'.chunkSize = IF m.typo = "SetChunkSize" THEN m.arg ELSE peer.chunkSize
  BY DEF PeerSend
<1> PICK s : s = [m |-> m, fmt |-> fmt, csid |-> csid, whole |-> m.len <= peer.chunkSize]
  OBVIOUS
<1>4. s \in Sents /\ Fields(m, fmt, csid, x, peer.chunkSize) \in Seq(WireFields)
  <2>1. s \in Sents
    BY <1>1, SendTypes
  <2>2. Fields(m, fmt, csid, x, peer.chunkSize) \in Seq(WireFields)
    BY <1>1, SendTypes
  <2> QED  BY <2>1, <2>2
<1>5. /\ sent \in Seq(Sents) /\ sent' = Append(sent, s) /\ sent' \in Seq(Sents)
      /\ Len(sent') = Len(sent) + 1 /\ \A i \in 1..Len(sent) : sent'[i] = sent[i]
  BY <1>1, <1>3, <1>4 DEF TypesOK
<1>6. wire' \in Seq(WireFields)
  <2>1. wire \in Seq(WireFields)
    BY <1>1 DEF TypesOK
  <2> QED  BY <1>3, <1>4, <2>1, ConcatProperties
<1>7. peer'.chunkSize \in Nat \ {0}
  BY <1>1, <1>3, MsgsAssumption DEF TypesOK
<1>8. TypesOK'
  BY <1>1, <1>5, <1>6, <1>7 DEF TypesOK
<1>9. SeenOK' /\ Len(seen) \in Nat /\ Len(seen) <= Len(sent) /\ Len(sent) \in Nat
  BY <1>1, <1>5 DEF SeenOK, TypesOK
<1>10. FollowsPeer'
  <2> SUFFICES ASSUME Cooperative
               PROVE  /\ pc # "misread" /\ Len(seen) <= Len(sent')
                      /\ \A i \in 1..Len(seen) : seen[i] = sent'[i].m \/ Ghost(i)'
    BY <1>1 DEF FollowsPeer, Cooperative
  <2>1. pc # "misread" /\ Len(seen) <= Len(sent')
    BY <1>5, <1>9, <1>1 DEF Closed
  <2>2. ASSUME NEW i \in 1..Len(seen) PROVE seen[i] = sent'[i].m \/ Ghost(i)'
    <3>1. sent'[i] = sent[i]
      BY <1>5, <1>9
    <3>2. seen[i] = sent[i].m \/ Ghost(i)
      BY <1>1 DEF FollowsPeer
    <3> QED  BY <1>1, <3>1, <3>2 DEF Ghost
  <2> QED  BY <2>1, <2>2
<1> QED  BY <1>1, <1>2, <1>8, <1>9, <1>10 DEF ConnInv

LEMMA CutKeeps ==
  ASSUME ConnInv, Cut
  PROVE  ConnInv'
<1>1. /\ TypesOK /\ SeenOK /\ FollowsPeer
      /\ UNCHANGED <<pc, hdr, msg, chunkSize, peer, sent, seen, refused>> /\ link' = "cut"
  BY DEF ConnInv, Cut
<1>2. PICK k \in 0..Len(wire) : wire' = SubSeq(wire, 1, k)
  BY DEF Cut
<1>3. wire' \in Seq(WireFields)
  BY <1>1, <1>2, SubSeqProperties DEF TypesOK
<1>4. TypesOK' /\ SeenOK'
  BY <1>1, <1>3 DEF TypesOK, SeenOK
<1>5. FollowsPeer'
  BY <1>1 DEF FollowsPeer, Cooperative, Ghost
<1>6. pc' \notin Closed => Following' \/ Lost'
  BY <1>1, CutFollowing, CutLost DEF ConnInv
<1>7. Excused'
  BY <1>1 DEF Excused, Up
<1> QED  BY <1>4, <1>5, <1>6, <1>7 DEF ConnInv

LEMMA StutterKeeps ==
  ASSUME ConnInv, UNCHANGED vars
  PROVE  ConnInv'
<1>1. /\ wire' = wire /\ link' = link /\ sent' = sent /\ seen' = seen /\ peer' = peer
      /\ pc' = pc /\ hdr' = hdr /\ msg' = msg /\ chunkSize' = chunkSize /\ refused' = refused
  BY DEF vars, connVars
<1>2. TypesOK' /\ SeenOK'
  BY <1>1 DEF ConnInv, TypesOK, SeenOK
<1>3. FollowsPeer'
  BY <1>1 DEF ConnInv, FollowsPeer, Cooperative, Ghost
<1>4. Excused => Excused'
  BY <1>1 DEF Excused, Up, Cooperative
<1>5. Lost => Lost'
  BY <1>1 DEF Lost, Up
<1>6. ASSUME Following PROVE Following'
  <2>1. PICK at, ext, cs : FollowingWith(at, ext, cs)
    BY <1>6 DEF Following
  <2> PICK p : p = at[Cur]
    OBVIOUS
  <2> PICK e : e = ext[Cur]
    OBVIOUS
  <2>2. Cur = Len(seen') + 1 /\ Cur' = Cur /\ ReadSize' = ReadSize
    BY <1>1 DEF Cur, ReadSize
  <2>3. Place(p, e)'
    <3>1. Place(p, e)
      BY <2>1 DEF FollowingWith
    <3>2. InChunk(p, sent[Cur], e) => InChunk(p, sent[Cur], e)'
      BY <1>1, <2>2 DEF InChunk
    <3> QED  BY <1>1, <2>2, <3>1, <3>2 DEF Place, Handshakes
  <2>4. /\ Maps(Len(sent') + 1, at, ext, cs) /\ SizesIn(sent', peer'.chunkSize, cs)
        /\ LaidIn(wire', link', sent', Len(seen') + 1, at, ext, cs)
        /\ p = at[Len(seen') + 1] /\ e = ext[Len(seen') + 1]
        /\ Cooperative => cs[Len(seen') + 1] = ReadSize'
    BY <1>1, <2>1, <2>2 DEF FollowingWith
  <2> QED  BY <2>3, <2>4, FollowingNext
<1> QED  BY <1>1, <1>2, <1>3, <1>4, <1>5, <1>6 DEF ConnInv

\* A new connection waits for the two messages of the handshake.
LEMMA InitConn ==
  ASSUME ConnInit
  PROVE  ConnInv
<1>1. /\ pc = "challenge" /\ hdr = NoHeader /\ msg = None
      /\ chunkSize = DefaultReadChunkSize /\ peer.chunkSize = DefaultReadChunkSize
      /\ link = "up" /\ refused = FALSE
      /\ wire = [i \in 1..2 |-> Field("handshake", HandshakeSizes[i], 0)]
      /\ sent = << >> /\ seen = << >>
  BY DEF ConnInit
<1>2. "handshake" \in FieldNames /\ 0 \in Values /\ \A i \in 1..2 : HandshakeSizes[i] \in Int
  BY FieldsAssumption, WordAssumption DEF FieldNames, Values, ReadSizes
<1>3. \A i \in 1..2 : Field("handshake", HandshakeSizes[i], 0) \in WireFields
  BY <1>2, FieldType
<1>4. wire \in Seq(WireFields) /\ Len(wire) = 2 /\ \A i \in 1..2 : wire[i] = Handshakes(i)
  BY <1>1, <1>3 DEF Handshakes
<1>5. hdr \in HeaderType
  BY <1>1, WordAssumption DEF NoHeader, HeaderType, ReadSizes, Types
<1>6. TypesOK
  <2>1. sent \in Seq(Sents) /\ seen \in Seq(Msgs \cup {None})
    BY <1>1
  <2> QED  BY <1>1, <1>4, <1>5, <2>1, ConnAssumption DEF TypesOK, ReadingStates
<1>7. SeenOK /\ FollowsPeer
  BY <1>1 DEF SeenOK, FollowsPeer
<1>8. Following
  <2> PICK at : at = [j \in 1..1 |-> 2]
    OBVIOUS
  <2> PICK ext : ext = [j \in 1..1 |-> FALSE]
    OBVIOUS
  <2> PICK cs : cs = [j \in 1..1 |-> DefaultReadChunkSize]
    OBVIOUS
  <2>1. /\ Cur = 1 /\ Len(sent) = 0 /\ 1 \in 1..1
        /\ at[1] = 2 /\ ext[1] = FALSE /\ cs[1] = DefaultReadChunkSize
    BY <1>1 DEF Cur
  <2>2. Maps(Len(sent) + 1, at, ext, cs)
    BY <2>1, ConnAssumption DEF Maps
  <2>3. SizesIn(sent, peer.chunkSize, cs)
    BY <1>1, <2>1 DEF SizesIn
  <2>4. LaidIn(wire, link, sent, Cur, at, ext, cs)
    BY <1>4, <2>1 DEF LaidIn
  <2>5. Place(at[Cur], ext[Cur])
    BY <1>1, <1>4, <2>1 DEF Place, Serving, Inside
  <2>6. cs[Cur] = ReadSize
    BY <1>1, <2>1 DEF ReadSize
  <2>7. FollowingWith(at, ext, cs)
    BY <2>2, <2>3, <2>4, <2>5, <2>6 DEF FollowingWith
  <2> QED  BY <2>7 DEF Following
<1>9. pc \notin Closed
  BY <1>1 DEF Closed
<1> QED  BY <1>6, <1>7, <1>8, <1>9 DEF ConnInv

\* ConnInv is inductive.
LEMMA StepConn ==
  ASSUME ConnInv, [ConnNext]_vars
  PROVE  ConnInv'
<1>1. CASE serve
  BY <1>1, ServeStep
<1>2. CASE PeerSend
  BY <1>2, SendKeeps
<1>3. CASE Cut
  BY <1>3, CutKeeps
<1>4. CASE UNCHANGED vars
  BY <1>4, StutterKeeps
<1> QED  BY <1>1, <1>2, <1>3, <1>4 DEF ConnNext

-----------------------------------------------------------------------------
(* What follows *)

(***************************************************************************)
(* The inductive invariant, of any peer, application and constants.        *)
(***************************************************************************)
THEOREM ConnInvAlways == ConnSpec => []ConnInv
<1>1. ConnInit => ConnInv
  BY InitConn
<1>2. ConnInv /\ [ConnNext]_vars => ConnInv'
  BY StepConn
<1> QED  BY <1>1, <1>2, PTL DEF ConnSpec

(***************************************************************************)
(* What the application is offered is what the peer sent, in order and     *)
(* with nothing skipped, for messages of every length cut to every chunk   *)
(* size, headers of every format and a link cut anywhere                   *)
(* (conn.go:296-414): from the invariant.                                  *)
(***************************************************************************)
THEOREM FollowsPeerAlways == ConnSpec => []FollowsPeer
<1>1. ConnInv => FollowsPeer
  BY DEF ConnInv
<1> QED  BY <1>1, ConnInvAlways, PTL

(***************************************************************************)
(* A peer that sends only what the code can follow is not dropped while    *)
(* the link is up (conn.go:310-414, server.go:84-126).                     *)
(***************************************************************************)
THEOREM NotDroppedForNothingAlways == ConnSpec => []NotDroppedForNothing
<1>1. ConnInv => NotDroppedForNothing
  BY DEF ConnInv, NotDroppedForNothing, Excused
<1> QED  BY <1>1, ConnInvAlways, PTL

(***************************************************************************)
(* With nothing on the wire between two messages, both ends have the same  *)
(* chunk size (conn.go:388, server.go:215): what the peer cuts the next    *)
(* message to is ReadSize once all it has sent is served.                  *)
(***************************************************************************)
THEOREM ChunkSizeAgreedAlways == ConnSpec => []ChunkSizeAgreed
<1>1. ASSUME ConnInv PROVE ChunkSizeAgreed
  <2> SUFFICES ASSUME Cooperative, link = "up", pc = "basic", wire = << >>
               PROVE  chunkSize = peer.chunkSize
    BY DEF ChunkSizeAgreed, Up
  <2>1. TypesOK /\ SeenOK /\ Following
    BY <1>1 DEF ConnInv, Closed, Lost, Cooperative
  <2>2. PICK at, ext, cs : FollowingWith(at, ext, cs)
    BY <2>1 DEF Following
  <2>3. /\ at[Cur] = 0 /\ chunkSize = cs[Cur]
        /\ LaidIn(wire, link, sent, Cur, at, ext, cs) /\ SizesIn(sent, peer.chunkSize, cs)
        /\ Maps(Len(sent) + 1, at, ext, cs)
    BY <2>2 DEF FollowingWith, Place, Serving, ReadSize
  <2>4. Cur \in 1..(Len(sent) + 1) /\ Len(sent) \in Nat /\ (Cur <= Len(sent) => sent[Cur] \in Sents)
    BY <2>1, <2>2, Context
  <2>5. ASSUME Cur <= Len(sent) PROVE FALSE
    <3>1. Cur \in Cur..Len(sent) /\ Cur \in 1..(Len(sent) + 1) /\ Len(wire) = 0
      BY <2>4, <2>5
    <3>2. /\ at[Cur] + ChunkFields(sent[Cur], ext[Cur]) <= at[Len(sent) + 1]
          /\ Len(wire) = at[Len(sent) + 1]
      BY <2>3, <3>1 DEF LaidIn
    <3>3. ext[Cur] \in BOOLEAN
      BY <2>3, <3>1 DEF Maps
    <3>4. ChunkFields(sent[Cur], ext[Cur]) \in Nat \ {0}
      BY <2>4, <2>5, <3>3, ChunkFieldsType
    <3> QED  BY <2>3, <3>1, <3>2, <3>4
  <2>6. Cur = Len(sent) + 1
    BY <2>4, <2>5
  <2> QED  BY <2>3, <2>6 DEF SizesIn
<1> QED  BY <1>1, ConnInvAlways, PTL

-----------------------------------------------------------------------------
(* The acknowledgement window *)

(***************************************************************************)
(* Every length readFull is asked for fits the longest buffer.             *)
(***************************************************************************)
LEMMA NeededFits ==
  ASSUME TypesOK, NEW s \in ReadingStates
  PROVE  Needed(s) \in ReadSizes
<1>1. \A k \in 0..4 : k \in ReadSizes
  BY FieldsAssumption, WordAssumption DEF ReadSizes
<1>2. CASE s \in {"challenge", "response"}
  BY <1>2, FieldsAssumption DEF Needed
<1>3. CASE s \in {"basic", "csid", "timestamp", "length", "msid", "extended"}
  BY <1>1, <1>3 DEF Needed
<1>4. CASE s = "body"
  <2>1. hdr.mlen \in 0..MaxRead /\ chunkSize \in Nat /\ MaxRead \in Nat
    BY WordAssumption DEF TypesOK, HeaderType, ReadSizes
  <2>2. Wanted \in ReadSizes
    BY <2>1 DEF Wanted, ReadSizes
  <2> QED  BY <1>4, <2>2 DEF Needed
<1> QED  BY <1>2, <1>3, <1>4 DEF ReadingStates

\* serve() is the only one who counts bytes, and does so as AckWindow says.
LEMMA AckStep ==
  ASSUME ConnInv, [ConnNext]_vars
  PROVE  [AckNext]_ackVars
<1>1. TypesOK /\ msg \in Msgs \cup {None}
  BY DEF ConnInv, TypesOK
<1>2. ASSUME NEW s \in ReadingStates, Read(s) PROVE AckNext
  <2>1. ReadFull(Needed(s)) /\ Needed(s) \in ReadSizes
    BY <1>1, <1>2, NeededFits DEF Read, Consume
  <2> QED  BY <2>1 DEF AckNext
<1>3. CASE handshake
  BY <1>2, <1>3 DEF handshake, ReadingStates
<1>4. CASE readBasicHeader \/ readChunkMessageHeader
  BY <1>2, <1>4 DEF readBasicHeader, readChunkMessageHeader, ReadingStates
<1>5. CASE pumpMessage
  <2>1. CASE ReadFull(0)
    <3>1. 0 \in ReadSizes
      BY WordAssumption DEF ReadSizes
    <3> QED  BY <2>1, <3>1 DEF AckNext
  <2> QED  BY <1>2, <1>5, <2>1 DEF pumpMessage, ReadingStates
<1>6. CASE ackError
  <2>1. ReadFull(Needed(pc)) /\ pc \in ReadingStates
    BY <1>6 DEF ackError, Consume, Reading
  <2>2. Needed(pc) \in ReadSizes
    BY <1>1, <2>1, NeededFits
  <2> QED  BY <2>1, <2>2 DEF AckNext
<1>7. CASE serveMessage
  <2>1. CASE msg.typo = "WinAckSize" /\ serveWinAckSize
    <3>1. msg.arg \in Windows
      BY <1>1, <2>1, MsgsAssumption DEF None
    <3> QED  BY <2>1, <3>1 DEF serveWinAckSize, AckNext
  <2>2. CASE ~(msg.typo = "WinAckSize" /\ serveWinAckSize)
    <3>1. UNCHANGED ackVars
      BY <1>7, <2>2 DEF serveMessage, AppError, Builtin, serveSetChunkSize, serveAmf0Cmd
    <3> QED  BY <3>1
  <2> QED  BY <2>1, <2>2
<1>8. CASE readError \/ misread \/ serveNew \/ serveUserMessage \/ serveCommand \/ sendReply
  BY <1>8 DEF readError, misread, serveNew, serveUserMessage, serveCommand, sendReply
<1>9. CASE PeerSend \/ Cut \/ UNCHANGED vars
  BY <1>9 DEF PeerSend, Cut, vars
<1> QED  BY <1>3, <1>4, <1>5, <1>6, <1>7, <1>8, <1>9 DEF ConnNext, serve

(***************************************************************************)
(* A connection implements AckWindow: each of its steps reads a field no   *)
(* longer than the longest buffer, sets an announced window, or leaves the *)
(* counters alone.                                                         *)
(***************************************************************************)
THEOREM ConnImplementsAck == ConnSpec => AckSpec
<1>1. ConnInit => AckInit
  BY DEF ConnInit
<1>2. ConnInv /\ [ConnNext]_vars => [AckNext]_ackVars
  BY AckStep
<1> QED  BY <1>1, <1>2, ConnInvAlways, PTL DEF ConnSpec, AckSpec

(***************************************************************************)
(* So what AckWindowProofs proves of the window holds of every connection, *)
(* through whatever else is read and served.                               *)
(***************************************************************************)
THEOREM ConnAcks == ConnSpec => []AckInv
  BY ConnImplementsAck, AckInvariant, PTL

-----------------------------------------------------------------------------
(* The replies *)

\* What replies are made of.
Names == {"WindowAckSize", "SetPeerBandwidth", "SetChunkSize", "onBWDone", "connectResult",
          "releaseStreamResult", "createStreamResult", "onFCPublish", "FCPublishResult"}

RepliesTypeOK ==
  /\ replies \in Seq(Names) /\ out \in Seq(Names)
  /\ replies # << >> <=> pc = "reply"

(***************************************************************************)
(* A long reply that is still to be written has its announcement before it *)
(* or among what has been written.                                         *)
(***************************************************************************)
Announced == \E j \in 1..Len(out) : out[j] = "SetChunkSize"

WillFit ==
  \A i \in 1..Len(replies) : replies[i] \in LongReplies =>
    Announced \/ \E j \in 1..(i - 1) : replies[j] = "SetChunkSize"

RepliesInv == RepliesTypeOK /\ WillFit /\ RepliesFit

LEMMA InitReplies == ConnInit => RepliesInv
  BY DEF ConnInit, RepliesInv, RepliesTypeOK, WillFit, RepliesFit

(***************************************************************************)
(* What a handler writes: the one long reply comes after the announcement  *)
(* (server.go:396-440).                                                    *)
(***************************************************************************)
LEMMA RepliesOrdered ==
  ASSUME NEW c
  PROVE  /\ Replies(c) \in Seq(Names)
         /\ \A i \in 1..Len(Replies(c)) : Replies(c)[i] \in LongReplies =>
              \E j \in 1..(i - 1) : Replies(c)[j] = "SetChunkSize"
<1>1. CASE c = "connect"
  <2> DEFINE r == <<"WindowAckSize", "SetPeerBandwidth", "SetChunkSize", "onBWDone", "connectResult">>
  <2>1. Replies(c) = r
    BY <1>1 DEF Replies
  <2>2. r \in Seq(Names) /\ Len(r) = 5 /\ r[3] = "SetChunkSize"
        /\ r[1] \notin LongReplies /\ r[2] \notin LongReplies
        /\ r[3] \notin LongReplies /\ r[4] \notin LongReplies
    BY DEF Names, LongReplies
  <2>3. \A i \in 1..Len(r) : r[i] \in LongReplies => i = 5
    BY <2>2
  <2>4. \A i \in 1..Len(r) : r[i] \in LongReplies => \E j \in 1..(i - 1) : r[j] = "SetChunkSize"
    BY <2>2, <2>3
  <2> QED  BY <2>1, <2>2, <2>4
<1>2. CASE c # "connect"
  <2> DEFINE r == Replies(c)
  <2>1. \/ r = << >> \/ r = <<"releaseStreamResult">> \/ r = <<"createStreamResult">>
        \/ r = <<"onFCPublish", "FCPublishResult">>
    BY <1>2 DEF Replies
  <2> HIDE DEF r
  <2>2. r \in Seq(Names) /\ \A i \in 1..Len(r) : r[i] \notin LongReplies
    <3>1. CASE r = <<"onFCPublish", "FCPublishResult">>
      BY <3>1 DEF Names, LongReplies
    <3>2. CASE r = << >>
      BY <3>2 DEF Names, LongReplies
    <3>3. CASE r = <<"releaseStreamResult">> \/ r = <<"createStreamResult">>
      BY <3>3 DEF Names, LongReplies
    <3> QED  BY <2>1, <3>1, <3>2, <3>3
  <2> QED  BY <2>2 DEF r
<1> QED  BY <1>1, <1>2

LEMMA ServeCommandReplies ==
  ASSUME RepliesInv, serveCommand
  PROVE  RepliesInv'
<1> USE DEF RepliesInv
<1>1. UNCHANGED out
  BY DEF serveCommand
<1>2. RepliesFit'
  BY <1>1 DEF RepliesFit
<1>3. CASE serveLogged
  BY <1>1, <1>2, <1>3 DEF serveCommand, serveLogged, Go, RepliesTypeOK, WillFit, Announced
<1>4. CASE ~serveLogged
  <2>1. replies' = Replies(msg.arg) /\ Replies(msg.arg) # << >> /\ pc' = "reply"
    BY <1>4 DEF serveCommand, Go
  <2>2. RepliesTypeOK'
    BY <1>1, <2>1, RepliesOrdered DEF RepliesTypeOK
  <2>3. WillFit'
    BY <2>1, RepliesOrdered DEF WillFit
  <2> QED  BY <1>2, <2>2, <2>3
<1> QED  BY <1>3, <1>4

LEMMA SendReplyReplies ==
  ASSUME RepliesInv, sendReply
  PROVE  RepliesInv'
<1> USE DEF RepliesInv
<1>1. replies \in Seq(Names) /\ out \in Seq(Names) /\ replies # << >>
  BY DEF sendReply, RepliesTypeOK
<1>2. CASE out' = Append(out, Head(replies)) /\ replies' = Tail(replies)
  <2> DEFINE r == replies[1]
             n == Len(out) + 1
  <2>1. /\ Len(replies) \in Nat \ {0} /\ Len(out) \in Nat /\ r \in Names
        /\ replies' \in Seq(Names) /\ out' \in Seq(Names)
        /\ Len(out') = n /\ out'[n] = r
        /\ \A i \in 1..Len(out) : out'[i] = out[i]
        /\ Len(replies') = Len(replies) - 1
        /\ \A i \in 1..Len(replies') : replies'[i] = replies[i + 1]
    BY <1>1, <1>2
  <2>2. RepliesTypeOK'
    BY <1>2, <2>1 DEF RepliesTypeOK, sendReply, Go
  <2>3. Announced => Announced'
    BY <2>1 DEF Announced
  <2>4. r = "SetChunkSize" => Announced'
    BY <2>1 DEF Announced
  <2>5. r \in LongReplies => Announced
    BY <2>1 DEF WillFit
  <2>6. WillFit'
    <3> SUFFICES ASSUME NEW i \in 1..Len(replies'), replies'[i] \in LongReplies, ~Announced'
                 PROVE  \E j \in 1..(i - 1) : replies'[j] = "SetChunkSize"
      BY DEF WillFit
    <3>1. i + 1 \in 1..Len(replies) /\ replies[i + 1] \in LongReplies
      BY <2>1
    <3>2. PICK j \in 1..i : replies[j] = "SetChunkSize"
      BY <2>3, <3>1 DEF WillFit
    <3>3. j # 1
      BY <2>4, <3>2
    <3>4. j - 1 \in 1..(i - 1) /\ replies'[j - 1] = "SetChunkSize"
      BY <2>1, <3>2, <3>3
    <3> QED  BY <3>4
  <2>7. RepliesFit'
    <3> SUFFICES ASSUME NEW i \in 1..Len(out'), out'[i] \in LongReplies
                 PROVE  \E j \in 1..(i - 1) : out'[j] = "SetChunkSize"
      BY DEF RepliesFit
    <3>1. CASE i = n
      BY <2>1, <2>5, <3>1 DEF Announced
    <3>2. CASE i # n
      <4>1. i \in 1..Len(out) /\ out[i] \in LongReplies
        BY <2>1, <3>2
      <4>2. PICK j \in 1..(i - 1) : out[j] = "SetChunkSize"
        BY <4>1 DEF RepliesFit
      <4>3. j \in 1..Len(out) /\ out'[j] = "SetChunkSize"
        BY <2>1, <4>1, <4>2
      <4> QED  BY <4>2, <4>3
    <3> QED  BY <3>1, <3>2
  <2> QED  BY <2>2, <2>6, <2>7
<1>3. CASE out' = out /\ replies' = << >> /\ pc' = "basic"
  BY <1>1, <1>3 DEF RepliesTypeOK, WillFit, RepliesFit
<1> QED  BY <1>2, <1>3 DEF sendReply, Go

(***************************************************************************)
(* No other step writes a reply or comes to where replies are written.     *)
(***************************************************************************)
LEMMA OtherSteps ==
  ASSUME RepliesInv, [ConnNext]_vars
  PROVE  serveCommand \/ sendReply
         \/ /\ UNCHANGED <<replies, out>>
            /\ pc' = "reply" <=> pc = "reply"
<1>1. CASE handshake \/ serveNew
  BY <1>1 DEF handshake, serveNew, Read, Go, End, AppError
<1>2. CASE readBasicHeader \/ readChunkMessageHeader
  BY <1>2 DEF readBasicHeader, readChunkMessageHeader, Read, Go, AfterBasic, AfterFixed
<1>3. CASE pumpMessage
  BY <1>3 DEF pumpMessage, Deliver, Go, End
<1>4. CASE readError \/ ackError \/ misread
  BY <1>4 DEF readError, ackError, misread, End, Reading, ReadingStates
<1>5. CASE serveMessage
  BY <1>5 DEF serveMessage, AppError, Builtin, serveSetChunkSize, serveWinAckSize,
              serveAmf0Cmd, Go, End
<1>6. CASE serveUserMessage
  BY <1>6 DEF serveUserMessage, serveUserEvent, Go
<1>7. CASE PeerSend \/ Cut \/ UNCHANGED vars
  BY <1>7 DEF PeerSend, Cut, vars, connVars
<1> QED  BY <1>1, <1>2, <1>3, <1>4, <1>5, <1>6, <1>7 DEF ConnNext, serve

LEMMA StepReplies == RepliesInv /\ [ConnNext]_vars => RepliesInv'
<1> SUFFICES ASSUME RepliesInv, [ConnNext]_vars
             PROVE  RepliesInv'
  OBVIOUS
<1>1. CASE UNCHANGED <<replies, out>> /\ (pc' = "reply" <=> pc = "reply")
  BY <1>1 DEF RepliesInv, RepliesTypeOK, WillFit, Announced, RepliesFit
<1> QED  BY <1>1, OtherSteps, ServeCommandReplies, SendReplyReplies

-----------------------------------------------------------------------------

(***************************************************************************)
(* The result of connect is only written after the chunk size that holds   *)
(* it has been announced, whatever writes fail (server.go:396-440).        *)
(***************************************************************************)
THEOREM RepliesFitAlways == ConnSpec => []RepliesFit
<1>1. RepliesInv => RepliesFit
  BY DEF RepliesInv
<1> QED  BY <1>1, InitReplies, StepReplies, PTL DEF ConnSpec

(***************************************************************************)
(* The types of a connection, those of its counters among them; and that   *)
(* replies are left over only where they are written (server.go:396-512).  *)
(***************************************************************************)
THEOREM ConnTypeOKAlways == ConnSpec => []ConnTypeOK
<1>1. RepliesInv /\ [ConnNext]_vars => RepliesInv'
  BY StepReplies
<1>2. ASSUME ConnInv, AckInv, RepliesInv PROVE ConnTypeOK
  <2>1. TypesOK /\ AckTypeOK
    BY <1>2 DEF ConnInv, AckInv
  <2>2. /\ pc \in ReadingStates \cup Closed \cup {"serveNew", "message", "user", "command", "reply"}
        /\ chunkSize \in Nat /\ link \in {"up", "cut"} /\ refused \in BOOLEAN
    BY <2>1 DEF TypesOK, ReadingStates, Serving
  <2>3. hdr.fmt \in 0..3 /\ hdr.csid \in Nat /\ hdr.mlen \in Nat /\ hdr.typo \in Types
    BY <2>1 DEF TypesOK, HeaderType, ReadSizes
  <2>4. msg.typo \in Types /\ msg.len \in Nat
    BY <2>1, MsgsAssumption DEF TypesOK, None, Types, ReadSizes
  <2>5. (replies # << >>) <=> (pc = "reply")
    BY <1>2 DEF RepliesInv, RepliesTypeOK
  <2> QED  BY <2>1, <2>2, <2>3, <2>4, <2>5 DEF ConnTypeOK
<1>3. ConnSpec => []RepliesInv
  BY <1>1, InitReplies, PTL DEF ConnSpec
<1> QED  BY <1>2, <1>3, ConnInvAlways, ConnAcks, PTL
=============================================================================
