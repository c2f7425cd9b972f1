---------------------------- MODULE EncodeProofs ----------------------------
(***************************************************************************)
(* The encoder, for any number of goroutines, inputs and types: that what  *)
(* Marshal returns is its caller's own, and is an error if and only if a   *)
(* part of the value is refused; and that the fields a struct is encoded   *)
(* with are those that Go's rules promote.                                 *)
(***************************************************************************)
EXTENDS Marshal, TypeFields, FiniteSetTheorems, SequenceTheorems, WellFoundedInduction, TLAPS

(***************************************************************************)
(* An encodeState is in use by one goroutine, which alone has written what *)
(* its buffer holds (encode.go:72-83, 567-578).                            *)
(***************************************************************************)
Busy(g) == pc[g] \in {"encode", "put", "overflow"}

StateOwned ==
  \A g \in Goroutines :
    /\ Busy(g) => state[g] \in EncodeStates
    /\ ~Busy(g) => state[g] = NoState
    /\ \A h \in Goroutines : g # h /\ Busy(g) /\ Busy(h) => state[g] # state[h]

BufferOwned ==
  \A g \in Goroutines : pc[g] \in {"encode", "overflow"} => buf[state[g]] = written[g]

(***************************************************************************)
(* A result is an error, or the copy of the goroutine's own.               *)
(***************************************************************************)
CopyOwned ==
  \A g \in Goroutines :
    /\ result[g] \in {NoResult, Error, Returned("copy", g)}
    /\ result[g] = Returned("copy", g) => copies[g] = written[g]
    /\ pc[g] \in {"encode", "overflow"} => result[g] = NoResult

MarshalTypeOK ==
  /\ pc \in [Goroutines -> {"idle", "encode", "put", "overflow"}]
  /\ state \in [Goroutines -> EncodeStates \cup {NoState}]
  /\ DOMAIN buf = EncodeStates
  /\ buf = [e \in EncodeStates |-> buf[e]]
  /\ copies = [g \in Goroutines |-> copies[g]]
  /\ result = [g \in Goroutines |-> result[g]]
  /\ written = [g \in Goroutines |-> written[g]]

MarshalInv == MarshalTypeOK /\ StateOwned /\ BufferOwned /\ CopyOwned

(***************************************************************************)
(* The invariant holds at first.                                           *)
(***************************************************************************)
LEMMA InitOwned == MarshalInit => MarshalInv
  BY DEF MarshalInit, MarshalInv, MarshalTypeOK, StateOwned, BufferOwned, CopyOwned, Busy, NoResult, Error, Returned, NoState

(***************************************************************************)
(* Marshal takes an encodeState nobody uses, and empties it.               *)
(***************************************************************************)
LEMMA CallOwned ==
  ASSUME MarshalInv, NEW g \in Goroutines, NEW in \in Inputs, Call(g, in)
  PROVE  MarshalInv'
<1>1. PICK e \in EncodeStates \ InUse :
        /\ state' = [state EXCEPT ![g] = e]
        /\ buf' = [buf EXCEPT ![e] = << >>]
  BY DEF Call, newEncodeState
<1>2. /\ pc[g] = "idle" /\ pc' = [pc EXCEPT ![g] = "encode"]
      /\ written' = [written EXCEPT ![g] = << >>]
      /\ result' = [result EXCEPT ![g] = NoResult]
      /\ copies' = copies
  BY DEF Call
<1>3. \A h \in Goroutines : state[h] # e
  BY <1>1 DEF InUse
<1>4. MarshalTypeOK'
  BY <1>1, <1>2 DEF MarshalInv, MarshalTypeOK
<1>5. StateOwned'
  BY <1>1, <1>2, <1>3 DEF MarshalInv, MarshalTypeOK, StateOwned, Busy
<1>6. BufferOwned'
  <2> SUFFICES ASSUME NEW h \in Goroutines, pc'[h] \in {"encode", "overflow"}
               PROVE  buf'[state'[h]] = written'[h]
    BY DEF BufferOwned
  <2>1. CASE h = g
    BY <2>1, <1>1, <1>2 DEF MarshalInv, MarshalTypeOK
  <2>2. CASE h # g
    BY <2>2, <1>1, <1>2, <1>3 DEF MarshalInv, MarshalTypeOK, StateOwned, BufferOwned, Busy
  <2> QED BY <2>1, <2>2
<1>7. CopyOwned'
  BY <1>2 DEF MarshalInv, MarshalTypeOK, CopyOwned, NoResult, Error, Returned
<1> QED BY <1>4, <1>5, <1>6, <1>7 DEF MarshalInv

(***************************************************************************)
(* An encoder called for a value touches no buffer.                        *)
(***************************************************************************)
LEMMA EncodeOwned ==
  ASSUME MarshalInv, NEW g \in Goroutines, encode(g)
  PROVE  MarshalInv'
<1>1. /\ pc[g] = "encode"
      /\ pc' = pc \/ pc' = [pc EXCEPT ![g] = "overflow"]
      /\ UNCHANGED <<state, buf, copies, result, written>>
  BY DEF encode
<1>2. MarshalTypeOK'
  BY <1>1 DEF MarshalInv, MarshalTypeOK
<1>3. StateOwned'
  BY <1>1 DEF MarshalInv, MarshalTypeOK, StateOwned, Busy
<1>4. BufferOwned'
  BY <1>1 DEF MarshalInv, MarshalTypeOK, BufferOwned
<1>5. CopyOwned'
  BY <1>1 DEF MarshalInv, MarshalTypeOK, CopyOwned
<1> QED BY <1>2, <1>3, <1>4, <1>5 DEF MarshalInv

(***************************************************************************)
(* A token goes to the buffer of the goroutine's own encodeState.          *)
(***************************************************************************)
LEMMA WriteOwned ==
  ASSUME MarshalInv, NEW g \in Goroutines, Write(g)
  PROVE  MarshalInv'
<1> DEFINE tok == Head(todo[g])
<1>1. /\ pc[g] = "encode"
      /\ buf' = [buf EXCEPT ![state[g]] = Append(@, tok)]
      /\ written' = [written EXCEPT ![g] = Append(@, tok)]
      /\ UNCHANGED <<pc, state, copies, result>>
  BY DEF Write
<1>2. state[g] \in EncodeStates /\ buf[state[g]] = written[g] /\ result[g] = NoResult
  BY <1>1 DEF MarshalInv, StateOwned, BufferOwned, CopyOwned, Busy
<1> HIDE DEF tok
<1>3. MarshalTypeOK'
  BY <1>1 DEF MarshalInv, MarshalTypeOK
<1>4. StateOwned'
  BY <1>1 DEF MarshalInv, StateOwned, Busy
<1>5. BufferOwned'
  <2> SUFFICES ASSUME NEW h \in Goroutines, pc[h] \in {"encode", "overflow"}
               PROVE  buf'[state[h]] = written'[h]
    BY <1>1 DEF BufferOwned
  <2>1. CASE h = g
    BY <2>1, <1>1, <1>2 DEF MarshalInv, MarshalTypeOK
  <2>2. CASE h # g
    <3>1. state[h] # state[g] /\ state[h] \in EncodeStates
      BY <2>2, <1>1 DEF MarshalInv, StateOwned, Busy
    <3> QED BY <3>1, <2>2, <1>1 DEF MarshalInv, MarshalTypeOK, BufferOwned
  <2> QED BY <2>1, <2>2
<1>6. CopyOwned'
  BY <1>1, <1>2 DEF MarshalInv, MarshalTypeOK, CopyOwned, NoResult, Returned
<1> QED BY <1>3, <1>4, <1>5, <1>6 DEF MarshalInv

(***************************************************************************)
(* After a panic there is an error and no bytes.                           *)
(***************************************************************************)
LEMMA RecoverOwned ==
  ASSUME MarshalInv, NEW g \in Goroutines, recover(g)
  PROVE  MarshalInv'
<1>1. /\ pc[g] = "encode" /\ pc' = [pc EXCEPT ![g] = "put"]
      /\ result' = [result EXCEPT ![g] = Error]
      /\ UNCHANGED <<state, buf, copies, written>>
  BY DEF recover
<1>2. MarshalTypeOK'
  BY <1>1 DEF MarshalInv, MarshalTypeOK
<1>3. StateOwned'
  BY <1>1 DEF MarshalInv, MarshalTypeOK, StateOwned, Busy
<1>4. BufferOwned'
  BY <1>1 DEF MarshalInv, MarshalTypeOK, BufferOwned
<1>5. CopyOwned'
  BY <1>1 DEF MarshalInv, MarshalTypeOK, CopyOwned, Error, Returned
<1> QED BY <1>2, <1>3, <1>4, <1>5 DEF MarshalInv

(***************************************************************************)
(* What is returned is a copy of the buffer.                               *)
(***************************************************************************)
LEMMA FinishOwned ==
  ASSUME MarshalInv, NEW g \in Goroutines, finish(g)
  PROVE  MarshalInv'
<1>1. /\ pc[g] = "encode" /\ pc' = [pc EXCEPT ![g] = "put"]
      /\ copies' = [copies EXCEPT ![g] = buf[state[g]]]
      /\ result' = [result EXCEPT ![g] = Returned("copy", g)]
      /\ UNCHANGED <<state, buf, written>>
  BY DEF finish, returnCopy
<1>2. MarshalTypeOK'
  BY <1>1 DEF MarshalInv, MarshalTypeOK
<1>3. StateOwned'
  BY <1>1 DEF MarshalInv, MarshalTypeOK, StateOwned, Busy
<1>4. BufferOwned'
  BY <1>1 DEF MarshalInv, MarshalTypeOK, BufferOwned
<1>5. buf[state[g]] = written[g]
  BY <1>1 DEF MarshalInv, BufferOwned
<1>6. CopyOwned'
  BY <1>1, <1>5 DEF MarshalInv, MarshalTypeOK, CopyOwned
<1> QED BY <1>2, <1>3, <1>4, <1>6 DEF MarshalInv

(***************************************************************************)
(* The encodeState goes back when its goroutine is done with it.           *)
(***************************************************************************)
LEMMA PutOwned ==
  ASSUME MarshalInv, NEW g \in Goroutines, Put(g)
  PROVE  MarshalInv'
<1>1. /\ pc[g] = "put" /\ pc' = [pc EXCEPT ![g] = "idle"]
      /\ state' = [state EXCEPT ![g] = NoState]
      /\ UNCHANGED <<buf, copies, result, written>>
  BY DEF Put
<1>2. MarshalTypeOK'
  BY <1>1 DEF MarshalInv, MarshalTypeOK
<1>3. StateOwned'
  BY <1>1 DEF MarshalInv, MarshalTypeOK, StateOwned, Busy
<1>4. BufferOwned'
  BY <1>1 DEF MarshalInv, MarshalTypeOK, BufferOwned
<1>5. CopyOwned'
  BY <1>1 DEF MarshalInv, MarshalTypeOK, CopyOwned
<1> QED BY <1>2, <1>3, <1>4, <1>5 DEF MarshalInv

(***************************************************************************)
(* Every behaviour of Marshal keeps the invariant.                         *)
(***************************************************************************)
THEOREM MarshalInvariant == MarshalSpec => []MarshalInv
<1>1. MarshalInit => MarshalInv
  BY InitOwned
<1>2. MarshalInv /\ [MarshalNext]_vars => MarshalInv'
  <2> SUFFICES ASSUME MarshalInv, [MarshalNext]_vars
               PROVE  MarshalInv'
    OBVIOUS
  <2>1. CASE UNCHANGED vars
    BY <2>1 DEF vars, MarshalInv, MarshalTypeOK, StateOwned, BufferOwned, CopyOwned, Busy
  <2>2. CASE MarshalNext
    <3>1. PICK g \in Goroutines :
            (\E in \in Inputs : Call(g, in)) \/ encode(g) \/ Write(g) \/ recover(g) \/ finish(g) \/ Put(g)
      BY <2>2 DEF MarshalNext, Step
    <3> QED BY <3>1, CallOwned, EncodeOwned, WriteOwned, RecoverOwned, FinishOwned, PutOwned
  <2> QED BY <2>1, <2>2
<1> QED BY <1>1, <1>2, PTL DEF MarshalSpec

(***************************************************************************)
(* Results are their callers' own and never change (encode.go:567-578),    *)
(* with any number of goroutines, encodeStates and values.                 *)
(***************************************************************************)
THEOREM ResultsOwnAlways == MarshalSpec => []ResultsOwn
<1>1. MarshalInv => ResultsOwn
  <2> SUFFICES ASSUME MarshalInv, NEW g \in Goroutines, result[g].of \in {"copy", "state"}
               PROVE  ResultBytes(g) = written[g]
    BY DEF ResultsOwn
  <2>1. result[g] \in {NoResult, Error, Returned("copy", g)}
    BY DEF MarshalInv, CopyOwned
  <2>2. NoResult.of = "none" /\ Error.of = "error" /\ Returned("copy", g).of = "copy"
    BY DEF NoResult, Error, Returned
  <2>3. result[g] = Returned("copy", g)
    BY <2>1, <2>2
  <2> QED BY <2>2, <2>3 DEF MarshalInv, CopyOwned, ResultBytes
<1> QED BY <1>1, MarshalInvariant, PTL

-----------------------------------------------------------------------------
(* Orders, and lists in order *)

\* The least of some numbers.
LEMMA Least ==
  ASSUME NEW S, S \subseteq Nat, S # {}
  PROVE  \E x \in S : \A y \in S : x <= y
<1> DEFINE R == OpToRel(<, Nat)
<1>1. IsWellFoundedOn(R, Nat)
  BY NatLessThanWellFounded
<1>2. \A x, y \in Nat : <<y, x>> \notin R => x <= y
  BY DEF OpToRel
<1> HIDE DEF R
<1>3. PICK x \in S : \A y \in S : <<y, x>> \notin R
  BY <1>1, WFMin
<1> QED  BY <1>2, <1>3

\* Induction over the naturals, as a fact about sets.
LEMMA Counting ==
  ASSUME NEW S, 0 \in S, \A n \in Nat : n \in S => n + 1 \in S
  PROVE  Nat \subseteq S
<1> DEFINE T == Nat \ S
<1> SUFFICES ASSUME T # {} PROVE FALSE
  OBVIOUS
<1>1. PICK x \in T : \A y \in T : x <= y
  BY Least
<1>2. x \in Nat \ {0} /\ x - 1 \in Nat
  BY <1>1
<1>3. x - 1 \in S
  BY <1>1, <1>2
<1>4. (x - 1) + 1 \in S
  BY <1>2, <1>3
<1> QED  BY <1>1, <1>2, <1>4

\* R, a set of pairs, is an order of S; a strict one compares all its members.
PartialOrder(S, R) ==
  /\ \A x \in S : <<x, x>> \notin R
  /\ \A x, y, z \in S : <<x, y>> \in R /\ <<y, z>> \in R => <<x, z>> \in R

StrictOrder(S, R) ==
  /\ PartialOrder(S, R)
  /\ \A x, y \in S : x # y => <<x, y>> \in R \/ <<y, x>> \in R

\* Each member of S once, in the order R.
Lists(s, S, R) ==
  /\ s \in Seq(S)
  /\ \A x \in S : \E k \in 1..Len(s) : s[k] = x
  /\ \A i, j \in 1..Len(s) : i < j => <<s[i], s[j]>> \in R
  /\ \A i, j \in 1..Len(s) : s[i] = s[j] => i = j

\* Where y is after x, more is below y than below x.
LEMMA MoreBelow ==
  ASSUME NEW S, NEW R, IsFiniteSet(S), PartialOrder(S, R), NEW x \in S, NEW y \in S, <<x, y>> \in R
  PROVE  Cardinality(Below(x, S, R)) < Cardinality(Below(y, S, R))
<1>1. Below(x, S, R) \subseteq Below(y, S, R) /\ x \in Below(y, S, R) /\ x \notin Below(x, S, R)
  BY DEF PartialOrder, Below
<1>2. Below(y, S, R) \subseteq S
  BY DEF Below
<1>3. IsFiniteSet(Below(y, S, R))
  BY <1>2, FS_Subset
<1>4. Cardinality(Below(x, S, R)) <= Cardinality(Below(y, S, R))
      /\ (Cardinality(Below(x, S, R)) = Cardinality(Below(y, S, R)) => Below(x, S, R) = Below(y, S, R))
      /\ IsFiniteSet(Below(x, S, R))
  BY <1>1, <1>3, FS_Subset
<1>5. Cardinality(Below(x, S, R)) \in Nat /\ Cardinality(Below(y, S, R)) \in Nat
  BY <1>3, <1>4, FS_CardinalityType
<1> QED  BY <1>1, <1>4, <1>5

\* In a strict order every rank is somebody's.
LEMMA EveryRank ==
  ASSUME NEW S, NEW R, IsFiniteSet(S), StrictOrder(S, R)
  PROVE  \A k \in 1..Cardinality(S) : \E x \in S : Cardinality(Below(x, S, R)) = k - 1
<1> DEFINE n == Cardinality(S)
           rank == [x \in S |-> Cardinality(Below(x, S, R)) + 1]
<1>1. n \in Nat
  BY FS_CardinalityType
<1>2. ASSUME NEW x \in S PROVE Cardinality(Below(x, S, R)) \in Nat /\ Cardinality(Below(x, S, R)) + 1 \in 1..n
  <2>1. Below(x, S, R) \subseteq S /\ x \notin Below(x, S, R)
    BY DEF Below, StrictOrder, PartialOrder
  <2>2. IsFiniteSet(Below(x, S, R)) /\ Cardinality(Below(x, S, R)) <= n
        /\ (n = Cardinality(Below(x, S, R)) => S = Below(x, S, R))
    BY <2>1, FS_Subset
  <2>3. Cardinality(Below(x, S, R)) \in Nat
    BY <2>2, FS_CardinalityType
  <2> HIDE DEF n
  <2> QED  BY <1>1, <2>1, <2>2, <2>3
<1>3. rank \in [S -> 1..n]
  BY <1>2
<1>4. ASSUME NEW x \in S, NEW y \in S, rank[x] = rank[y] PROVE x = y
  <2> SUFFICES ASSUME x # y PROVE FALSE
    OBVIOUS
  <2>1. <<x, y>> \in R \/ <<y, x>> \in R
    BY DEF StrictOrder
  <2>2. Cardinality(Below(x, S, R)) = Cardinality(Below(y, S, R))
    BY <1>2, <1>4
  <2> QED  BY <1>2, <2>1, <2>2, MoreBelow DEF StrictOrder
<1>5. rank \in Injection(S, 1..n)
  BY <1>3, <1>4 DEF Injection, IsInjective
<1>6. IsFiniteSet(1..n) /\ Cardinality(1..n) = n
  BY <1>1, FS_Interval
<1>7. rank \in Surjection(S, 1..n)
  BY <1>5, <1>6, FS_Injection
<1>8. ASSUME NEW k \in 1..n PROVE \E x \in S : Cardinality(Below(x, S, R)) = k - 1
  <2>1. PICK x \in S : rank[x] = k
    BY <1>7 DEF Surjection
  <2> QED  BY <1>1, <1>2, <2>1
<1> QED  BY <1>8

\* InOrder does what it says (encode.go:743-756, 781).
LEMMA InOrderLists ==
  ASSUME NEW S, NEW R, IsFiniteSet(S), StrictOrder(S, R)
  PROVE  Lists(InOrder(S, R), S, R)
<1> DEFINE n == Cardinality(S)
           s == InOrder(S, R)
<1>1. n \in Nat
  BY FS_CardinalityType
<1>2. \A k \in 1..n : s[k] \in S /\ Cardinality(Below(s[k], S, R)) = k - 1
  BY EveryRank DEF InOrder
<1>3. s = [k \in 1..n |-> s[k]]
  BY DEF InOrder
<1> HIDE DEF s, n
<1>4. s \in Seq(S) /\ Len(s) = n
  BY <1>1, <1>2, <1>3
<1>5. ASSUME NEW x \in S PROVE \E k \in 1..n : s[k] = x
  <2> DEFINE k == Cardinality(Below(x, S, R)) + 1
  <2>1. Below(x, S, R) \subseteq S /\ x \notin Below(x, S, R)
    BY DEF Below, StrictOrder, PartialOrder
  <2>2. IsFiniteSet(Below(x, S, R)) /\ Cardinality(Below(x, S, R)) <= n
        /\ (n = Cardinality(Below(x, S, R)) => S = Below(x, S, R))
    BY <2>1, FS_Subset DEF n
  <2>3. Cardinality(Below(x, S, R)) \in Nat
    BY <2>2, FS_CardinalityType
  <2>4. k \in 1..n /\ k - 1 = Cardinality(Below(x, S, R))
    BY <1>1, <2>1, <2>2, <2>3
  <2>5. s[k] \in S /\ Cardinality(Below(s[k], S, R)) = Cardinality(Below(x, S, R))
    BY <1>2, <2>4
  <2>6. CASE s[k] # x
    <3>1. <<x, s[k]>> \in R \/ <<s[k], x>> \in R
      BY <2>5, <2>6 DEF StrictOrder
    <3> QED  BY <2>3, <2>5, <3>1, MoreBelow DEF StrictOrder
  <2> QED  BY <2>4, <2>6
<1>6. ASSUME NEW i \in 1..n, NEW j \in 1..n, i < j PROVE <<s[i], s[j]>> \in R
  <2>1. Cardinality(Below(s[i], S, R)) = i - 1 /\ Cardinality(Below(s[j], S, R)) = j - 1 /\ s[i] \in S /\ s[j] \in S
    BY <1>2
  <2>2. s[i] # s[j]
    BY <1>1, <1>6, <2>1
  <2>3. CASE <<s[j], s[i]>> \in R
    <3>1. Cardinality(Below(s[j], S, R)) < Cardinality(Below(s[i], S, R))
      BY <2>1, <2>3, MoreBelow DEF StrictOrder
    <3> QED  BY <1>1, <1>6, <2>1, <3>1
  <2> QED  BY <2>1, <2>2, <2>3 DEF StrictOrder
<1>7. ASSUME NEW i \in 1..n, NEW j \in 1..n, s[i] = s[j] PROVE i = j
  <2>1. i - 1 = j - 1
    BY <1>2, <1>7
  <2> QED  BY <1>1, <2>1
<1> QED  BY <1>4, <1>5, <1>6, <1>7 DEF Lists, s

\* The first of a finite set.
LEMMA FirstExists ==
  ASSUME NEW S, NEW R, IsFiniteSet(S), S # {}, PartialOrder(S, R)
  PROVE  \E x \in S : \A y \in S : <<y, x>> \notin R
<1> DEFINE N == {Cardinality(Below(x, S, R)) : x \in S}
<1>1. ASSUME NEW x \in S PROVE Cardinality(Below(x, S, R)) \in Nat
  <2>1. Below(x, S, R) \subseteq S
    BY DEF Below
  <2> QED  BY <2>1, FS_Subset, FS_CardinalityType
<1>2. PICK n \in N : \A m \in N : n <= m
  BY <1>1, Least
<1>3. PICK x \in S : n = Cardinality(Below(x, S, R))
  BY <1>2
<1>4. ASSUME NEW y \in S, <<y, x>> \in R PROVE FALSE
  <2>1. Cardinality(Below(y, S, R)) < Cardinality(Below(x, S, R))
    BY <1>4, MoreBelow
  <2>2. Cardinality(Below(y, S, R)) \in N
    OBVIOUS
  <2> HIDE DEF N
  <2> QED  BY <1>1, <1>2, <1>3, <2>1, <2>2
<1> QED  BY <1>4

\* Positions in order.
LEMMA PositionsList ==
  ASSUME NEW S, S \subseteq Nat, IsFiniteSet(S)
  PROVE  /\ Positions(S) \in Seq(S)
         /\ \A x \in S : \E k \in 1..Len(Positions(S)) : Positions(S)[k] = x
         /\ \A i, j \in 1..Len(Positions(S)) : Positions(S)[i] = Positions(S)[j] => i = j
<1> DEFINE R == {p \in S \X S : p[1] < p[2]}
<1>1. \A x, y \in S : <<x, y>> \in R <=> x < y
  OBVIOUS
<1> HIDE DEF R
<1>2. StrictOrder(S, R)
  BY <1>1 DEF StrictOrder, PartialOrder
<1>3. Lists(InOrder(S, R), S, R)
  BY <1>2, InOrderLists
<1>4. InOrder(S, R) = Positions(S)
  BY DEF Positions, R
<1> QED  BY <1>3, <1>4 DEF Lists

\* x is less than y, from their place k on.
LessAt(x, y, k) ==
  /\ k <= Len(x) + 1 /\ \A j \in 1..(k - 1) : x[j] = y[j]
  /\ k > Len(x) \/ x[k] < y[k]

\* That is what IndexLess says.
LEMMA IndexLessAt == \A x, y : IndexLess(x, y) <=> \E k \in 1..Len(y) : LessAt(x, y, k)
  BY DEF IndexLess, LessAt

\* byIndex is an order (encode.go:611-621).
LEMMA IndexOrder ==
  /\ \A x \in Seq(Nat) : ~IndexLess(x, x)
  /\ \A x, y, z \in Seq(Nat) : IndexLess(x, y) /\ IndexLess(y, z) => IndexLess(x, z)
  /\ \A x, y \in Seq(Nat) : x # y => IndexLess(x, y) \/ IndexLess(y, x)
<1>1. ASSUME NEW x \in Seq(Nat), IndexLess(x, x) PROVE FALSE
  <2>1. PICK k \in 1..Len(x) : k > Len(x) \/ x[k] < x[k]
    BY <1>1 DEF IndexLess
  <2> QED  BY <2>1
<1>2. ASSUME NEW x \in Seq(Nat), NEW y \in Seq(Nat), NEW z \in Seq(Nat), IndexLess(x, y), IndexLess(y, z)
      PROVE  IndexLess(x, z)
  <2>1. PICK k \in 1..Len(y) : LessAt(x, y, k)
    BY <1>2, IndexLessAt
  <2>2. PICK l \in 1..Len(z) : LessAt(y, z, l)
    BY <1>2, IndexLessAt
  <2>3. PICK a \in Nat, b \in Nat, c \in Nat : a = Len(x) /\ b = Len(y) /\ c = Len(z)
    OBVIOUS
  <2>4. /\ k \in 1..b /\ k <= a + 1 /\ \A j \in 1..(k - 1) : x[j] = y[j]
        /\ k > a \/ x[k] < y[k]
    BY <2>1, <2>3 DEF LessAt
  <2>5. /\ l \in 1..c /\ l <= b + 1 /\ \A j \in 1..(l - 1) : y[j] = z[j]
        /\ l > b \/ y[l] < z[l]
    BY <2>2, <2>3 DEF LessAt
  <2>6. CASE k < l
    <3>1. k \in 1..c /\ k \in 1..(l - 1) /\ 1..(k - 1) \subseteq 1..(l - 1)
      BY <2>4, <2>5, <2>6
    <3>2. y[k] = z[k] /\ \A j \in 1..(k - 1) : x[j] = z[j]
      BY <2>4, <2>5, <3>1
    <3>3. k > a \/ x[k] < z[k]
      BY <2>4, <3>2
    <3>4. LessAt(x, z, k)
      BY <2>3, <2>4, <3>2, <3>3 DEF LessAt
    <3> QED  BY <2>3, <3>1, <3>4, IndexLessAt
  <2>7. CASE l < k
    <3>1. l <= a + 1 /\ l <= b /\ l \in 1..(k - 1) /\ 1..(l - 1) \subseteq 1..(k - 1)
      BY <2>4, <2>5, <2>7
    <3>2. x[l] = y[l] /\ \A j \in 1..(l - 1) : x[j] = z[j]
      BY <2>4, <2>5, <3>1
    <3>3. ~(l > b)
      BY <2>5, <3>1
    <3>4. x[l] < z[l]
      BY <2>5, <3>2, <3>3
    <3>5. LessAt(x, z, l)
      BY <2>3, <3>1, <3>2, <3>4 DEF LessAt
    <3> QED  BY <2>2, <3>5, IndexLessAt
  <2>8. CASE k = l
    <3>1. k \in 1..c /\ ~(l > b) /\ k <= a + 1
      BY <2>4, <2>5, <2>8
    <3>2. \A j \in 1..(k - 1) : x[j] = z[j]
      BY <2>4, <2>5, <2>8
    <3>3. y[k] < z[k]
      BY <2>5, <2>8, <3>1
    <3>4. ASSUME ~(k > a) PROVE x[k] < z[k]
      <4>1. k \in 1..a
        BY <2>4, <3>4
      <4>2. x[k] \in Nat /\ y[k] \in Nat /\ z[k] \in Nat
        <5>1. x[k] \in Nat
          BY <2>3, <4>1, ElementOfSeq
        <5>2. y[k] \in Nat
          BY <2>3, <2>4, ElementOfSeq
        <5>3. z[k] \in Nat
          BY <2>3, <3>1, ElementOfSeq
        <5> QED  BY <5>1, <5>2, <5>3
      <4>3. PICK u \in Nat, v \in Nat, w \in Nat : u = x[k] /\ v = y[k] /\ w = z[k]
        BY <4>2
      <4>4. u < v /\ v < w
        BY <2>4, <3>3, <3>4, <4>3
      <4>5. u < w
        BY <4>4
      <4> QED  BY <4>3, <4>5
    <3>5. LessAt(x, z, k)
      BY <2>3, <3>1, <3>2, <3>4 DEF LessAt
    <3> QED  BY <2>3, <3>1, <3>5, IndexLessAt
  <2>9. k < l \/ l < k \/ k = l
    BY <2>4, <2>5
  <2> QED  BY <2>6, <2>7, <2>8, <2>9
<1>3. ASSUME NEW x \in Seq(Nat), NEW y \in Seq(Nat), x # y
      PROVE  IndexLess(x, y) \/ IndexLess(y, x)
  <2> DEFINE D == {k \in Nat \ {0} : k > Len(x) \/ k > Len(y) \/ x[k] # y[k]}
  <2>1. Len(x) \in Nat /\ Len(y) \in Nat /\ Len(x) + 1 \in D
    OBVIOUS
  <2>2. D \subseteq Nat /\ D # {}
    BY <2>1
  <2>3. PICK k \in D : \A j \in D : k <= j
    BY <2>2, Least
  <2>4. ASSUME NEW j \in 1..(k - 1) PROVE j <= Len(x) /\ j <= Len(y) /\ x[j] = y[j]
    BY <2>1, <2>3
  <2>5. k <= Len(x) + 1 /\ k <= Len(y) + 1
    <3>1. Len(y) + 1 \in D
      BY <2>1
    <3> QED  BY <2>1, <2>3, <3>1
  <2>6. CASE k > Len(x) /\ k > Len(y)
    <3>1. Len(x) = Len(y) /\ k = Len(x) + 1
      BY <2>1, <2>3, <2>5, <2>6
    <3>2. \A j \in 1..Len(x) : x[j] = y[j]
      BY <2>1, <2>4, <3>1
    <3> QED  BY <1>3, <3>1, <3>2, SeqEqual
  <2>7. CASE k > Len(x) /\ k <= Len(y)
    <3>1. k \in 1..Len(y)
      BY <2>1, <2>3, <2>7
    <3> QED  BY <2>4, <2>5, <2>7, <3>1, IndexLessAt DEF LessAt
  <2>8. CASE k <= Len(x) /\ k > Len(y)
    <3>1. k \in 1..Len(x)
      BY <2>1, <2>3, <2>8
    <3> QED  BY <2>4, <2>5, <2>8, <3>1, IndexLessAt DEF LessAt
  <2>9. CASE k <= Len(x) /\ k <= Len(y)
    <3>0. k \in Nat \ {0} /\ k \in 1..Len(x) /\ k \in 1..Len(y)
      BY <2>1, <2>3, <2>9
    <3>1. x[k] # y[k] /\ x[k] \in Nat /\ y[k] \in Nat
      <4>1. x[k] # y[k]
        <5>1. k > Len(x) \/ k > Len(y) \/ x[k] # y[k]
          BY <2>3
        <5>2. ~(k > Len(x)) /\ ~(k > Len(y))
          BY <2>1, <2>9, <3>0
        <5> QED  BY <5>1, <5>2
      <4>2. x[k] \in Nat
        BY <3>0, ElementOfSeq
      <4>3. y[k] \in Nat
        BY <3>0, ElementOfSeq
      <4> QED  BY <4>1, <4>2, <4>3
    <3>2. x[k] < y[k] \/ y[k] < x[k]
      <4>1. PICK u \in Nat, v \in Nat : u = x[k] /\ v = y[k]
        BY <3>1
      <4>2. u < v \/ v < u
        BY <3>1, <4>1
      <4> QED  BY <4>1, <4>2
    <3> QED  BY <2>4, <2>5, <3>0, <3>2, IndexLessAt DEF LessAt
  <2> QED  BY <2>1, <2>3, <2>6, <2>7, <2>8, <2>9
<1> QED  BY <1>1, <1>2, <1>3

\* The fields that are found.
FieldType == [name : Nat, tag : BOOLEAN, index : Seq(Nat)]

\* And so is the order of the fields by name (encode.go:743-756).
LEMMA NameOrder ==
  /\ \A x \in FieldType : ~NameLess(x, x)
  /\ \A x, y, z \in FieldType : NameLess(x, y) /\ NameLess(y, z) => NameLess(x, z)
<1>1. ASSUME NEW x \in FieldType PROVE ~NameLess(x, x)
  BY IndexOrder DEF NameLess, FieldType
<1>2. ASSUME NEW x \in FieldType, NEW y \in FieldType, NEW z \in FieldType, NameLess(x, y), NameLess(y, z)
      PROVE  NameLess(x, z)
  <2>1. /\ x.name \in Nat /\ y.name \in Nat /\ z.name \in Nat
        /\ Len(x.index) \in Nat /\ Len(y.index) \in Nat /\ Len(z.index) \in Nat
        /\ x.index \in Seq(Nat) /\ y.index \in Seq(Nat) /\ z.index \in Seq(Nat)
        /\ x.tag \in BOOLEAN /\ y.tag \in BOOLEAN /\ z.tag \in BOOLEAN
    BY DEF FieldType
  <2>2. IndexLess(x.index, y.index) /\ IndexLess(y.index, z.index) => IndexLess(x.index, z.index)
    BY <2>1, IndexOrder
  <2>3. CASE x.name # y.name \/ y.name # z.name
    <3>1. x.name < z.name
      BY <1>2, <2>1, <2>3 DEF NameLess
    <3> QED  BY <2>1, <3>1 DEF NameLess
  <2>4. CASE x.name = y.name /\ y.name = z.name /\ (Len(x.index) # Len(y.index) \/ Len(y.index) # Len(z.index))
    <3>1. Len(x.index) < Len(z.index)
      BY <1>2, <2>1, <2>4 DEF NameLess
    <3> QED  BY <2>1, <2>4, <3>1 DEF NameLess
  <2>5. CASE x.name = y.name /\ y.name = z.name /\ Len(x.index) = Len(y.index) /\ Len(y.index) = Len(z.index)
    <3>1. CASE x.tag # y.tag \/ y.tag # z.tag
      <4>1. x.tag /\ ~z.tag
        BY <1>2, <2>1, <2>5, <3>1 DEF NameLess
      <4> QED  BY <2>5, <4>1 DEF NameLess
    <3>2. CASE x.tag = y.tag /\ y.tag = z.tag
      <4>1. IndexLess(x.index, y.index) /\ IndexLess(y.index, z.index)
        BY <1>2, <2>5, <3>2 DEF NameLess
      <4> QED  BY <2>2, <2>5, <3>2, <4>1 DEF NameLess
    <3> QED  BY <3>1, <3>2
  <2> QED  BY <2>3, <2>4, <2>5
<1> QED  BY <1>1, <1>2

\* Of some fields in a list, one is first.
LEMMA FirstOfGroup ==
  ASSUME NEW s \in Seq(FieldType), NEW G, G \subseteq 1..Len(s), G # {}
  PROVE  \E i \in G : \A j \in G : ~NameLess(s[j], s[i])
<1> DEFINE R == {p \in G \X G : NameLess(s[p[1]], s[p[2]])}
<1>1. IsFiniteSet(G)
  <2>1. Len(s) \in Nat /\ G \in SUBSET (1..Len(s))
    OBVIOUS
  <2>2. IsFiniteSet(1..Len(s))
    BY <2>1, FS_Interval
  <2> QED  BY <2>1, <2>2, FS_Subset
<1>2. \A i, j \in G : <<i, j>> \in R <=> NameLess(s[i], s[j])
  OBVIOUS
<1>3. \A i \in G : s[i] \in FieldType
  OBVIOUS
<1> HIDE DEF R
<1>4. PartialOrder(G, R)
  BY <1>2, <1>3, NameOrder DEF PartialOrder
<1> QED  BY <1>1, <1>2, <1>4, FirstExists

-----------------------------------------------------------------------------
(* The ways down the structs *)

\* The way to the type asked for.
Root == [typ |-> Top, index |-> << >>]

\* The ways as far as n.
WaysUpTo(n, g) ==
  /\ g = [m \in 0..n |-> g[m]] /\ g[0] = {Root}
  /\ \A m \in 1..n : g[m] = Down(g[m - 1])

\* They are the same, as far as both go.
LEMMA WaysUpToAgree ==
  ASSUME NEW n \in Nat, NEW k \in Nat, NEW g, NEW h, WaysUpTo(n, g), WaysUpTo(k, h)
  PROVE  \A m \in Nat : m <= n /\ m <= k => g[m] = h[m]
<1> DEFINE S == {m \in Nat : m <= n /\ m <= k => g[m] = h[m]}
<1>1. 0 \in S
  BY DEF WaysUpTo
<1>2. ASSUME NEW m \in Nat, m \in S PROVE m + 1 \in S
  <2> SUFFICES ASSUME m + 1 <= n, m + 1 <= k PROVE g[m + 1] = h[m + 1]
    OBVIOUS
  <2>1. g[m] = h[m]
    BY <1>2
  <2>2. m + 1 \in 1..n /\ m + 1 \in 1..k /\ (m + 1) - 1 = m
    OBVIOUS
  <2>3. g[m + 1] = Down(g[m])
    BY <2>2 DEF WaysUpTo
  <2>4. h[m + 1] = Down(h[m])
    BY <2>2 DEF WaysUpTo
  <2> QED  BY <2>1, <2>3, <2>4
<1> HIDE DEF S
<1>3. Nat \subseteq S
  BY <1>1, <1>2, Counting
<1> QED  BY <1>3 DEF S

\* They exist, as far as wanted.
LEMMA WaysUpToExists == \A n \in Nat : \E g : WaysUpTo(n, g)
<1> DEFINE S == {n \in Nat : \E g : WaysUpTo(n, g)}
<1>1. 0 \in S
  <2> DEFINE g == [m \in 0..0 |-> {Root}]
  <2>1. WaysUpTo(0, g)
    BY DEF WaysUpTo
  <2> QED  BY <2>1
<1>2. ASSUME NEW n \in Nat, n \in S PROVE n + 1 \in S
  <2>1. PICK g : WaysUpTo(n, g)
    BY <1>2
  <2> DEFINE h == [m \in 0..(n + 1) |-> IF m = n + 1 THEN Down(g[n]) ELSE g[m]]
  <2>2. h[0] = {Root}
    BY <2>1 DEF WaysUpTo
  <2>3. ASSUME NEW m \in 1..(n + 1) PROVE h[m] = Down(h[m - 1])
    <3>1. CASE m = n + 1
      <4>1. h[m] = Down(g[n]) /\ h[m - 1] = g[n]
        BY <3>1
      <4> QED  BY <4>1
    <3>2. CASE m # n + 1
      <4>1. m \in 1..n /\ h[m] = g[m] /\ h[m - 1] = g[m - 1]
        BY <3>2
      <4> HIDE DEF h
      <4>2. g[m] = Down(g[m - 1])
        BY <2>1, <4>1 DEF WaysUpTo
      <4> QED  BY <4>1, <4>2
    <3> QED  BY <3>1, <3>2
  <2>4. h = [m \in 0..(n + 1) |-> h[m]]
    OBVIOUS
  <2> HIDE DEF h
  <2>5. WaysUpTo(n + 1, h)
    BY <2>2, <2>3, <2>4 DEF WaysUpTo
  <2> QED  BY <2>5
<1> HIDE DEF S
<1>3. Nat \subseteq S
  BY <1>1, <1>2, Counting
<1> QED  BY <1>3 DEF S

\* So Ways is what its definition says.
LEMMA WaysDef == Ways = [n \in Nat |-> IF n = 0 THEN {Root} ELSE Down(Ways[n - 1])]
<1> DEFINE G(n) == CHOOSE g : WaysUpTo(n, g)
           F == [n \in Nat |-> G(n)[n]]
<1>1. \A n \in Nat : WaysUpTo(n, G(n))
  BY WaysUpToExists
<1>2. ASSUME NEW n \in Nat PROVE F[n] = IF n = 0 THEN {Root} ELSE Down(F[n - 1])
  <2>1. WaysUpTo(n, G(n))
    BY <1>1
  <2>2. CASE n = 0
    <3>1. G(n)[0] = {Root}
      BY <2>1 DEF WaysUpTo
    <3> QED  BY <2>2, <3>1
  <2>3. CASE n # 0
    <3>1. n - 1 \in Nat /\ n \in 1..n /\ n - 1 <= n
      BY <2>3
    <3>2. WaysUpTo(n - 1, G(n - 1))
      BY <1>1, <3>1
    <3>3. G(n)[n] = Down(G(n)[n - 1])
      BY <2>1, <3>1 DEF WaysUpTo
    <3> HIDE DEF G
    <3>4. G(n)[n - 1] = G(n - 1)[n - 1]
      BY <2>1, <3>1, <3>2, WaysUpToAgree
    <3>5. F[n] = G(n)[n] /\ F[n - 1] = G(n - 1)[n - 1]
      BY <3>1
    <3> HIDE DEF F
    <3> QED  BY <2>3, <3>3, <3>4, <3>5
  <2> QED  BY <2>2, <2>3
<1>3. DOMAIN F = Nat /\ F = [n \in Nat |-> F[n]]
  OBVIOUS
<1> HIDE DEF F
<1>4. F = [n \in Nat |-> IF n = 0 THEN {Root} ELSE Down(F[n - 1])]
  BY <1>2, <1>3
<1>5. \E f : f = [n \in Nat |-> IF n = 0 THEN {Root} ELSE Down(f[n - 1])]
  BY <1>4
<1> QED  BY <1>5 DEF Ways, Root

\* The ways of length 0, and of one more.
LEMMA WaysNext ==
  /\ Ways[0] = {Root}
  /\ \A n \in Nat : Ways[n + 1] = Down(Ways[n])
<1>1. Ways[0] = {Root}
  BY WaysDef
<1>2. ASSUME NEW n \in Nat PROVE Ways[n + 1] = Down(Ways[n])
  <2>1. n + 1 \in Nat /\ n + 1 # 0 /\ (n + 1) - 1 = n
    OBVIOUS
  <2>2. Ways[n + 1] = IF n + 1 = 0 THEN {Root} ELSE Down(Ways[(n + 1) - 1])
    BY <2>1, WaysDef
  <2> QED  BY <2>1, <2>2
<1> QED  BY <1>1, <1>2

\* One step further down.
LEMMA WayStep ==
  ASSUME NEW n \in Nat
  PROVE  /\ \A w \in Ways[n + 1] : \E v \in Ways[n] : \E i \in EmbeddedIn(v.typ) : w = StructAt(v, i)
         /\ \A v \in Ways[n] : \A i \in EmbeddedIn(v.typ) : StructAt(v, i) \in Ways[n + 1]
  BY WaysNext DEF Down

-----------------------------------------------------------------------------
(* The structs and fields at their ends *)

\* The structs that are queued.
WayType == [typ : Structs, index : Seq(Nat)]

\* What the assumption says of the types.
LEMMA GraphFacts ==
  ASSUME decl \in Graphs
  PROVE  /\ IsFiniteSet(Structs) /\ Top \in Structs
         /\ \A t \in Structs : decl[t] \in Seq(StructFields(Structs))
  BY GraphsAssumption DEF Structs

\* The positions in a type.
LEMMA PositionsIn ==
  ASSUME decl \in Graphs, NEW t \in Structs
  PROVE  /\ RecordedIn(t) \subseteq Nat /\ IsFiniteSet(RecordedIn(t))
         /\ EmbeddedIn(t) \subseteq Nat /\ IsFiniteSet(EmbeddedIn(t))
         /\ \A i \in RecordedIn(t) \cup EmbeddedIn(t) : decl[t][i] \in StructFields(Structs)
         /\ \A i \in EmbeddedIn(t) : decl[t][i].typ \in Structs
<1>1. decl[t] \in Seq(StructFields(Structs))
  BY GraphFacts
<1>2. PICK n \in Nat : DOMAIN decl[t] = 1..n /\ n = Len(decl[t])
  BY <1>1
<1>3. IsFiniteSet(1..n)
  BY FS_Interval
<1>4. RecordedIn(t) \subseteq 1..n /\ EmbeddedIn(t) \subseteq 1..n
  BY <1>2 DEF RecordedIn, EmbeddedIn
<1>5. IsFiniteSet(RecordedIn(t)) /\ IsFiniteSet(EmbeddedIn(t))
  BY <1>3, <1>4, FS_Subset
<1>6. \A i \in 1..n : decl[t][i] \in StructFields(Structs)
  BY <1>1, <1>2
<1>7. ASSUME NEW i \in EmbeddedIn(t) PROVE decl[t][i].typ \in Structs
  <2>1. decl[t][i].typ # "other" /\ i \in 1..n
    BY <1>4 DEF EmbeddedIn, Recorded
  <2>2. decl[t][i].typ \in Structs \cup {"other"}
    BY <1>6, <2>1 DEF StructFields
  <2> QED  BY <2>1, <2>2
<1> QED  BY <1>4, <1>5, <1>6, <1>7

\* The index of what is one further down.
LEMMA AppendFacts ==
  ASSUME NEW s \in Seq(Nat), NEW i \in Nat
  PROVE  Append(s, i) \in Seq(Nat) /\ Len(Append(s, i)) = Len(s) + 1
  OBVIOUS

\* It is that of one place only.
LEMMA AppendSame ==
  ASSUME NEW s \in Seq(Nat), NEW t \in Seq(Nat), NEW i \in Nat, NEW j \in Nat,
         Append(s, i) = Append(t, j)
  PROVE  s = t /\ i = j
  BY AppendInjective

\* The structs in a struct.
LEMMA StructAtFacts ==
  ASSUME decl \in Graphs, NEW w \in WayType, NEW i \in EmbeddedIn(w.typ)
  PROVE  /\ StructAt(w, i) \in WayType
         /\ StructAt(w, i).typ = decl[w.typ][i].typ
         /\ StructAt(w, i).index = Append(w.index, i)
         /\ Len(StructAt(w, i).index) = Len(w.index) + 1
<1>1. w.typ \in Structs /\ w.index \in Seq(Nat)
  BY DEF WayType
<1>2. i \in Nat /\ decl[w.typ][i].typ \in Structs
  BY <1>1, PositionsIn
<1>3. Append(w.index, i) \in Seq(Nat) /\ Len(Append(w.index, i)) = Len(w.index) + 1
  BY <1>1, <1>2, AppendFacts
<1> QED  BY <1>2, <1>3 DEF StructAt, WayType

\* The ways are ways, as long as they should be.
LEMMA WaysType ==
  ASSUME decl \in Graphs
  PROVE  \A n \in Nat : \A w \in Ways[n] : w \in WayType /\ Len(w.index) = n
<1> DEFINE S == {n \in Nat : \A w \in Ways[n] : w \in WayType /\ Len(w.index) = n}
<1>1. 0 \in S
  <2>1. Root \in WayType /\ Len(Root.index) = 0
    BY GraphFacts DEF Root, WayType
  <2> QED  BY <2>1, WaysNext
<1>2. ASSUME NEW n \in Nat, n \in S PROVE n + 1 \in S
  <2> SUFFICES ASSUME NEW w \in Ways[n + 1] PROVE w \in WayType /\ Len(w.index) = n + 1
    OBVIOUS
  <2>1. PICK v \in Ways[n] : \E i \in EmbeddedIn(v.typ) : w = StructAt(v, i)
    BY WayStep
  <2>2. PICK i \in EmbeddedIn(v.typ) : w = StructAt(v, i)
    BY <2>1
  <2>3. v \in WayType /\ Len(v.index) = n
    BY <1>2
  <2> HIDE DEF S
  <2> QED  BY <2>2, <2>3, StructAtFacts
<1> HIDE DEF S
<1>3. Nat \subseteq S
  BY <1>1, <1>2, Counting
<1> QED  BY <1>3 DEF S

\* Two structs that are embedded at one place are one.
LEMMA StructsApart ==
  ASSUME decl \in Graphs, NEW v \in WayType, NEW w \in WayType,
         NEW i \in EmbeddedIn(v.typ), NEW j \in EmbeddedIn(w.typ),
         StructAt(v, i).index = StructAt(w, j).index
  PROVE  v.index = w.index /\ i = j
<1>1. v.index \in Seq(Nat) /\ w.index \in Seq(Nat) /\ v.typ \in Structs /\ w.typ \in Structs
  BY DEF WayType
<1>2. i \in Nat /\ j \in Nat
  BY <1>1, PositionsIn
<1>3. Append(v.index, i) = Append(w.index, j)
  BY StructAtFacts
<1>4. PICK a \in Seq(Nat), b \in Seq(Nat) : a = v.index /\ b = w.index
  BY <1>1
<1>5. Append(a, i) = Append(b, j)
  BY <1>3, <1>4
<1>6. a = b /\ i = j
  BY <1>2, <1>5, AppendSame
<1> QED  BY <1>4, <1>6

\* Two ways of one length with the same index are one.
LEMMA WaysApart ==
  ASSUME decl \in Graphs
  PROVE  \A n \in Nat : \A v, w \in Ways[n] : v.index = w.index => v = w
<1> DEFINE S == {n \in Nat : \A v, w \in Ways[n] : v.index = w.index => v = w}
<1>1. 0 \in S
  BY WaysNext
<1>2. ASSUME NEW n \in Nat, n \in S PROVE n + 1 \in S
  <2> SUFFICES ASSUME NEW v \in Ways[n + 1], NEW w \in Ways[n + 1], v.index = w.index PROVE v = w
    OBVIOUS
  <2>1. PICK x \in Ways[n] : \E i \in EmbeddedIn(x.typ) : v = StructAt(x, i)
    BY WayStep
  <2>2. PICK i \in EmbeddedIn(x.typ) : v = StructAt(x, i)
    BY <2>1
  <2>3. PICK y \in Ways[n] : \E j \in EmbeddedIn(y.typ) : w = StructAt(y, j)
    BY WayStep
  <2>4. PICK j \in EmbeddedIn(y.typ) : w = StructAt(y, j)
    BY <2>3
  <2>5. x \in WayType /\ y \in WayType
    BY WaysType
  <2>6. x.index = y.index /\ i = j
    BY <2>2, <2>4, <2>5, StructsApart
  <2>7. x = y
    BY <1>2, <2>6
  <2> QED  BY <2>2, <2>4, <2>6, <2>7
<1> HIDE DEF S
<1>3. Nat \subseteq S
  BY <1>1, <1>2, Counting
<1> QED  BY <1>3 DEF S

\* The fields of a struct.
LEMMA FieldAtFacts ==
  ASSUME decl \in Graphs, NEW w \in WayType, NEW i \in RecordedIn(w.typ)
  PROVE  /\ FieldAt(w, i) \in FieldType
         /\ FieldAt(w, i).index = Append(w.index, i)
         /\ Len(FieldAt(w, i).index) = Len(w.index) + 1
<1>1. w.typ \in Structs /\ w.index \in Seq(Nat)
  BY DEF WayType
<1>2. i \in Nat /\ decl[w.typ][i] \in StructFields(Structs)
  BY <1>1, PositionsIn
<1>3. Append(w.index, i) \in Seq(Nat) /\ Len(Append(w.index, i)) = Len(w.index) + 1
  BY <1>1, <1>2, AppendFacts
<1>4. decl[w.typ][i].tag \in Nat /\ decl[w.typ][i].name \in Nat
  BY <1>2 DEF StructFields
<1> QED  BY <1>3, <1>4 DEF FieldAt, FieldType

\* A field is called the same however its struct is reached.
LEMMA SameName ==
  ASSUME NEW v, NEW w, NEW i, v.typ = w.typ
  PROVE  FieldAt(v, i).name = FieldAt(w, i).name /\ FieldAt(v, i).tag = FieldAt(w, i).tag
  BY DEF FieldAt

\* Two fields at one place are one.
LEMMA FieldsApart ==
  ASSUME decl \in Graphs, NEW n \in Nat, NEW m \in Nat, NEW v \in Ways[n], NEW w \in Ways[m],
         NEW i \in RecordedIn(v.typ), NEW j \in RecordedIn(w.typ),
         FieldAt(v, i).index = FieldAt(w, j).index
  PROVE  n = m /\ v = w /\ i = j
<1>1. v \in WayType /\ w \in WayType /\ Len(v.index) = n /\ Len(w.index) = m
  BY WaysType
<1>2. v.index \in Seq(Nat) /\ w.index \in Seq(Nat) /\ v.typ \in Structs /\ w.typ \in Structs
  BY <1>1 DEF WayType
<1>3. i \in Nat /\ j \in Nat
  BY <1>2, PositionsIn
<1>4. Append(v.index, i) = Append(w.index, j)
  BY <1>1, FieldAtFacts
<1>5. v.index = w.index /\ i = j
  <2>1. PICK a \in Seq(Nat), b \in Seq(Nat) : a = v.index /\ b = w.index
    BY <1>2
  <2>2. Append(a, i) = Append(b, j)
    BY <1>4, <2>1
  <2>3. a = b /\ i = j
    BY <1>3, <2>2, AppendSame
  <2> QED  BY <2>1, <2>3
<1>6. n = m
  BY <1>1, <1>5
<1> QED  BY <1>5, <1>6, WaysApart

-----------------------------------------------------------------------------
\* The types n ways down, and those less far down.
Reach(n) == {w.typ : w \in Ways[n]}
Earlier(n) == UNION {Reach(m) : m \in 0..(n - 1)}

\* One level more.
LEMMA EarlierNext ==
  /\ Earlier(0) = {}
  /\ \A n \in Nat : Earlier(n + 1) = Earlier(n) \cup Reach(n)
<1>1. Earlier(0) = {}
  BY DEF Earlier
<1>2. ASSUME NEW n \in Nat PROVE Earlier(n + 1) = Earlier(n) \cup Reach(n)
  <2>1. 0..((n + 1) - 1) = (0..(n - 1)) \cup {n}
    OBVIOUS
  <2> QED  BY <2>1 DEF Earlier
<1> QED  BY <1>1, <1>2

\* The types to which there is a shorter way.
LEMMA EarlierIs ==
  ASSUME NEW n \in Nat, NEW t
  PROVE  t \in Earlier(n) <=> \E m \in Nat : m < n /\ \E w \in Ways[m] : w.typ = t
  BY DEF Earlier, Reach

\* They are types declared.
LEMMA ReachTypes ==
  ASSUME decl \in Graphs, NEW n \in Nat
  PROVE  Reach(n) \subseteq Structs /\ Earlier(n) \subseteq Structs
<1>1. \A m \in Nat : Reach(m) \subseteq Structs
  BY WaysType DEF Reach, WayType
<1> QED  BY <1>1 DEF Earlier

\* What is in a struct less far down is less far down.
LEMMA InsideEarlier ==
  ASSUME decl \in Graphs, NEW n \in Nat, NEW t \in Earlier(n), NEW i \in EmbeddedIn(t)
  PROVE  decl[t][i].typ \in Earlier(n + 1)
<1>1. PICK m \in Nat : m < n /\ \E w \in Ways[m] : w.typ = t
  BY EarlierIs
<1>2. PICK w \in Ways[m] : w.typ = t
  BY <1>1
<1>3. StructAt(w, i) \in Ways[m + 1] /\ m + 1 < n + 1 /\ m + 1 \in Nat /\ n + 1 \in Nat
  BY <1>1, <1>2, WayStep
<1>4. StructAt(w, i).typ = decl[t][i].typ
  BY <1>2, WaysType, StructAtFacts
<1> QED  BY <1>3, <1>4, EarlierIs

\* There is no first way to a type with as many types less far down as there
\* are types.
LEMMA EarlierMany ==
  ASSUME decl \in Graphs
  PROVE  \A n \in Nat : Reach(n) \ Earlier(n) # {} => Cardinality(Earlier(n)) >= n
<1> DEFINE S == {n \in Nat : Reach(n) \ Earlier(n) # {} => Cardinality(Earlier(n)) >= n}
<1>0. \A n \in Nat : IsFiniteSet(Earlier(n)) /\ Cardinality(Earlier(n)) \in Nat
  BY ReachTypes, GraphFacts, FS_Subset, FS_CardinalityType
<1>1. 0 \in S
  BY <1>0
<1>2. ASSUME NEW n \in Nat, n \in S PROVE n + 1 \in S
  <2> SUFFICES ASSUME Reach(n + 1) \ Earlier(n + 1) # {} PROVE Cardinality(Earlier(n + 1)) >= n + 1
    OBVIOUS
  <2>1. PICK w \in Ways[n + 1] : w.typ \notin Earlier(n + 1)
    BY DEF Reach
  <2>2. PICK v \in Ways[n] : \E i \in EmbeddedIn(v.typ) : w = StructAt(v, i)
    BY WayStep
  <2>3. PICK i \in EmbeddedIn(v.typ) : w = StructAt(v, i)
    BY <2>2
  <2>4. w.typ = decl[v.typ][i].typ
    BY <2>3, WaysType, StructAtFacts
  <2>5. v.typ \notin Earlier(n)
    BY <2>1, <2>4, InsideEarlier
  <2>6. v.typ \in Reach(n)
    BY DEF Reach
  <2>7. Cardinality(Earlier(n)) >= n
    BY <1>2, <2>5, <2>6
  <2>8. Earlier(n) \subseteq Earlier(n + 1) /\ v.typ \in Earlier(n + 1)
    BY <2>6, EarlierNext
  <2>9. IsFiniteSet(Earlier(n + 1)) /\ Cardinality(Earlier(n)) \in Nat /\ Cardinality(Earlier(n + 1)) \in Nat
    BY <1>0
  <2>10. Cardinality(Earlier(n)) <= Cardinality(Earlier(n + 1))
         /\ (Cardinality(Earlier(n + 1)) = Cardinality(Earlier(n)) => Earlier(n + 1) = Earlier(n))
    BY <2>8, <2>9, FS_Subset
  <2> QED  BY <2>5, <2>7, <2>8, <2>9, <2>10
<1> HIDE DEF S
<1>3. Nat \subseteq S
  BY <1>1, <1>2, Counting
<1> QED  BY <1>3 DEF S

\* So the first way to a type is no longer than there are types.
LEMMA FirstWaysShort ==
  ASSUME decl \in Graphs, NEW n \in Nat, NEW w \in Ways[n], w.typ \notin Earlier(n)
  PROVE  n \in Depths
<1>1. w.typ \in Reach(n)
  BY DEF Reach
<1>2. Cardinality(Earlier(n)) >= n
  BY <1>1, EarlierMany
<1>3. Earlier(n) \subseteq Structs /\ IsFiniteSet(Structs)
  BY ReachTypes, GraphFacts
<1>4. Cardinality(Earlier(n)) <= Cardinality(Structs) /\ IsFiniteSet(Earlier(n))
  BY <1>3, FS_Subset
<1>5. Cardinality(Earlier(n)) \in Nat /\ Cardinality(Structs) \in Nat
  BY <1>3, <1>4, FS_CardinalityType
<1> QED  BY <1>2, <1>4, <1>5 DEF Depths

\* Where no type is new, none is further down.
LEMMA NothingFurther ==
  ASSUME decl \in Graphs, NEW n \in Nat, Reach(n) \subseteq Earlier(n)
  PROVE  \A m \in Nat : Reach(m) \subseteq Earlier(n)
<1> DEFINE S == {m \in Nat : Reach(m) \subseteq Earlier(n)}
<1>1. 0 \in S
  <2>1. CASE n = 0
    BY <2>1
  <2>2. CASE n # 0
    BY <2>2 DEF Earlier
  <2> QED  BY <2>1, <2>2
<1>2. ASSUME NEW m \in Nat, m \in S PROVE m + 1 \in S
  <2> SUFFICES ASSUME NEW w \in Ways[m + 1] PROVE w.typ \in Earlier(n)
    BY DEF Reach
  <2>1. PICK v \in Ways[m] : \E i \in EmbeddedIn(v.typ) : w = StructAt(v, i)
    BY WayStep
  <2>2. PICK i \in EmbeddedIn(v.typ) : w = StructAt(v, i)
    BY <2>1
  <2>3. w.typ = decl[v.typ][i].typ
    BY <2>2, WaysType, StructAtFacts
  <2>4. v.typ \in Earlier(n)
    BY <1>2 DEF Reach
  <2>5. w.typ \in Earlier(n + 1)
    BY <2>3, <2>4, InsideEarlier
  <2> QED  BY <2>5, EarlierNext
<1> HIDE DEF S
<1>3. Nat \subseteq S
  BY <1>1, <1>2, Counting
<1> QED  BY <1>3 DEF S

-----------------------------------------------------------------------------
(* The search *)

\* The condition of GoRulesUnlessShared.
Unshared == ~SharedEmbedder

\* Two of the ways W end at t.
Twice(t, W) == \E v, w \in W : v # w /\ v.typ = t /\ w.typ = t

\* One of them does.
Ends(t, W) == \E w \in W : w.typ = t

\* s embeds t, and does so twice.
Embeds(s, t) == \E i : i \in EmbeddedAs(t, s)
EmbedsTwice(s, t) == \E i, j \in EmbeddedAs(t, s) : i # j

\* The ways to the structs scanned at level d, and those one further down.
Scanned(d, vis) == {v \in Ways[d] : v.typ \in vis \ Earlier(d)}
Seen(d, vis) == Down(Scanned(d, vis))

\* What is queued at level d are ways of its length, and of one more.
Queues(d, cur, nxt) ==
  /\ \A k \in 1..Len(cur) : cur[k] \in Ways[d]
  /\ \A k \in 1..Len(nxt) : nxt[k] \in Ways[d + 1]

\* All types less far down were scanned, and those at this level were or will
\* be.
Visits(d, cur, vis) ==
  /\ Earlier(d) \subseteq vis /\ vis \subseteq Earlier(d + 1)
  /\ \A t \in Earlier(d + 1) : t \in vis \/ \E k \in 1..Len(cur) : cur[k].typ = t

\* t is in the queue.
Waits(t, nxt) == \E k \in 1..Len(nxt) : nxt[k].typ = t

\* What was met below the structs scanned is queued, and counted; unless a
\* shared struct embeds another, to the number that matters.
NextCounted(d, nxt, ncnt, vis) ==
  \A t \in Structs :
    /\ Waits(t, nxt) <=> Ends(t, Seen(d, vis))
    /\ ncnt[t] > 0 <=> Ends(t, Seen(d, vis))
    /\ Unshared => (ncnt[t] > 1 <=> Twice(t, Seen(d, vis)))

\* And so it was for this level.
Counted(d, cnt, vis) ==
  Unshared => \A t \in Structs \ vis : cnt[t] > 1 <=> Twice(t, Ways[d])

\* h is a shortest way to each type scanned.
FirstWay(vis, h) ==
  /\ h = [t \in vis |-> h[t]]
  /\ \A t \in vis : h[t].typ = t /\ \E n \in Nat : h[t] \in Ways[n] /\ t \notin Earlier(n)

\* The fields are those of the types scanned, by these ways.
FieldsFound(flds, vis, h) ==
  /\ \A k \in 1..Len(flds) : \E t \in vis : \E i \in RecordedIn(t) : flds[k] = FieldAt(h[t], i)
  /\ \A t \in vis : \A i \in RecordedIn(t) : \E k \in 1..Len(flds) : flds[k] = FieldAt(h[t], i)

\* It is there twice.
Again(flds, k) == \E l \in 1..Len(flds) : l # k /\ flds[l] = flds[k]

\* A field is there twice if there is another shortest way to its struct.
FieldsTwice(flds, vis, h) ==
  Unshared =>
    \A n \in Nat : \A t \in vis : \A i \in RecordedIn(t) : \A k \in 1..Len(flds) :
      h[t] \in Ways[n] /\ flds[k] = FieldAt(h[t], i) => (Again(flds, k) <=> Twice(t, Ways[n]))

-----------------------------------------------------------------------------
\* None, one or more in a finite set.
LEMMA SizeFacts ==
  ASSUME NEW S, IsFiniteSet(S)
  PROVE  /\ Cardinality(S) \in Nat
         /\ Cardinality(S) > 0 <=> \E x : x \in S
         /\ Cardinality(S) > 1 <=> \E x, y \in S : x # y
         /\ Cardinality(S) = 1 <=> \E x : S = {x}
<1>1. Cardinality(S) \in Nat
  BY FS_CardinalityType
<1>2. Cardinality(S) = 0 <=> S = {}
  BY FS_EmptySet
<1>3. Cardinality(S) = 1 <=> \E x : S = {x}
  BY FS_Singleton
<1>4. (\E x, y \in S : x # y) <=> ~(S = {} \/ \E x : S = {x})
  OBVIOUS
<1> QED  BY <1>1, <1>2, <1>3, <1>4

\* What a struct adds to the queue (encode.go:723-732).
LEMMA QueuedFacts ==
  ASSUME decl \in Graphs, nextCount \in [Structs -> Nat], NEW f \in WayType
  PROVE  /\ Queued(f) \in Seq(WayType)
         /\ \A k \in 1..Len(Queued(f)) : \E i \in EmbeddedIn(f.typ) : Queued(f)[k] = StructAt(f, i)
         /\ \A i \in EmbeddedIn(f.typ) : nextCount[decl[f.typ][i].typ] = 0 =>
              \E k \in 1..Len(Queued(f)) : Queued(f)[k].typ = decl[f.typ][i].typ
<1> DEFINE E == EmbeddedIn(f.typ)
           New == {i \in E : nextCount[decl[f.typ][i].typ] = 0
                     /\ \A j \in E : j < i => decl[f.typ][j].typ # decl[f.typ][i].typ}
           at == Positions(New)
<1>1. f.typ \in Structs
  BY DEF WayType
<1>2. E \subseteq Nat /\ IsFiniteSet(E)
  BY <1>1, PositionsIn
<1>3. New \subseteq E /\ New \subseteq Nat /\ IsFiniteSet(New)
  BY <1>2, FS_Subset
<1>4. Queued(f) = [k \in DOMAIN at |-> StructAt(f, at[k])]
  BY DEF Queued
<1>5. ASSUME NEW i \in E, nextCount[decl[f.typ][i].typ] = 0
      PROVE  \E j \in New : decl[f.typ][j].typ = decl[f.typ][i].typ
  <2> DEFINE Q == {j \in E : decl[f.typ][j].typ = decl[f.typ][i].typ}
  <2>1. Q \subseteq Nat /\ Q # {}
    BY <1>2
  <2>2. PICK j \in Q : \A l \in Q : j <= l
    BY <2>1, Least
  <2>3. j \in E /\ j \in Nat /\ decl[f.typ][j].typ = decl[f.typ][i].typ
    BY <1>2, <2>2
  <2>4. \A l \in E : l < j => decl[f.typ][l].typ # decl[f.typ][j].typ
    BY <1>2, <2>2, <2>3
  <2> QED  BY <1>5, <2>3, <2>4
<1> HIDE DEF New
<1>6. /\ at \in Seq(New)
      /\ \A i \in New : \E k \in 1..Len(at) : at[k] = i
  BY <1>3, PositionsList
<1> HIDE DEF at
<1>7. DOMAIN at = 1..Len(at) /\ Len(at) \in Nat /\ \A k \in 1..Len(at) : at[k] \in E
  <2>1. DOMAIN at = 1..Len(at) /\ Len(at) \in Nat /\ \A k \in 1..Len(at) : at[k] \in New
    BY <1>6
  <2> QED  BY <1>3, <2>1
<1>8. \A i \in E : StructAt(f, i) \in WayType /\ StructAt(f, i).typ = decl[f.typ][i].typ
  BY StructAtFacts
<1> HIDE DEF E
<1>9. Queued(f) \in Seq(WayType) /\ Len(Queued(f)) = Len(at)
  BY <1>4, <1>7, <1>8
<1>10. \A k \in 1..Len(at) : Queued(f)[k] = StructAt(f, at[k])
  BY <1>4, <1>7
<1>11. ASSUME NEW i \in E, nextCount[decl[f.typ][i].typ] = 0
       PROVE  \E k \in 1..Len(at) : Queued(f)[k].typ = decl[f.typ][i].typ
  <2>1. PICK j \in New : decl[f.typ][j].typ = decl[f.typ][i].typ
    BY <1>5, <1>11
  <2>2. PICK k \in 1..Len(at) : at[k] = j
    BY <1>6
  <2>3. Queued(f)[k] = StructAt(f, j) /\ j \in E
    BY <1>3, <1>10, <2>2
  <2>4. StructAt(f, j).typ = decl[f.typ][j].typ
    BY <1>8, <2>3
  <2> QED  BY <2>1, <2>3, <2>4
<1>12. \A k \in 1..Len(at) : \E i \in E : Queued(f)[k] = StructAt(f, i)
  BY <1>7, <1>10
<1> QED  BY <1>9, <1>11, <1>12 DEF E

\* And to the fields, twice if it was met more than once (encode.go:700-722).
LEMMA FoundFacts ==
  ASSUME decl \in Graphs, count \in [Structs -> Nat], NEW f \in WayType
  PROVE  /\ Found(f) \in Seq(FieldType)
         /\ \A k \in 1..Len(Found(f)) : \E i \in RecordedIn(f.typ) : Found(f)[k] = FieldAt(f, i)
         /\ \A i \in RecordedIn(f.typ) : \E k \in 1..Len(Found(f)) : Found(f)[k] = FieldAt(f, i)
         /\ \A k \in 1..Len(Found(f)) : Again(Found(f), k) <=> count[f.typ] > 1
<1> DEFINE R == RecordedIn(f.typ)
           at == Positions(R)
           once == [k \in DOMAIN at |-> FieldAt(f, at[k])]
           n == Len(at)
<1>1. f.typ \in Structs /\ f.index \in Seq(Nat)
  BY DEF WayType
<1>2. R \subseteq Nat /\ IsFiniteSet(R)
  BY <1>1, PositionsIn
<1>3. /\ at \in Seq(R)
      /\ \A i \in R : \E k \in 1..Len(at) : at[k] = i
      /\ \A k, l \in 1..Len(at) : at[k] = at[l] => k = l
  BY <1>2, PositionsList
<1>4. Found(f) = IF count[f.typ] > 1 THEN [k \in 1..(2 * Len(once)) |-> once[(k + 1) \div 2]] ELSE once
  BY DEF Found
<1> HIDE DEF at
<1>5. n \in Nat /\ DOMAIN at = 1..n /\ \A k \in 1..n : at[k] \in R
  BY <1>3
<1>6. \A i \in R : FieldAt(f, i) \in FieldType /\ FieldAt(f, i).index = Append(f.index, i)
  BY FieldAtFacts
<1> HIDE DEF R
<1>7. once \in Seq(FieldType) /\ Len(once) = n /\ DOMAIN once = 1..n /\ \A k \in 1..n : once[k] = FieldAt(f, at[k])
  BY <1>5, <1>6
<1> HIDE DEF once
<1>8. ASSUME NEW k \in 1..n, NEW l \in 1..n, once[k] = once[l] PROVE k = l
  <2>1. at[k] \in R /\ at[l] \in R /\ at[k] \in Nat /\ at[l] \in Nat
    BY <1>2, <1>5
  <2>2. Append(f.index, at[k]) = Append(f.index, at[l])
    BY <1>6, <1>7, <1>8, <2>1
  <2>3. PICK s \in Seq(Nat), a \in Nat, b \in Nat : s = f.index /\ a = at[k] /\ b = at[l]
    BY <1>1, <2>1
  <2>4. Append(s, a) = Append(s, b)
    BY <2>2, <2>3
  <2>5. a = b
    BY <2>4, AppendSame
  <2> QED  BY <1>3, <2>3, <2>5 DEF n
<1>9. \A i \in R : \E k \in 1..n : once[k] = FieldAt(f, i)
  BY <1>3, <1>7
<1>10. \A k \in 1..n : \E i \in R : once[k] = FieldAt(f, i)
  BY <1>5, <1>7
<1> HIDE DEF n
<1>11. CASE ~(count[f.typ] > 1)
  <2>1. Found(f) = once
    BY <1>4, <1>11
  <2>2. \A k \in 1..n : ~Again(once, k)
    BY <1>7, <1>8 DEF Again
  <2> QED  BY <1>7, <1>9, <1>10, <1>11, <2>1, <2>2 DEF R
<1>12. CASE count[f.typ] > 1
  <2> DEFINE u == [k \in 1..(2 * n) |-> once[(k + 1) \div 2]]
  <2>1. Found(f) = u
    BY <1>4, <1>7, <1>12
  <2>2. \A k \in 1..(2 * n) : (k + 1) \div 2 \in 1..n
    BY <1>5
  <2>3. u \in Seq(FieldType) /\ Len(u) = 2 * n
    BY <1>5, <1>7, <2>2
  <2>4. \A k \in 1..(2 * n) : u[k] = once[(k + 1) \div 2]
    OBVIOUS
  <2> HIDE DEF u
  <2>5. ASSUME NEW k \in 1..(2 * n) PROVE Again(u, k)
    <3>1. CASE (k + 1) \div 2 = (k + 2) \div 2
      <4>1. k + 1 \in 1..(2 * n) /\ k + 1 # k
        BY <1>5, <3>1
      <4>2. u[k + 1] = once[(k + 2) \div 2]
        BY <2>4, <4>1
      <4> QED  BY <2>3, <2>4, <3>1, <4>1, <4>2 DEF Again
    <3>2. CASE (k + 1) \div 2 # (k + 2) \div 2
      <4>1. k - 1 \in 1..(2 * n) /\ k - 1 # k /\ ((k - 1) + 1) \div 2 = (k + 1) \div 2
        BY <1>5, <3>2
      <4>2. u[k - 1] = once[((k - 1) + 1) \div 2]
        BY <2>4, <4>1
      <4> QED  BY <2>3, <2>4, <4>1, <4>2 DEF Again
    <3> QED  BY <3>1, <3>2
  <2>6. \A k \in 1..(2 * n) : \E i \in R : u[k] = FieldAt(f, i)
    BY <1>10, <2>2, <2>4
  <2>7. ASSUME NEW i \in R PROVE \E k \in 1..(2 * n) : u[k] = FieldAt(f, i)
    <3>1. PICK k \in 1..n : once[k] = FieldAt(f, i)
      BY <1>9
    <3>2. 2 * k \in 1..(2 * n) /\ (2 * k + 1) \div 2 = k
      BY <1>5
    <3>3. u[2 * k] = once[k]
      BY <2>4, <3>2
    <3> QED  BY <3>1, <3>2, <3>3
  <2> QED  BY <1>12, <2>1, <2>3, <2>5, <2>6, <2>7 DEF R
<1> QED  BY <1>11, <1>12

-----------------------------------------------------------------------------
(* A struct is scanned *)

\* What is one below the structs scanned.
LEMMA SeenIs ==
  ASSUME NEW d, NEW vis, NEW w
  PROVE  w \in Seen(d, vis) <=>
           \E v \in Ways[d] : v.typ \in vis /\ v.typ \notin Earlier(d) /\ \E i \in EmbeddedIn(v.typ) : w = StructAt(v, i)
  BY DEF Seen, Scanned, Down

\* What is found below the struct scanned.
LEMMA SeenMore ==
  ASSUME decl \in Graphs, NEW d \in Nat, NEW vis, NEW f \in Ways[d], f.typ \notin vis, Earlier(d) \subseteq vis,
         NEW w
  PROVE  w \in Seen(d, vis \cup {f.typ}) <=>
           w \in Seen(d, vis) \/ \E v \in Ways[d] : v.typ = f.typ /\ \E i \in EmbeddedIn(f.typ) : w = StructAt(v, i)
<1>1. f.typ \notin Earlier(d)
  OBVIOUS
<1> QED  BY <1>1, SeenIs

\* Its types, by the positions in f.
LEMMA SeenTypes ==
  ASSUME decl \in Graphs, NEW d \in Nat, NEW vis, NEW f \in Ways[d], f.typ \notin vis, Earlier(d) \subseteq vis,
         NEW t
  PROVE  Ends(t, Seen(d, vis \cup {f.typ})) <=> Ends(t, Seen(d, vis)) \/ Embeds(f.typ, t)
<1>1. \A v \in Ways[d] : v.typ = f.typ => \A i \in EmbeddedIn(f.typ) : StructAt(v, i).typ = decl[f.typ][i].typ
  BY WaysType, StructAtFacts
<1>2. ASSUME NEW w \in Seen(d, vis \cup {f.typ}), w.typ = t
      PROVE  (\E x \in Seen(d, vis) : x.typ = t) \/ \E i \in EmbeddedIn(f.typ) : decl[f.typ][i].typ = t
  <2>1. w \in Seen(d, vis) \/ \E v \in Ways[d] : v.typ = f.typ /\ \E i \in EmbeddedIn(f.typ) : w = StructAt(v, i)
    BY SeenMore
  <2> QED  BY <1>1, <1>2, <2>1
<1>3. ASSUME NEW w \in Seen(d, vis), w.typ = t
      PROVE  \E x \in Seen(d, vis \cup {f.typ}) : x.typ = t
  BY <1>3, SeenMore
<1>4. ASSUME NEW i \in EmbeddedIn(f.typ), decl[f.typ][i].typ = t
      PROVE  \E x \in Seen(d, vis \cup {f.typ}) : x.typ = t
  <2>1. StructAt(f, i) \in Seen(d, vis \cup {f.typ})
    BY SeenMore
  <2> QED  BY <1>1, <1>4, <2>1
<1>5. Embeds(f.typ, t) <=> \E i \in EmbeddedIn(f.typ) : decl[f.typ][i].typ = t
  BY DEF Embeds, EmbeddedAs
<1> QED  BY <1>2, <1>3, <1>4, <1>5 DEF Ends

\* A struct with structs in it is reached by one way, unless there is a
\* shared embedder.
LEMMA OneWay ==
  ASSUME decl \in Graphs, Unshared, NEW d \in Nat, NEW f \in Ways[d], f.typ \notin Earlier(d),
         EmbeddedIn(f.typ) # {}, NEW v \in Ways[d], v.typ = f.typ
  PROVE  v = f
<1>1. d \in Depths
  BY FirstWaysShort
<1> QED  BY <1>1 DEF Unshared, SharedEmbedder

\* Which types are there twice.
LEMMA SeenTwice ==
  ASSUME decl \in Graphs, Unshared, NEW d \in Nat, NEW vis, NEW f \in Ways[d], f.typ \notin vis,
         Earlier(d) \subseteq vis, NEW t
  PROVE  Twice(t, Seen(d, vis \cup {f.typ})) <=>
           \/ Twice(t, Seen(d, vis))
           \/ Ends(t, Seen(d, vis)) /\ Embeds(f.typ, t)
           \/ EmbedsTwice(f.typ, t)
<1> DEFINE E == EmbeddedIn(f.typ)
           S == Seen(d, vis)
           T == Seen(d, vis \cup {f.typ})
<1>1. f \in WayType /\ f.typ \notin Earlier(d)
  BY WaysType
<1>2. ASSUME NEW w \in T, w \notin S PROVE \E i \in E : w = StructAt(f, i)
  <2>1. PICK v \in Ways[d] : v.typ = f.typ /\ \E i \in E : w = StructAt(v, i)
    BY <1>2, SeenMore
  <2>2. v = f
    BY <1>1, <2>1, OneWay
  <2> QED  BY <2>1, <2>2
<1>3. S \subseteq T
  BY SeenMore
<1>4. ASSUME NEW i \in E PROVE StructAt(f, i) \in T /\ StructAt(f, i) \notin S /\ StructAt(f, i).typ = decl[f.typ][i].typ
  <2>1. StructAt(f, i) \in T
    BY SeenMore
  <2>2. ASSUME StructAt(f, i) \in S PROVE FALSE
    <3>1. PICK v \in Ways[d] : v.typ \in vis /\ \E j \in EmbeddedIn(v.typ) : StructAt(f, i) = StructAt(v, j)
      BY <2>2, SeenIs
    <3>2. PICK j \in EmbeddedIn(v.typ) : StructAt(f, i) = StructAt(v, j)
      BY <3>1
    <3>3. v \in WayType
      BY WaysType
    <3>4. f.index = v.index
      BY <1>1, <3>2, <3>3, StructsApart
    <3>5. f = v
      BY <3>4, WaysApart
    <3> QED  BY <3>1, <3>5
  <2>3. StructAt(f, i).typ = decl[f.typ][i].typ
    BY <1>1, StructAtFacts
  <2> QED  BY <2>1, <2>2, <2>3
<1>5. ASSUME NEW i \in E, NEW j \in E, i # j PROVE StructAt(f, i) # StructAt(f, j)
  BY <1>1, <1>5, StructsApart
<1> HIDE DEF E, S, T
<1>6. ASSUME Twice(t, T)
      PROVE  \/ Twice(t, S)
             \/ (\E w \in S : w.typ = t) /\ \E i \in E : decl[f.typ][i].typ = t
             \/ \E i, j \in E : i # j /\ decl[f.typ][i].typ = t /\ decl[f.typ][j].typ = t
  <2>1. PICK v \in T, w \in T : v # w /\ v.typ = t /\ w.typ = t
    BY <1>6 DEF Twice
  <2>2. CASE v \in S /\ w \in S
    BY <2>1, <2>2 DEF Twice
  <2>3. CASE v \notin S /\ w \in S
    <3>1. PICK i \in E : v = StructAt(f, i)
      BY <1>2, <2>3
    <3> QED  BY <1>4, <2>1, <2>3, <3>1
  <2>4. CASE v \in S /\ w \notin S
    <3>1. PICK i \in E : w = StructAt(f, i)
      BY <1>2, <2>4
    <3> QED  BY <1>4, <2>1, <2>4, <3>1
  <2>5. CASE v \notin S /\ w \notin S
    <3>1. PICK i \in E : v = StructAt(f, i)
      BY <1>2, <2>5
    <3>2. PICK j \in E : w = StructAt(f, j)
      BY <1>2, <2>5
    <3>3. i # j
      BY <2>1, <3>1, <3>2
    <3> QED  BY <1>4, <2>1, <3>1, <3>2, <3>3
  <2> QED  BY <2>2, <2>3, <2>4, <2>5
<1>7. ASSUME Twice(t, S) PROVE Twice(t, T)
  BY <1>3, <1>7 DEF Twice
<1>8. ASSUME NEW w \in S, w.typ = t, NEW i \in E, decl[f.typ][i].typ = t PROVE Twice(t, T)
  <2>1. StructAt(f, i) \in T /\ StructAt(f, i) # w /\ StructAt(f, i).typ = t /\ w \in T
    BY <1>3, <1>4, <1>8
  <2> QED  BY <1>8, <2>1 DEF Twice
<1>9. ASSUME NEW i \in E, NEW j \in E, i # j, decl[f.typ][i].typ = t, decl[f.typ][j].typ = t PROVE Twice(t, T)
  <2>1. /\ StructAt(f, i) \in T /\ StructAt(f, j) \in T /\ StructAt(f, i) # StructAt(f, j)
        /\ StructAt(f, i).typ = t /\ StructAt(f, j).typ = t
    BY <1>4, <1>5, <1>9
  <2> QED  BY <2>1 DEF Twice
<1>10. Twice(t, T) <=>
         \/ Twice(t, S)
         \/ (\E w \in S : w.typ = t) /\ \E i \in E : decl[f.typ][i].typ = t
         \/ \E i, j \in E : i # j /\ decl[f.typ][i].typ = t /\ decl[f.typ][j].typ = t
  BY <1>6, <1>7, <1>8, <1>9
<1>11. /\ Embeds(f.typ, t) <=> \E i \in E : decl[f.typ][i].typ = t
       /\ EmbedsTwice(f.typ, t) <=> \E i, j \in E : i # j /\ decl[f.typ][i].typ = t /\ decl[f.typ][j].typ = t
  BY DEF Embeds, EmbedsTwice, EmbeddedAs, E
<1>12. Ends(t, S) <=> \E w \in S : w.typ = t
  BY DEF Ends
<1>13. Twice(t, T) <=> \/ Twice(t, S) \/ (Ends(t, S) /\ Embeds(f.typ, t)) \/ EmbedsTwice(f.typ, t)
  BY <1>10, <1>11, <1>12
<1> QED  BY <1>13 DEF S, T

-----------------------------------------------------------------------------
\* Where all structs of a level are scanned, all below them are seen, except
\* those of types less far down.
LEMMA AllSeen ==
  ASSUME decl \in Graphs, NEW d \in Nat, NEW vis, vis = Earlier(d + 1), NEW w \in Ways[d + 1],
         w.typ \notin Earlier(d + 1)
  PROVE  w \in Seen(d, vis)
<1>1. PICK v \in Ways[d] : \E i \in EmbeddedIn(v.typ) : w = StructAt(v, i)
  BY WayStep
<1>2. PICK i \in EmbeddedIn(v.typ) : w = StructAt(v, i)
  BY <1>1
<1>3. w.typ = decl[v.typ][i].typ
  BY <1>2, WaysType, StructAtFacts
<1>4. v.typ \notin Earlier(d)
  BY <1>3, InsideEarlier
<1>5. v.typ \in vis
  BY EarlierNext DEF Reach
<1> QED  BY <1>1, <1>4, <1>5, SeenIs

\* They are ways.
LEMMA SeenWays ==
  ASSUME NEW d \in Nat, NEW vis
  PROVE  Seen(d, vis) \subseteq Ways[d + 1]
  BY SeenIs, WayStep

-----------------------------------------------------------------------------
\* The struct scanned is counted, and queued.
LEMMA ScanCounts ==
  ASSUME decl \in Graphs, nextCount \in [Structs -> Nat], next \in Seq(WayType),
         NEW d \in Nat, NEW vis, NEW f \in Ways[d], f.typ \notin vis, Earlier(d) \subseteq vis,
         NextCounted(d, next, nextCount, vis),
         NEW ncnt, ncnt = [t \in Structs |-> nextCount[t] + Cardinality(EmbeddedAs(t, f.typ))]
  PROVE  NextCounted(d, next \o Queued(f), ncnt, vis \cup {f.typ}) /\ ncnt \in [Structs -> Nat]
<1> DEFINE s == f.typ
           E == EmbeddedIn(f.typ)
           q == Queued(f)
<1>1. f \in WayType /\ f.typ \in Structs
  BY WaysType DEF WayType
<1>2. /\ q \in Seq(WayType)
      /\ \A k \in 1..Len(q) : \E i \in E : q[k] = StructAt(f, i)
      /\ \A i \in E : nextCount[decl[f.typ][i].typ] = 0 => \E k \in 1..Len(q) : q[k].typ = decl[f.typ][i].typ
  BY <1>1, QueuedFacts
<1>3. IsFiniteSet(E)
  BY <1>1, PositionsIn
<1>4. ASSUME NEW t
      PROVE  /\ Cardinality(EmbeddedAs(t, s)) \in Nat
             /\ Cardinality(EmbeddedAs(t, s)) > 0 <=> Embeds(s, t)
             /\ Cardinality(EmbeddedAs(t, s)) > 1 <=> EmbedsTwice(s, t)
  <2>1. EmbeddedAs(t, s) \subseteq E
    BY DEF EmbeddedAs
  <2>2. IsFiniteSet(EmbeddedAs(t, s))
    BY <1>3, <2>1, FS_Subset
  <2> QED  BY <2>2, SizeFacts DEF Embeds, EmbedsTwice
<1>5. \A i \in E : StructAt(f, i).typ = decl[f.typ][i].typ
  BY <1>1, StructAtFacts
<1>6. /\ \A t \in Structs : ncnt[t] = nextCount[t] + Cardinality(EmbeddedAs(t, s))
      /\ ncnt \in [Structs -> Nat]
  BY <1>4
<1>7. ASSUME NEW t PROVE Waits(t, q) => Embeds(s, t)
  BY <1>2, <1>5 DEF Waits, Embeds, EmbeddedAs
<1>8. ASSUME NEW t, Embeds(s, t), nextCount[t] = 0 PROVE Waits(t, q)
  BY <1>2, <1>8 DEF Waits, Embeds, EmbeddedAs
<1> HIDE DEF q
<1>9. ASSUME NEW t PROVE Waits(t, next \o q) <=> Waits(t, next) \/ Waits(t, q)
  <2>1. PICK a \in Nat, b \in Nat : a = Len(next) /\ b = Len(q)
    BY <1>2
  <2>2. /\ Len(next \o q) = a + b
        /\ \A k \in 1..(a + b) : (next \o q)[k] = IF k <= a THEN next[k] ELSE q[k - a]
    BY <1>2, <2>1, ConcatProperties
  <2>3. ASSUME NEW k \in 1..a PROVE k \in 1..(a + b) /\ (next \o q)[k] = next[k]
    BY <2>2
  <2>4. ASSUME NEW k \in 1..b PROVE k + a \in 1..(a + b) /\ (next \o q)[k + a] = q[k]
    <3>1. k + a \in 1..(a + b) /\ ~(k + a <= a) /\ (k + a) - a = k
      OBVIOUS
    <3> QED  BY <2>2, <3>1
  <2>5. ASSUME NEW k \in 1..(a + b) PROVE (k \in 1..a /\ (next \o q)[k] = next[k])
                                         \/ (k - a \in 1..b /\ (next \o q)[k] = q[k - a])
    BY <2>2
  <2>6. PICK j : j = next \o q
    OBVIOUS
  <2>7. /\ Waits(t, j) <=> \E k \in 1..(a + b) : j[k].typ = t
        /\ Waits(t, next) <=> \E k \in 1..a : next[k].typ = t
        /\ Waits(t, q) <=> \E k \in 1..b : q[k].typ = t
    BY <2>1, <2>2, <2>6 DEF Waits
  <2>8. ASSUME Waits(t, j) PROVE Waits(t, next) \/ Waits(t, q)
    BY <2>5, <2>6, <2>7, <2>8
  <2>9. Waits(t, next) => Waits(t, j)
    BY <2>3, <2>6, <2>7
  <2>10. Waits(t, q) => Waits(t, j)
    BY <2>4, <2>6, <2>7
  <2> QED  BY <2>6, <2>8, <2>9, <2>10
<1> DEFINE S == Seen(d, vis)
           T == Seen(d, vis \cup {f.typ})
<1>10. \A t : Ends(t, T) <=> Ends(t, S) \/ Embeds(s, t)
  BY SeenTypes
<1>11. Unshared => \A t : Twice(t, T) <=> Twice(t, S) \/ (Ends(t, S) /\ Embeds(s, t)) \/ EmbedsTwice(s, t)
  BY SeenTwice
<1>12. \A t \in Structs :
         /\ Waits(t, next) <=> Ends(t, S)
         /\ nextCount[t] > 0 <=> Ends(t, S)
         /\ Unshared => (nextCount[t] > 1 <=> Twice(t, S))
  BY DEF NextCounted
<1> HIDE DEF s, E, S, T
<1>13. ASSUME NEW t \in Structs
       PROVE  /\ Waits(t, next \o q) <=> Ends(t, T)
              /\ ncnt[t] > 0 <=> Ends(t, T)
              /\ Unshared => (ncnt[t] > 1 <=> Twice(t, T))
  <2>1. PICK a \in Nat, b \in Nat : a = nextCount[t] /\ b = Cardinality(EmbeddedAs(t, s))
    BY <1>4
  <2>2. ncnt[t] = a + b
    BY <1>6, <2>1
  <2>3. a > 0 <=> Ends(t, S)
    BY <1>12, <2>1
  <2>4. Unshared => (a > 1 <=> Twice(t, S))
    BY <1>12, <2>1
  <2>5. (b > 0 <=> Embeds(s, t)) /\ (b > 1 <=> EmbedsTwice(s, t))
    BY <1>4, <2>1
  <2>6. a + b > 0 <=> Ends(t, T)
    BY <1>10, <2>3, <2>5
  <2>7. ASSUME Unshared PROVE a + b > 1 <=> Twice(t, T)
    <3>1. a + b > 1 <=> a > 1 \/ b > 1 \/ (a > 0 /\ b > 0)
      OBVIOUS
    <3>2. Twice(t, T) <=> Twice(t, S) \/ (Ends(t, S) /\ Embeds(s, t)) \/ EmbedsTwice(s, t)
      BY <1>11, <2>7
    <3>3. a > 1 <=> Twice(t, S)
      BY <2>4, <2>7
    <3> QED  BY <2>3, <2>5, <3>1, <3>2, <3>3
  <2>8. Waits(t, next \o q) <=> Ends(t, T)
    <3>1. Waits(t, next) <=> Ends(t, S)
      BY <1>12
    <3>2. Embeds(s, t) => Waits(t, next) \/ Waits(t, q)
      <4>1. CASE a = 0
        BY <1>8, <2>1, <4>1
      <4>2. CASE a # 0
        BY <2>3, <3>1, <4>2
      <4> QED  BY <4>1, <4>2
    <3> QED  BY <1>7, <1>9, <1>10, <3>1, <3>2
  <2> QED  BY <2>2, <2>6, <2>7, <2>8
<1>14. NextCounted(d, next \o q, ncnt, vis \cup {f.typ})
  BY <1>13 DEF NextCounted, T
<1> QED  BY <1>6, <1>14 DEF q

-----------------------------------------------------------------------------
(* Its fields are found *)

\* j is s, of length a, and then u, of length b.
Joins(j, s, a, u, b) ==
  /\ Len(j) = a + b
  /\ \A k \in 1..a : k \in 1..(a + b) /\ j[k] = s[k]
  /\ \A k \in 1..b : k + a \in 1..(a + b) /\ j[k + a] = u[k]
  /\ \A k \in 1..(a + b) : k \in 1..a \/ k - a \in 1..b

\* A concatenation joins.
LEMMA JoinFacts ==
  ASSUME NEW S, NEW s \in Seq(S), NEW u \in Seq(S), NEW a \in Nat, NEW b \in Nat, a = Len(s), b = Len(u)
  PROVE  s \o u \in Seq(S) /\ Joins(s \o u, s, a, u, b)
<1>1. /\ s \o u \in Seq(S) /\ Len(s \o u) = a + b
      /\ \A k \in 1..(a + b) : (s \o u)[k] = IF k <= a THEN s[k] ELSE u[k - a]
  BY ConcatProperties
<1>2. ASSUME NEW k \in 1..b PROVE k + a \in 1..(a + b) /\ (s \o u)[k + a] = u[k]
  <2>1. k + a \in 1..(a + b) /\ ~(k + a <= a) /\ (k + a) - a = k
    OBVIOUS
  <2> QED  BY <1>1, <2>1
<1>3. \A k \in 1..a : k \in 1..(a + b) /\ (s \o u)[k] = s[k]
  BY <1>1
<1> QED  BY <1>1, <1>2, <1>3 DEF Joins

\* In j a field is there again if it is in its part.
SharedAgain(j, s, a, u, b) ==
  /\ \A k \in 1..a : Again(j, k) <=> Again(s, k)
  /\ \A k \in 1..b : Again(j, k + a) <=> Again(u, k)

\* A field is there again in a list joined of two that share none.
LEMMA JoinAgain ==
  ASSUME NEW j, NEW s, NEW u, NEW a \in Nat, NEW b \in Nat, a = Len(s), b = Len(u),
         Joins(j, s, a, u, b), \A k \in 1..a : \A l \in 1..b : s[k] # u[l]
  PROVE  SharedAgain(j, s, a, u, b)
<1>1. Len(j) = a + b
  BY DEF Joins
<1>2. \A k \in 1..a : k \in 1..(a + b) /\ j[k] = s[k]
  BY DEF Joins
<1>3. \A k \in 1..b : k + a \in 1..(a + b) /\ j[k + a] = u[k]
  BY DEF Joins
<1>4. \A k \in 1..(a + b) : k \in 1..a \/ k - a \in 1..b
  BY DEF Joins
<1>5. ASSUME NEW k \in 1..a PROVE Again(j, k) <=> Again(s, k)
  <2>1. ASSUME Again(j, k) PROVE Again(s, k)
    <3>1. PICK l \in 1..(a + b) : l # k /\ j[l] = j[k]
      BY <1>1, <2>1 DEF Again
    <3>2. CASE l \in 1..a
      BY <1>2, <3>1, <3>2 DEF Again
    <3>3. CASE l - a \in 1..b
      <4>1. PICK m \in 1..b : m = l - a
        BY <3>3
      <4>2. m + a = l
        BY <4>1
      <4>3. j[l] = u[m]
        BY <1>3, <4>2
      <4> QED  BY <1>2, <3>1, <4>3
    <3> QED  BY <1>4, <3>2, <3>3
  <2>2. ASSUME Again(s, k) PROVE Again(j, k)
    <3>1. PICK l \in 1..a : l # k /\ s[l] = s[k]
      BY <2>2 DEF Again
    <3> QED  BY <1>1, <1>2, <3>1 DEF Again
  <2> QED  BY <2>1, <2>2
<1>6. ASSUME NEW k \in 1..b PROVE Again(j, k + a) <=> Again(u, k)
  <2>1. ASSUME Again(j, k + a) PROVE Again(u, k)
    <3>1. PICK l \in 1..(a + b) : l # k + a /\ j[l] = j[k + a]
      BY <1>1, <2>1 DEF Again
    <3>2. CASE l \in 1..a
      BY <1>2, <1>3, <3>1, <3>2
    <3>3. CASE l - a \in 1..b
      <4>1. PICK m \in 1..b : m = l - a
        BY <3>3
      <4>2. m + a = l /\ m # k
        BY <3>1, <4>1
      <4>3. j[l] = u[m]
        BY <1>3, <4>2
      <4>4. u[m] = u[k]
        BY <1>3, <3>1, <4>3
      <4> QED  BY <4>2, <4>4 DEF Again
    <3> QED  BY <1>4, <3>2, <3>3
  <2>2. ASSUME Again(u, k) PROVE Again(j, k + a)
    <3>1. PICK l \in 1..b : l # k /\ u[l] = u[k]
      BY <2>2 DEF Again
    <3>2. l + a \in 1..(a + b) /\ l + a # k + a /\ j[l + a] = j[k + a]
      BY <1>3, <3>1
    <3> QED  BY <1>1, <3>2 DEF Again
  <2> QED  BY <2>1, <2>2
<1> QED  BY <1>5, <1>6 DEF SharedAgain

\* The first n fields are those of the types scanned, and all of them.
AllFrom(n, flds, vis, h) == \A k \in 1..n : \E t \in vis : \E i \in RecordedIn(t) : flds[k] = FieldAt(h[t], i)
AllThere(n, flds, vis, h) == \A t \in vis : \A i \in RecordedIn(t) : \E k \in 1..n : flds[k] = FieldAt(h[t], i)

\* Of n, that is all.
LEMMA FoundIn ==
  ASSUME NEW flds, NEW vis, NEW h, NEW n, n = Len(flds), AllFrom(n, flds, vis, h), AllThere(n, flds, vis, h)
  PROVE  FieldsFound(flds, vis, h)
  BY DEF FieldsFound, AllFrom, AllThere

\* The fields of the struct scanned are found.
LEMMA ScanFields ==
  ASSUME decl \in Graphs, count \in [Structs -> Nat], fields \in Seq(FieldType),
         NEW d \in Nat, NEW f \in Ways[d], NEW vis, f.typ \notin vis, Earlier(d) \subseteq vis,
         Counted(d, count, vis), NEW h, FirstWay(vis, h), FieldsFound(fields, vis, h), FieldsTwice(fields, vis, h),
         NEW g, g = [t \in vis \cup {f.typ} |-> IF t = f.typ THEN f ELSE h[t]]
  PROVE  /\ FirstWay(vis \cup {f.typ}, g)
         /\ FieldsFound(fields \o Found(f), vis \cup {f.typ}, g)
         /\ FieldsTwice(fields \o Found(f), vis \cup {f.typ}, g)
<1>0. PICK new, all : new = Found(f) /\ all = fields \o new
  OBVIOUS
<1>1. f \in WayType /\ f.typ \in Structs /\ f.typ \notin Earlier(d)
  BY WaysType DEF WayType
<1>2. /\ new \in Seq(FieldType)
      /\ \A k \in 1..Len(new) : \E i \in RecordedIn(f.typ) : new[k] = FieldAt(f, i)
      /\ \A i \in RecordedIn(f.typ) : \E k \in 1..Len(new) : new[k] = FieldAt(f, i)
      /\ \A k \in 1..Len(new) : Again(new, k) <=> count[f.typ] > 1
  BY <1>0, <1>1, FoundFacts
<1>3. PICK a \in Nat, b \in Nat : a = Len(fields) /\ b = Len(new)
  BY <1>2
<1>4. g[f.typ] = f /\ \A t \in vis : g[t] = h[t]
  OBVIOUS
<1>5. FirstWay(vis \cup {f.typ}, g)
  <2>1. g = [t \in vis \cup {f.typ} |-> g[t]]
    OBVIOUS
  <2>2. f.typ = f.typ /\ \E n \in Nat : f \in Ways[n] /\ f.typ \notin Earlier(n)
    BY <1>1
  <2>3. \A t \in vis : h[t].typ = t /\ \E n \in Nat : h[t] \in Ways[n] /\ t \notin Earlier(n)
    BY DEF FirstWay
  <2> QED  BY <1>4, <2>1, <2>2, <2>3 DEF FirstWay
<1>6. ASSUME NEW t \in vis, NEW i \in RecordedIn(t), NEW j \in RecordedIn(f.typ)
      PROVE  FieldAt(h[t], i) # FieldAt(f, j)
  <2>1. h[t].typ = t /\ \E n \in Nat : h[t] \in Ways[n]
    BY DEF FirstWay
  <2>2. PICK n \in Nat : h[t] \in Ways[n]
    BY <2>1
  <2>3. h[t] # f
    BY <2>1
  <2> QED  BY <2>1, <2>2, <2>3, FieldsApart
<1>7. \A k \in 1..a : \E t \in vis : \E i \in RecordedIn(t) : fields[k] = FieldAt(h[t], i)
  BY <1>3 DEF FieldsFound
<1>8. \A t \in vis : \A i \in RecordedIn(t) : \E k \in 1..a : fields[k] = FieldAt(h[t], i)
  BY <1>3 DEF FieldsFound
<1>9. \A k \in 1..a : \A l \in 1..b : fields[k] # new[l]
  BY <1>2, <1>3, <1>6, <1>7
<1>10. Joins(all, fields, a, new, b)
  BY <1>0, <1>2, <1>3, JoinFacts
<1>11. SharedAgain(all, fields, a, new, b)
  BY <1>3, <1>9, <1>10, JoinAgain
<1>12. Len(all) = a + b
  BY <1>10 DEF Joins
<1>13. \A k \in 1..a : k \in 1..(a + b) /\ all[k] = fields[k] /\ (Again(all, k) <=> Again(fields, k))
  BY <1>10, <1>11 DEF Joins, SharedAgain
<1>14. \A k \in 1..b : k + a \in 1..(a + b) /\ all[k + a] = new[k] /\ (Again(all, k + a) <=> Again(new, k))
  BY <1>10, <1>11 DEF Joins, SharedAgain
<1>15. \A k \in 1..(a + b) : k \in 1..a \/ k - a \in 1..b
  BY <1>10 DEF Joins
<1>16. ASSUME NEW k \in 1..(a + b)
       PROVE  \E t \in vis \cup {f.typ} : \E i \in RecordedIn(t) : all[k] = FieldAt(g[t], i)
  <2>1. CASE k \in 1..a
    BY <1>4, <1>7, <1>13, <2>1
  <2>2. CASE k - a \in 1..b
    <3>1. PICK l \in 1..b : l = k - a
      BY <2>2
    <3>2. all[k] = new[l]
      <4>1. l + a = k
        BY <3>1
      <4> QED  BY <1>14, <4>1
    <3>3. PICK i \in RecordedIn(f.typ) : new[l] = FieldAt(f, i)
      BY <1>2, <1>3
    <3> QED  BY <1>4, <3>2, <3>3
  <2> QED  BY <1>15, <2>1, <2>2
<1>17. ASSUME NEW t \in vis \cup {f.typ}, NEW i \in RecordedIn(t)
       PROVE  \E k \in 1..(a + b) : all[k] = FieldAt(g[t], i)
  <2>1. CASE t \in vis
    <3>1. PICK k \in 1..a : fields[k] = FieldAt(h[t], i)
      BY <1>8, <2>1
    <3> QED  BY <1>4, <1>13, <2>1, <3>1
  <2>2. CASE t = f.typ
    <3>1. PICK k \in 1..b : new[k] = FieldAt(f, i)
      BY <1>2, <1>3, <2>2
    <3> QED  BY <1>4, <1>14, <2>2, <3>1
  <2> QED  BY <2>1, <2>2
<1>18. ASSUME Unshared, NEW n \in Nat, NEW t \in vis \cup {f.typ}, NEW i \in RecordedIn(t), NEW k \in 1..(a + b),
              g[t] \in Ways[n], all[k] = FieldAt(g[t], i)
       PROVE  Again(all, k) <=> Twice(t, Ways[n])
  <2>1. CASE k \in 1..a
    <3>1. PICK s \in vis : \E j \in RecordedIn(s) : fields[k] = FieldAt(h[s], j)
      BY <1>7, <2>1
    <3>2. PICK j \in RecordedIn(s) : fields[k] = FieldAt(h[s], j)
      BY <3>1
    <3>3. all[k] = fields[k]
      BY <1>13, <2>1
    <3>4. t # f.typ
      BY <1>4, <1>6, <1>18, <3>2, <3>3
    <3>5. t \in vis /\ g[t] = h[t]
      BY <1>4, <3>4
    <3>6. Again(fields, k) <=> Twice(t, Ways[n])
      BY <1>3, <1>18, <2>1, <3>3, <3>5 DEF FieldsTwice
    <3> QED  BY <1>13, <2>1, <3>6
  <2>2. CASE k - a \in 1..b
    <3>1. PICK l \in 1..b : l = k - a
      BY <2>2
    <3>2. l + a = k
      BY <3>1
    <3>3. all[k] = new[l] /\ (Again(all, k) <=> Again(new, l))
      BY <1>14, <3>2
    <3>4. PICK j \in RecordedIn(f.typ) : new[l] = FieldAt(f, j)
      BY <1>2, <1>3
    <3>5. t = f.typ
      BY <1>4, <1>6, <1>18, <3>3, <3>4
    <3>6. f \in Ways[n]
      BY <1>4, <1>18, <3>5
    <3>7. n = d
      BY <3>6, WaysType
    <3>8. count[t] > 1 <=> Twice(t, Ways[d])
      BY <1>1, <1>18, <3>5 DEF Counted
    <3> QED  BY <1>2, <1>3, <3>3, <3>5, <3>7, <3>8
  <2> QED  BY <1>15, <2>1, <2>2
<1>19. FieldsFound(all, vis \cup {f.typ}, g)
  <2>1. AllFrom(a + b, all, vis \cup {f.typ}, g)
    BY <1>16 DEF AllFrom
  <2>2. AllThere(a + b, all, vis \cup {f.typ}, g)
    BY <1>17 DEF AllThere
  <2> QED  BY <1>12, <2>1, <2>2, FoundIn
<1>20. FieldsTwice(all, vis \cup {f.typ}, g)
  BY <1>12, <1>18 DEF FieldsTwice
<1> QED  BY <1>0, <1>5, <1>19, <1>20

-----------------------------------------------------------------------------
(* The choice *)

\* The field at k is no deeper than those of its name, and of those as deep
\* the only one, or the only one with a tag.
Picked(k) ==
  \A l \in 1..Len(fields) :
    fields[l].name = fields[k].name =>
      /\ Len(fields[k].index) <= Len(fields[l].index)
      /\ l # k /\ Len(fields[l].index) = Len(fields[k].index) => fields[k].tag /\ ~fields[l].tag

\* The positions of the fields of one name.
NamedAs(x) == {i \in DOMAIN fields : fields[i].name = x}

\* What the field at k is made of.
FieldsFacts(k) ==
  /\ fields[k] \in FieldType /\ fields[k].name \in Nat /\ fields[k].tag \in BOOLEAN
  /\ fields[k].index \in Seq(Nat) /\ Len(fields[k].index) \in Nat

\* It is of that type.
LEMMA FieldsTyped ==
  ASSUME fields \in Seq(FieldType)
  PROVE  \A k \in 1..Len(fields) : FieldsFacts(k)
<1>1. \A f \in FieldType : f.name \in Nat /\ f.tag \in BOOLEAN /\ f.index \in Seq(Nat) /\ Len(f.index) \in Nat
  BY DEF FieldType
<1> QED  BY <1>1 DEF FieldsFacts

\* The first by name is no deeper than the others of the name.
LEMMA NoDeeper ==
  ASSUME NEW x \in FieldType, NEW y \in FieldType, x.name = y.name, ~NameLess(y, x)
  PROVE  Len(x.index) <= Len(y.index)
<1>1. Len(x.index) \in Nat /\ Len(y.index) \in Nat
  BY DEF FieldType
<1>2. ~(Len(y.index) < Len(x.index))
  BY <1>1 DEF NameLess
<1> QED  BY <1>1, <1>2

\* dominantField picks such a field, and only such (encode.go:763-824).
LEMMA DominantIs ==
  ASSUME fields \in Seq(FieldType), NEW x, NamedAs(x) # {}, NEW k
  PROVE  k \in dominantField(NamedAs(x)) <=> k \in NamedAs(x) /\ Picked(k)
<1> DEFINE G == NamedAs(x)
           first == CHOOSE i \in G : \A j \in G : ~NameLess(fields[j], fields[i])
           shallow == {i \in G : Len(fields[i].index) = Len(fields[first].index)}
           tagged == {i \in shallow : fields[i].tag}
<1>1. G \subseteq 1..Len(fields) /\ \A i \in G : fields[i].name = x
  BY DEF NamedAs
<1>2. \A i \in 1..Len(fields) : FieldsFacts(i)
  BY FieldsTyped
<1>3. dominantField(G) = IF Cardinality(tagged) = 1 THEN tagged
                         ELSE IF tagged = {} /\ Cardinality(shallow) = 1 THEN shallow ELSE {}
  BY DEF dominantField
<1>4. \E i \in G : \A j \in G : ~NameLess(fields[j], fields[i])
  BY <1>1, FirstOfGroup
<1>5. first \in G /\ \A j \in G : ~NameLess(fields[j], fields[first])
  BY <1>4
<1> HIDE DEF first
<1>6. \A j \in G : Len(fields[first].index) <= Len(fields[j].index)
  BY <1>1, <1>2, <1>5, NoDeeper DEF FieldsFacts
<1>7. IsFiniteSet(1..Len(fields))
  BY FS_Interval
<1>8. IsFiniteSet(tagged) /\ IsFiniteSet(shallow)
  BY <1>1, <1>7, FS_Subset
<1>9. first \in shallow
  BY <1>5
<1>10. \A i \in G : Len(fields[i].index) \in Nat
  BY <1>1, <1>2 DEF FieldsFacts
<1>11. \A i \in G : Picked(i) <=>
         \A l \in G : /\ Len(fields[i].index) <= Len(fields[l].index)
                      /\ l # i /\ Len(fields[l].index) = Len(fields[i].index) => fields[i].tag /\ ~fields[l].tag
  BY <1>1 DEF Picked, NamedAs
<1>12. \A i \in G : Picked(i) <=> i \in shallow /\ \A l \in shallow : l # i => fields[i].tag /\ ~fields[l].tag
  <2> SUFFICES ASSUME NEW i \in G
               PROVE  Picked(i) <=> i \in shallow /\ \A l \in shallow : l # i => fields[i].tag /\ ~fields[l].tag
    OBVIOUS
  <2>1. ASSUME Picked(i) PROVE i \in shallow
    <3>1. Len(fields[i].index) <= Len(fields[first].index)
      BY <1>5, <1>11, <2>1
    <3>2. Len(fields[first].index) <= Len(fields[i].index)
      BY <1>6
    <3>3. Len(fields[i].index) = Len(fields[first].index)
      BY <1>5, <1>10, <3>1, <3>2
    <3> QED  BY <3>3
  <2>2. ASSUME i \in shallow PROVE Picked(i) <=> \A l \in shallow : l # i => fields[i].tag /\ ~fields[l].tag
    <3>1. Len(fields[i].index) = Len(fields[first].index)
      BY <2>2
    <3> QED  BY <1>6, <1>11, <3>1
  <2> QED  BY <2>1, <2>2
<1>13. Cardinality(tagged) = 1 <=> \E i : tagged = {i}
  BY <1>8, SizeFacts
<1>14. Cardinality(shallow) = 1 <=> \E i : shallow = {i}
  BY <1>8, SizeFacts
<1>15. shallow \subseteq G /\ tagged \subseteq shallow /\ \A i \in shallow : i \in tagged <=> fields[i].tag
  OBVIOUS
<1> HIDE DEF shallow, tagged, G
<1>16. CASE \E i : tagged = {i}
  <2>1. PICK i : tagged = {i}
    BY <1>16
  <2>2. dominantField(G) = {i}
    BY <1>3, <1>13, <2>1
  <2>3. i \in G /\ Picked(i)
    BY <1>12, <1>15, <2>1
  <2>4. ASSUME k \in G, Picked(k) PROVE k = i
    BY <1>12, <1>15, <2>1, <2>4
  <2> QED  BY <2>2, <2>3, <2>4 DEF G
<1>17. CASE tagged = {} /\ \E i : shallow = {i}
  <2>1. PICK i : shallow = {i}
    BY <1>17
  <2>2. dominantField(G) = {i}
    BY <1>3, <1>13, <1>14, <1>17, <2>1
  <2>3. i \in G /\ Picked(i)
    BY <1>12, <1>15, <2>1
  <2>4. ASSUME k \in G, Picked(k) PROVE k = i
    BY <1>12, <1>15, <2>1, <2>4
  <2> QED  BY <2>2, <2>3, <2>4 DEF G
<1>18. CASE ~(\E i : tagged = {i}) /\ ~(tagged = {} /\ \E i : shallow = {i})
  <2>1. dominantField(G) = {}
    BY <1>3, <1>13, <1>14, <1>18
  <2>2. ASSUME k \in G, Picked(k) PROVE FALSE
    <3>1. k \in shallow /\ \A l \in shallow : l # k => fields[k].tag /\ ~fields[l].tag
      BY <1>12, <2>2
    <3>2. CASE fields[k].tag
      <4>1. tagged = {k}
        BY <1>15, <3>1, <3>2
      <4> QED  BY <1>18, <4>1
    <3>3. CASE ~fields[k].tag
      <4>1. shallow = {k} /\ tagged = {}
        BY <1>15, <3>1, <3>3
      <4> QED  BY <1>18, <4>1
    <3> QED  BY <3>2, <3>3
  <2> QED  BY <2>1, <2>2 DEF G
<1> QED  BY <1>16, <1>17, <1>18

\* The fields chosen are those picked.
LEMMA DominantPicked ==
  ASSUME fields \in Seq(FieldType)
  PROVE  Dominant = {fields[k] : k \in {l \in 1..Len(fields) : Picked(l)}}
<1>1. Dominant = {fields[i] : i \in UNION {dominantField(NamedAs(n)) : n \in {fields[i].name : i \in DOMAIN fields}}}
  BY DEF Dominant, NamedAs
<1>2. ASSUME NEW k
      PROVE  k \in UNION {dominantField(NamedAs(n)) : n \in {fields[i].name : i \in DOMAIN fields}}
               <=> k \in 1..Len(fields) /\ Picked(k)
  <2>1. ASSUME NEW i \in DOMAIN fields, k \in dominantField(NamedAs(fields[i].name))
        PROVE  k \in 1..Len(fields) /\ Picked(k)
    <3>1. NamedAs(fields[i].name) # {}
      BY DEF NamedAs
    <3>2. k \in NamedAs(fields[i].name) /\ Picked(k)
      BY <2>1, <3>1, DominantIs
    <3> QED  BY <3>2 DEF NamedAs
  <2>2. ASSUME k \in 1..Len(fields), Picked(k)
        PROVE  k \in DOMAIN fields /\ k \in dominantField(NamedAs(fields[k].name))
    <3>1. k \in NamedAs(fields[k].name) /\ k \in DOMAIN fields
      BY <2>2 DEF NamedAs
    <3> QED  BY <2>2, <3>1, DominantIs
  <2> QED  BY <2>1, <2>2
<1> QED  BY <1>1, <1>2

-----------------------------------------------------------------------------
(* Where the fields are from *)

\* The field at k is that at i of t, reached by h, its first way, n down.
From(k, h, t, i, n) ==
  /\ i \in RecordedIn(t) /\ fields[k] = FieldAt(h[t], i)
  /\ h[t] \in Ways[n] /\ h[t].typ = t /\ t \notin Earlier(n)

\* Every field found is from somewhere.
LEMMA Origin ==
  ASSUME decl \in Graphs, NEW vis, NEW h, FirstWay(vis, h), FieldsFound(fields, vis, h),
         NEW k \in 1..Len(fields)
  PROVE  \E t \in vis : \E i : \E n \in Nat : From(k, h, t, i, n)
<1>1. PICK t \in vis : \E i \in RecordedIn(t) : fields[k] = FieldAt(h[t], i)
  BY DEF FieldsFound
<1>2. PICK i \in RecordedIn(t) : fields[k] = FieldAt(h[t], i)
  BY <1>1
<1>3. PICK n \in Nat : h[t] \in Ways[n] /\ h[t].typ = t /\ t \notin Earlier(n)
  BY DEF FirstWay
<1> QED  BY <1>2, <1>3 DEF From

\* And is as deep as that.
LEMMA FromFacts ==
  ASSUME decl \in Graphs, NEW h, NEW k, NEW t, NEW i, NEW n \in Nat, From(k, h, t, i, n)
  PROVE  /\ n \in Depths /\ fields[k] \in AtDepth(n) /\ Len(fields[k].index) = n + 1
         /\ fields[k] \in FieldType
<1>1. h[t] \in Ways[n] /\ h[t].typ = t /\ t \notin Earlier(n) /\ i \in RecordedIn(h[t].typ) /\ fields[k] = FieldAt(h[t], i)
  BY DEF From
<1>2. n \in Depths
  BY <1>1, FirstWaysShort
<1>3. fields[k] \in AtDepth(n)
  BY <1>1 DEF AtDepth
<1>4. h[t] \in WayType /\ Len(h[t].index) = n
  BY <1>1, WaysType
<1> QED  BY <1>1, <1>2, <1>3, <1>4, FieldAtFacts

\* There is a field for the field f, at i of the struct w, m down.
Stands(k, h, w, i, m) ==
  /\ fields[k] = FieldAt(h[w.typ], i)
  /\ fields[k].name = FieldAt(w, i).name /\ fields[k].tag = FieldAt(w, i).tag
  /\ Len(fields[k].index) \in Nat /\ Len(fields[k].index) <= m + 1
  /\ Len(fields[k].index) = m + 1 => h[w.typ] \in Ways[m]
  /\ Len(fields[k].index) # m + 1 => w.typ \in Earlier(m)
  /\ Len(fields[k].index) = m + 1 => w.typ \notin Earlier(m)
  /\ h[w.typ].typ = w.typ

\* Every type is scanned.
Everywhere(vis) == \A m \in Nat : Reach(m) \subseteq vis

\* For every field of every struct, however far down, one of the same name is
\* found, no deeper; and as deep only where the struct is not less far down.
LEMMA Represented ==
  ASSUME decl \in Graphs, NEW vis, NEW h, FirstWay(vis, h), FieldsFound(fields, vis, h), Everywhere(vis),
         NEW m \in Nat, NEW w \in Ways[m], NEW i \in RecordedIn(w.typ)
  PROVE  \E k \in 1..Len(fields) : Stands(k, h, w, i, m)
<1>1. w.typ \in vis
  BY DEF Everywhere, Reach
<1>2. PICK k \in 1..Len(fields) : fields[k] = FieldAt(h[w.typ], i)
  BY <1>1 DEF FieldsFound
<1>3. PICK n \in Nat : h[w.typ] \in Ways[n] /\ h[w.typ].typ = w.typ /\ w.typ \notin Earlier(n)
  BY <1>1 DEF FirstWay
<1>4. From(k, h, w.typ, i, n)
  BY <1>2, <1>3 DEF From
<1>5. Len(fields[k].index) = n + 1
  BY <1>4, FromFacts
<1>6. fields[k].name = FieldAt(w, i).name /\ fields[k].tag = FieldAt(w, i).tag
  BY <1>2, <1>3, SameName
<1>7. n <= m
  BY <1>3, EarlierIs
<1>8. n < m => w.typ \in Earlier(m)
  BY <1>3, EarlierIs
<1>9. n = m \/ n < m
  BY <1>7
<1>10. (n + 1 = m + 1 <=> n = m) /\ n + 1 \in Nat /\ n + 1 <= m + 1
  BY <1>7
<1>11. Stands(k, h, w, i, m)
  <2>1. Len(fields[k].index) \in Nat /\ Len(fields[k].index) <= m + 1
    BY <1>5, <1>10
  <2>2. Len(fields[k].index) = m + 1 <=> n = m
    BY <1>5, <1>10
  <2> QED  BY <1>2, <1>3, <1>6, <1>8, <1>9, <2>1, <2>2 DEF Stands
<1> QED  BY <1>11

\* A field at the end of a way.
LEMMA AtDepthIs ==
  ASSUME NEW n, NEW f
  PROVE  f \in AtDepth(n) <=> \E w \in Ways[n] : \E i \in RecordedIn(w.typ) : f = FieldAt(w, i)
  BY DEF AtDepth

\* Fields of one name less deep are among those found.
Shallow(x, n) == \A k \in 1..Len(fields) : fields[k].name = x => n + 1 <= Len(fields[k].index)

\* So whether a field is at the least depth of its name shows in the fields
\* found.
LEMMA ShallowestIs ==
  ASSUME decl \in Graphs, NEW vis, NEW h, FirstWay(vis, h), FieldsFound(fields, vis, h), Everywhere(vis),
         NEW n \in Nat, NEW f \in AtDepth(n)
  PROVE  Shallowest(f, n) <=> Shallow(f.name, n)
<1>1. ASSUME Shallowest(f, n), NEW k \in 1..Len(fields), fields[k].name = f.name
      PROVE  n + 1 <= Len(fields[k].index)
  <2>0. \E t \in vis : \E i : \E m \in Nat : From(k, h, t, i, m)
    BY Origin
  <2>1. PICK m \in Nat : \E t : \E i : From(k, h, t, i, m)
    BY <2>0
  <2>2. fields[k] \in AtDepth(m) /\ Len(fields[k].index) = m + 1
    BY <2>1, FromFacts
  <2>3. ~(m \in 0..(n - 1))
    BY <1>1, <2>2 DEF Shallowest
  <2>4. n <= m
    BY <2>3
  <2> QED  BY <2>2, <2>4
<1>2. ASSUME Shallow(f.name, n), NEW m \in 0..(n - 1), NEW g \in AtDepth(m) PROVE g.name # f.name
  <2>1. PICK w \in Ways[m] : \E i \in RecordedIn(w.typ) : g = FieldAt(w, i)
    BY AtDepthIs
  <2>2. PICK i \in RecordedIn(w.typ) : g = FieldAt(w, i)
    BY <2>1
  <2>3. m \in Nat /\ m < n
    OBVIOUS
  <2>4. PICK k \in 1..Len(fields) : Stands(k, h, w, i, m)
    BY <2>3, Represented
  <2>5. fields[k].name = g.name /\ Len(fields[k].index) \in Nat /\ Len(fields[k].index) <= m + 1
    BY <2>2, <2>4 DEF Stands
  <2>6. ~(n + 1 <= Len(fields[k].index))
    BY <2>3, <2>5
  <2> QED  BY <1>2, <2>5, <2>6 DEF Shallow
<1> QED  BY <1>1, <1>2 DEF Shallowest, Shallow

-----------------------------------------------------------------------------
(* The choice is Go's *)

\* Of the fields found, those at least as deep as n and of one name.
LEMMA PickedIsRivals ==
  ASSUME decl \in Graphs, Unshared, NEW vis, NEW h, FirstWay(vis, h), FieldsFound(fields, vis, h),
         FieldsTwice(fields, vis, h), Everywhere(vis), fields \in Seq(FieldType),
         NEW k \in 1..Len(fields), NEW t \in vis, NEW i, NEW n \in Nat, From(k, h, t, i, n),
         Shallow(fields[k].name, n)
  PROVE  Picked(k) <=> \A g \in Rivals(fields[k], n) : fields[k].tag /\ ~g.tag
<1>1. Len(fields[k].index) = n + 1 /\ fields[k] \in AtDepth(n)
  BY FromFacts
<1>2. h[t] \in Ways[n] /\ h[t].typ = t /\ i \in RecordedIn(t) /\ fields[k] = FieldAt(h[t], i)
  BY DEF From
<1>3. Again(fields, k) <=> Twice(t, Ways[n])
  BY <1>2 DEF FieldsTwice
<1>4. Picked(k) <=> \A l \in 1..Len(fields) :
        fields[l].name = fields[k].name /\ l # k /\ Len(fields[l].index) = n + 1 => fields[k].tag /\ ~fields[l].tag
  BY <1>1 DEF Picked, Shallow
<1>5. ASSUME Picked(k), NEW g \in Rivals(fields[k], n) PROVE fields[k].tag /\ ~g.tag
  <2>1. g \in AtDepth(n) /\ g.name = fields[k].name /\ g # fields[k]
    BY DEF Rivals
  <2>2. PICK w \in Ways[n] : \E j \in RecordedIn(w.typ) : g = FieldAt(w, j)
    BY <2>1, AtDepthIs
  <2>3. PICK j \in RecordedIn(w.typ) : g = FieldAt(w, j)
    BY <2>2
  <2>4. PICK l \in 1..Len(fields) : Stands(l, h, w, j, n)
    BY Represented
  <2>5. /\ fields[l] = FieldAt(h[w.typ], j) /\ fields[l].name = g.name /\ fields[l].tag = g.tag
        /\ Len(fields[l].index) \in Nat /\ Len(fields[l].index) <= n + 1
        /\ (Len(fields[l].index) = n + 1 => h[w.typ] \in Ways[n]) /\ h[w.typ].typ = w.typ
    BY <2>3, <2>4 DEF Stands
  <2>6. n + 1 <= Len(fields[l].index)
    BY <2>1, <2>5 DEF Shallow
  <2>7. Len(fields[l].index) = n + 1 /\ h[w.typ] \in Ways[n]
    BY <2>5, <2>6
  <2>8. CASE l # k
    BY <1>4, <1>5, <2>1, <2>5, <2>7, <2>8
  <2>9. CASE l = k
    <3>1. h[w.typ] = h[t] /\ i = j
      BY <1>2, <2>5, <2>7, <2>9, FieldsApart
    <3>2. w.typ = t
      BY <1>2, <2>5, <3>1
    <3>3. w # h[t]
      BY <1>2, <2>1, <2>3, <3>1
    <3>4. Twice(t, Ways[n])
      BY <1>2, <3>2, <3>3 DEF Twice
    <3>5. PICK m \in 1..Len(fields) : m # k /\ fields[m] = fields[k]
      BY <1>3, <3>4 DEF Again
    <3> QED  BY <1>1, <1>4, <1>5, <3>5
  <2> QED  BY <2>8, <2>9
<1>6. ASSUME \A g \in Rivals(fields[k], n) : fields[k].tag /\ ~g.tag,
             NEW l \in 1..Len(fields), fields[l].name = fields[k].name, l # k, Len(fields[l].index) = n + 1
      PROVE  fields[k].tag /\ ~fields[l].tag
  <2>1. CASE fields[l] # fields[k]
    <3>1. \E s \in vis : \E j : \E m \in Nat : From(l, h, s, j, m)
      BY Origin
    <3>2. PICK m \in Nat : \E s : \E j : From(l, h, s, j, m)
      BY <3>1
    <3>3. fields[l] \in AtDepth(m) /\ n + 1 = m + 1
      BY <1>6, <3>2, FromFacts
    <3>4. m = n
      BY <3>3
    <3>5. fields[l] \in Rivals(fields[k], n)
      BY <1>6, <2>1, <3>3, <3>4 DEF Rivals
    <3> QED  BY <1>6, <3>5
  <2>2. CASE fields[l] = fields[k]
    <3>1. Twice(t, Ways[n])
      BY <1>3, <1>6, <2>2 DEF Again
    <3>2. PICK v \in Ways[n] : v # h[t] /\ v.typ = t
      BY <3>1 DEF Twice
    <3>3. FieldAt(v, i).name = fields[k].name /\ FieldAt(v, i).tag = fields[k].tag
      BY <1>2, <3>2, SameName
    <3>4. FieldAt(v, i) # fields[k]
      BY <1>2, <3>2, FieldsApart
    <3>5. FieldAt(v, i) \in AtDepth(n)
      BY <1>2, <3>2, AtDepthIs
    <3>6. FieldAt(v, i) \in Rivals(fields[k], n)
      BY <3>3, <3>4, <3>5 DEF Rivals
    <3> QED  BY <1>6, <3>3, <3>6
  <2> QED  BY <2>1, <2>2
<1> QED  BY <1>4, <1>5, <1>6

\* A field that Go promotes.
LEMMA GoFieldsIs ==
  ASSUME NEW f
  PROVE  f \in GoFields <=> \E n \in Depths : /\ f \in AtDepth(n) /\ Shallowest(f, n)
                                            /\ \A g \in Rivals(f, n) : f.tag /\ ~g.tag
  BY DEF GoFields, Shallowest

\* What is picked among the fields found is what Go promotes among all there
\* are.
LEMMA ChoiceIsGo ==
  ASSUME decl \in Graphs, Unshared, NEW vis, NEW h, FirstWay(vis, h), FieldsFound(fields, vis, h),
         FieldsTwice(fields, vis, h), Everywhere(vis), fields \in Seq(FieldType)
  PROVE  Dominant = GoFields
<1>1. Dominant = {fields[k] : k \in {l \in 1..Len(fields) : Picked(l)}}
  BY DominantPicked
<1>2. ASSUME NEW k \in 1..Len(fields), Picked(k) PROVE fields[k] \in GoFields
  <2>1. PICK t \in vis : \E i : \E n \in Nat : From(k, h, t, i, n)
    BY Origin
  <2>2. PICK n \in Nat : \E i : From(k, h, t, i, n)
    BY <2>1
  <2>3. PICK i : From(k, h, t, i, n)
    BY <2>2
  <2>4. n \in Depths /\ fields[k] \in AtDepth(n) /\ Len(fields[k].index) = n + 1
    BY <2>3, FromFacts
  <2>5. Shallow(fields[k].name, n)
    BY <1>2, <2>4 DEF Picked, Shallow
  <2>6. Shallowest(fields[k], n)
    BY <2>4, <2>5, ShallowestIs
  <2>7. \A g \in Rivals(fields[k], n) : fields[k].tag /\ ~g.tag
    BY <1>2, <2>3, <2>5, PickedIsRivals
  <2> QED  BY <2>4, <2>6, <2>7, GoFieldsIs
<1>3. ASSUME NEW f \in GoFields PROVE \E k \in 1..Len(fields) : Picked(k) /\ fields[k] = f
  <2>1. PICK n \in Depths : /\ f \in AtDepth(n) /\ Shallowest(f, n)
                            /\ \A g \in Rivals(f, n) : f.tag /\ ~g.tag
    BY GoFieldsIs
  <2>2. n \in Nat
    BY DEF Depths
  <2>3. Shallow(f.name, n)
    BY <2>1, <2>2, ShallowestIs
  <2>4. PICK w \in Ways[n] : \E i \in RecordedIn(w.typ) : f = FieldAt(w, i)
    BY <2>1, AtDepthIs
  <2>5. PICK i \in RecordedIn(w.typ) : f = FieldAt(w, i)
    BY <2>4
  <2>6. PICK k \in 1..Len(fields) : Stands(k, h, w, i, n)
    BY <2>2, Represented
  <2>7. /\ fields[k] = FieldAt(h[w.typ], i) /\ fields[k].name = f.name /\ fields[k].tag = f.tag
        /\ Len(fields[k].index) \in Nat /\ Len(fields[k].index) <= n + 1
        /\ (Len(fields[k].index) = n + 1 => h[w.typ] \in Ways[n] /\ w.typ \notin Earlier(n))
        /\ h[w.typ].typ = w.typ
    BY <2>5, <2>6 DEF Stands
  <2>8. Len(fields[k].index) = n + 1
    BY <2>2, <2>3, <2>7 DEF Shallow
  <2>9. From(k, h, w.typ, i, n) /\ w.typ \in vis
    BY <2>2, <2>7, <2>8 DEF From, Everywhere, Reach
  <2>10. fields[k] \in AtDepth(n)
    BY <2>2, <2>9, FromFacts
  <2>11. fields[k] = f
    <3>1. ASSUME fields[k] # f PROVE FALSE
      <4>1. fields[k] \in Rivals(f, n)
        BY <2>7, <2>10, <3>1 DEF Rivals
      <4> QED  BY <2>1, <2>7, <4>1
    <3> QED  BY <3>1
  <2>12. Picked(k)
    BY <2>1, <2>2, <2>3, <2>9, <2>11, PickedIsRivals
  <2> QED  BY <2>11, <2>12
<1> QED  BY <1>1, <1>2, <1>3

-----------------------------------------------------------------------------
\* The fields chosen are put in the order of the declarations.
LEMMA DominantInOrder ==
  ASSUME decl \in Graphs, NEW vis, NEW h, FirstWay(vis, h), FieldsFound(fields, vis, h),
         fields \in Seq(FieldType),
         NEW R, R = {p \in Dominant \X Dominant : IndexLess(p[1].index, p[2].index)}
  PROVE  Lists(InOrder(Dominant, R), Dominant, R) /\ Dominant \subseteq FieldType
<1>1. Dominant = {fields[k] : k \in {l \in 1..Len(fields) : Picked(l)}}
  BY DominantPicked
<1>2. IsFiniteSet({l \in 1..Len(fields) : Picked(l)})
  BY FS_Interval, FS_Subset
<1>3. IsFiniteSet(Dominant)
  <2>1. PICK P : P = {l \in 1..Len(fields) : Picked(l)}
    OBVIOUS
  <2> DEFINE g == [k \in P |-> fields[k]]
  <2>2. Dominant = {g[k] : k \in P}
    BY <1>1, <2>1
  <2>3. g \in [P -> Dominant] /\ \A x \in Dominant : \E k \in P : g[k] = x
    BY <2>2
  <2>4. g \in Surjection(P, Dominant)
    BY <2>3 DEF Surjection
  <2> QED  BY <1>2, <2>1, <2>4, FS_Surjection
<1>4. Dominant \subseteq FieldType
  BY <1>1
<1>5. \A x \in Dominant : x.index \in Seq(Nat)
  BY <1>4 DEF FieldType
<1>6. ASSUME NEW x \in Dominant, NEW y \in Dominant, x.index = y.index PROVE x = y
  <2>1. PICK k \in 1..Len(fields), l \in 1..Len(fields) : x = fields[k] /\ y = fields[l]
    BY <1>1
  <2>3. \E a \in vis : \E b : \E c \in Nat : From(k, h, a, b, c)
    BY Origin
  <2>4. \E a \in vis : \E b : \E c \in Nat : From(l, h, a, b, c)
    BY Origin
  <2>5. ASSUME NEW a, NEW b, NEW c \in Nat, From(k, h, a, b, c),
               NEW d, NEW e, NEW z \in Nat, From(l, h, d, e, z)
        PROVE  x = y
    <3>1. h[a] \in Ways[c] /\ b \in RecordedIn(h[a].typ) /\ x = FieldAt(h[a], b)
      BY <2>1, <2>5 DEF From
    <3>2. h[d] \in Ways[z] /\ e \in RecordedIn(h[d].typ) /\ y = FieldAt(h[d], e)
      BY <2>1, <2>5 DEF From
    <3>3. h[a] = h[d] /\ b = e
      BY <1>6, <3>1, <3>2, FieldsApart
    <3> QED  BY <3>1, <3>2, <3>3
  <2> QED  BY <2>3, <2>4, <2>5
<1>7. \A x, y \in Dominant : <<x, y>> \in R <=> IndexLess(x.index, y.index)
  OBVIOUS
<1>8. StrictOrder(Dominant, R)
  <2>1. \A x \in Dominant : <<x, x>> \notin R
    BY <1>5, <1>7, IndexOrder
  <2>2. \A x, y, z \in Dominant : <<x, y>> \in R /\ <<y, z>> \in R => <<x, z>> \in R
    BY <1>5, <1>7, IndexOrder
  <2>3. \A x, y \in Dominant : x # y => <<x, y>> \in R \/ <<y, x>> \in R
    BY <1>5, <1>6, <1>7, IndexOrder
  <2> QED  BY <2>1, <2>2, <2>3 DEF StrictOrder, PartialOrder
<1> QED  BY <1>3, <1>4, <1>8, InOrderLists

-----------------------------------------------------------------------------
(* The invariant *)

\* The type invariant.
TypeFieldsTypes ==
  /\ decl \in Graphs
  /\ current \in Seq(WayType) /\ next \in Seq(WayType)
  /\ count \in [Structs -> Nat] /\ nextCount \in [Structs -> Nat]
  /\ visited \subseteq Structs /\ fields \in Seq(FieldType) /\ stage \in {"scan", "done"}

\* Before the first level.
Start ==
  /\ current = << >> /\ next = <<Root>> /\ visited = {} /\ fields = << >>
  /\ nextCount = [t \in Structs |-> 0]

\* At level d, where h is the first way to each type visited.
Level(d, h) ==
  /\ Queues(d, current, next) /\ Visits(d, current, visited)
  /\ NextCounted(d, next, nextCount, visited) /\ Counted(d, count, visited)
  /\ FirstWay(visited, h) /\ FieldsFound(fields, visited, h) /\ FieldsTwice(fields, visited, h)

\* The search is somewhere.
Searching == stage = "scan" => Start \/ \E d \in Nat : \E h : Level(d, h)

(***************************************************************************)
(* The invariant of the search: at every level, what was scanned, queued,  *)
(* counted and found are the ways that there are so far; and of the        *)
(* choice: it is Go's.                                                     *)
(***************************************************************************)
TypeFieldsInv == TypeFieldsTypes /\ Searching /\ GoRulesUnlessShared

-----------------------------------------------------------------------------
\* The types are not declared again.
LEMMA WaysFrame ==
  ASSUME decl' = decl
  PROVE  Ways' = Ways
  BY DEF Ways, Down, StructAt, EmbeddedIn, Ignored, Recorded

\* So what they contain is the same.
LEMMA PositionsFrame ==
  ASSUME decl' = decl
  PROVE  /\ Structs' = Structs /\ WayType' = WayType /\ Depths' = Depths
         /\ \A n : Earlier(n)' = Earlier(n)
         /\ \A t : EmbeddedIn(t)' = EmbeddedIn(t) /\ RecordedIn(t)' = RecordedIn(t)
         /\ \A w, i : StructAt(w, i)' = StructAt(w, i) /\ FieldAt(w, i)' = FieldAt(w, i)
<1>1. Structs' = Structs
  BY DEF Structs
<1>2. \A n : Earlier(n)' = Earlier(n)
  BY WaysFrame DEF Earlier, Reach
<1>3. \A t : EmbeddedIn(t)' = EmbeddedIn(t) /\ RecordedIn(t)' = RecordedIn(t)
  BY DEF EmbeddedIn, RecordedIn, Ignored, Recorded
<1>4. \A w, i : StructAt(w, i)' = StructAt(w, i) /\ FieldAt(w, i)' = FieldAt(w, i)
  BY DEF StructAt, FieldAt
<1> QED  BY <1>1, <1>2, <1>3, <1>4 DEF WayType, Depths

\* And what Go says of them.
LEMMA FieldsFrame ==
  ASSUME decl' = decl
  PROVE  /\ \A n : AtDepth(n)' = AtDepth(n)
         /\ GoFields' = GoFields /\ Unshared' = Unshared
<1>1. \A n : AtDepth(n)' = AtDepth(n)
  BY WaysFrame, PositionsFrame DEF AtDepth
<1>2. \A f, n : Shallowest(f, n)' = Shallowest(f, n)
  BY <1>1 DEF Shallowest
<1>3. \A f, n : Rivals(f, n)' = Rivals(f, n)
  BY <1>1 DEF Rivals
<1>4. GoFields' = GoFields
  BY <1>1, <1>2, <1>3, PositionsFrame DEF GoFields
<1>5. Unshared' = Unshared
  BY WaysFrame, PositionsFrame DEF Unshared, SharedEmbedder
<1> QED  BY <1>1, <1>4, <1>5

\* And what the invariant says, of the queues.
LEMMA SearchFrame ==
  ASSUME decl' = decl
  PROVE  /\ \A d, cur, nxt : Queues(d, cur, nxt)' <=> Queues(d, cur, nxt)
         /\ \A d, cur, vis : Visits(d, cur, vis)' <=> Visits(d, cur, vis)
         /\ \A d, nxt, ncnt, vis : NextCounted(d, nxt, ncnt, vis)' <=> NextCounted(d, nxt, ncnt, vis)
         /\ \A d, cnt, vis : Counted(d, cnt, vis)' <=> Counted(d, cnt, vis)
<1>1. \A d, vis : Seen(d, vis)' = Seen(d, vis)
  BY WaysFrame, PositionsFrame DEF Seen, Scanned, Down
<1>2. \A d, cur, nxt : Queues(d, cur, nxt)' <=> Queues(d, cur, nxt)
  BY WaysFrame DEF Queues
<1>3. \A d, cur, vis : Visits(d, cur, vis)' <=> Visits(d, cur, vis)
  BY PositionsFrame DEF Visits
<1>4. \A d, nxt, ncnt, vis : NextCounted(d, nxt, ncnt, vis)' <=> NextCounted(d, nxt, ncnt, vis)
  BY <1>1, PositionsFrame, FieldsFrame DEF NextCounted, Waits, Ends, Twice
<1>5. \A d, cnt, vis : Counted(d, cnt, vis)' <=> Counted(d, cnt, vis)
  BY WaysFrame, PositionsFrame, FieldsFrame DEF Counted, Twice
<1> QED  BY <1>2, <1>3, <1>4, <1>5

\* And of the fields.
LEMMA FoundFrame ==
  ASSUME decl' = decl
  PROVE  /\ \A vis, h : FirstWay(vis, h)' <=> FirstWay(vis, h)
         /\ \A flds, vis, h : FieldsFound(flds, vis, h)' <=> FieldsFound(flds, vis, h)
         /\ \A flds, vis, h : FieldsTwice(flds, vis, h)' <=> FieldsTwice(flds, vis, h)
<1>1. \A vis, h : FirstWay(vis, h)' <=> FirstWay(vis, h)
  BY WaysFrame, PositionsFrame DEF FirstWay
<1>2. \A flds, vis, h : FieldsFound(flds, vis, h)' <=> FieldsFound(flds, vis, h)
  BY PositionsFrame DEF FieldsFound
<1>3. \A flds, vis, h : FieldsTwice(flds, vis, h)' <=> FieldsTwice(flds, vis, h)
  BY WaysFrame, PositionsFrame, FieldsFrame DEF FieldsTwice, Again, Twice
<1> QED  BY <1>1, <1>2, <1>3

\* To be at a level after a step.
LEMMA LevelNext ==
  ASSUME decl' = decl, NEW d, NEW h,
         Queues(d, current', next'), Visits(d, current', visited'),
         NextCounted(d, next', nextCount', visited'), Counted(d, count', visited'),
         FirstWay(visited', h), FieldsFound(fields', visited', h), FieldsTwice(fields', visited', h)
  PROVE  Level(d, h)'
<1>1. Queues(d, current, next)' /\ Visits(d, current, visited)'
  BY SearchFrame
<1>2. NextCounted(d, next, nextCount, visited)' /\ Counted(d, count, visited)'
  BY SearchFrame
<1>3. FirstWay(visited, h)' /\ FieldsFound(fields, visited, h)' /\ FieldsTwice(fields, visited, h)'
  BY FoundFrame
<1> QED  BY <1>1, <1>2, <1>3 DEF Level

-----------------------------------------------------------------------------
(* Its steps *)

\* t is s without its first, which is x.
Drops(t, s, x) ==
  /\ 1 \in 1..Len(s) /\ s[1] = x
  /\ \A k \in 1..Len(t) : k + 1 \in 1..Len(s) /\ t[k] = s[k + 1]
  /\ \A k \in 1..Len(s) : k = 1 \/ \E l \in 1..Len(t) : t[l] = s[k]

\* What Tail leaves out.
LEMMA TailFacts ==
  ASSUME NEW S, NEW s \in Seq(S), s # << >>
  PROVE  Head(s) \in S /\ Tail(s) \in Seq(S) /\ Drops(Tail(s), s, Head(s))
<1>1. /\ Head(s) \in S /\ Tail(s) \in Seq(S) /\ Len(s) \in Nat /\ Len(s) > 0 /\ Head(s) = s[1]
      /\ Len(Tail(s)) = Len(s) - 1 /\ \A k \in 1..Len(Tail(s)) : Tail(s)[k] = s[k + 1]
  BY HeadTailProperties, EmptySeq, LenProperties
<1>2. PICK n \in Nat : n = Len(s) /\ n > 0
  BY <1>1
<1>3. ASSUME NEW k \in 1..n, k # 1 PROVE \E l \in 1..(n - 1) : Tail(s)[l] = s[k]
  <2>1. k - 1 \in 1..(n - 1) /\ (k - 1) + 1 = k
    BY <1>3
  <2> QED  BY <1>1, <1>2, <2>1
<1>4. \A k \in 1..(n - 1) : k + 1 \in 1..n
  BY <1>2
<1> QED  BY <1>1, <1>2, <1>3, <1>4 DEF Drops

\* What was scanned need not wait.
LEMMA VisitsTail ==
  ASSUME NEW d, NEW cur, NEW t, NEW f, Drops(t, cur, f), NEW vis, Visits(d, cur, vis), f.typ \in Earlier(d + 1)
  PROVE  Visits(d, t, vis \cup {f.typ})
<1>1. Earlier(d) \subseteq vis /\ vis \subseteq Earlier(d + 1)
  BY DEF Visits
<1>2. ASSUME NEW u \in Earlier(d + 1), u \notin vis, u # f.typ PROVE \E k \in 1..Len(t) : t[k].typ = u
  <2>1. PICK k \in 1..Len(cur) : cur[k].typ = u
    BY <1>2 DEF Visits
  <2>2. k # 1
    BY <1>2, <2>1 DEF Drops
  <2> QED  BY <2>1, <2>2 DEF Drops
<1> QED  BY <1>1, <1>2 DEF Visits

\* What is left are ways, and what was taken is one.
LEMMA QueuesTail ==
  ASSUME NEW d, NEW cur, NEW t, NEW f, Drops(t, cur, f), NEW nxt, Queues(d, cur, nxt)
  PROVE  Queues(d, t, nxt) /\ f \in Ways[d]
  BY DEF Queues, Drops

\* So is the queue with what is added.
LEMMA QueuesJoin ==
  ASSUME NEW d, NEW cur, NEW nxt \in Seq(WayType), NEW q \in Seq(WayType), Queues(d, cur, nxt),
         \A k \in 1..Len(q) : q[k] \in Ways[d + 1]
  PROVE  Queues(d, cur, nxt \o q)
<1>1. PICK a \in Nat, b \in Nat : a = Len(nxt) /\ b = Len(q)
  OBVIOUS
<1>2. Joins(nxt \o q, nxt, a, q, b)
  BY <1>1, JoinFacts
<1>3. PICK j : j = nxt \o q
  OBVIOUS
<1>4. ASSUME NEW k \in 1..(a + b) PROVE j[k] \in Ways[d + 1]
  <2>1. CASE k \in 1..a
    <3>1. j[k] = nxt[k]
      BY <1>2, <1>3, <2>1 DEF Joins
    <3> QED  BY <1>1, <2>1, <3>1 DEF Queues
  <2>2. CASE k - a \in 1..b
    <3>1. PICK l \in 1..b : l = k - a
      BY <2>2
    <3>2. l + a = k
      BY <3>1
    <3>3. j[k] = q[l]
      BY <1>2, <1>3, <3>2 DEF Joins
    <3> QED  BY <1>1, <3>3
  <2> QED  BY <1>2, <2>1, <2>2 DEF Joins
<1>5. Len(j) = a + b
  BY <1>2, <1>3 DEF Joins
<1> QED  BY <1>3, <1>4, <1>5 DEF Queues

-----------------------------------------------------------------------------
\* Nothing scanned.
LEMMA SearchInit ==
  ASSUME TypeFieldsInit
  PROVE  TypeFieldsInv
<1>1. TypeFieldsTypes
  <2>1. decl \in Graphs /\ Top \in Structs
    BY GraphFacts DEF TypeFieldsInit
  <2>2. Root \in WayType
    BY <2>1 DEF Root, WayType
  <2>3. next = <<Root>> /\ next \in Seq(WayType)
    BY <2>2 DEF TypeFieldsInit, Root
  <2> QED  BY <2>1, <2>3 DEF TypeFieldsInit, TypeFieldsTypes
<1>2. Start
  BY DEF TypeFieldsInit, Start, Root
<1> QED  BY <1>1, <1>2 DEF TypeFieldsInit, TypeFieldsInv, Searching, GoRulesUnlessShared

\* A type met again at its level is passed over (encode.go:642-645).
LEMMA ScanAgain ==
  ASSUME TypeFieldsTypes, scan, Head(current).typ \in visited, NEW d \in Nat, NEW h, Level(d, h)
  PROVE  Level(d, h)'
<1>1. /\ current # << >> /\ current' = Tail(current)
      /\ UNCHANGED <<decl, next, count, nextCount, visited, fields>>
  BY DEF scan
<1>2. PICK f : f = Head(current)
  OBVIOUS
<1>3. Drops(Tail(current), current, f)
  BY <1>1, <1>2, TailFacts DEF TypeFieldsTypes
<1>4. Visits(d, current, visited) /\ Queues(d, current, next)
  BY DEF Level
<1>5. visited \cup {f.typ} = visited /\ f.typ \in Earlier(d + 1)
  BY <1>2, <1>4 DEF Visits
<1>6. Visits(d, Tail(current), visited)
  <2>1. Visits(d, Tail(current), visited \cup {f.typ})
    BY <1>3, <1>4, <1>5, VisitsTail
  <2> QED  BY <1>5, <2>1
<1>7. Queues(d, Tail(current), next)
  BY <1>3, <1>4, QueuesTail
<1> QED  BY <1>1, <1>6, <1>7, LevelNext DEF Level

\* A type met first is scanned (encode.go:646-735).
LEMMA ScanNew ==
  ASSUME TypeFieldsTypes, scan, Head(current).typ \notin visited, NEW d \in Nat, NEW h, Level(d, h)
  PROVE  \E g : Level(d, g)'
<1>1. PICK f : f = Head(current)
  OBVIOUS
<1>2. /\ current # << >> /\ current' = Tail(current)
      /\ visited' = visited \cup {f.typ} /\ fields' = fields \o Found(f) /\ next' = next \o Queued(f)
      /\ nextCount' = [t \in Structs |-> nextCount[t] + Cardinality(EmbeddedAs(t, f.typ))]
      /\ decl' = decl /\ count' = count
  BY <1>1 DEF scan
<1>3. /\ decl \in Graphs /\ current \in Seq(WayType) /\ next \in Seq(WayType)
      /\ count \in [Structs -> Nat] /\ nextCount \in [Structs -> Nat] /\ fields \in Seq(FieldType)
  BY DEF TypeFieldsTypes
<1>4. Drops(Tail(current), current, f)
  BY <1>1, <1>2, <1>3, TailFacts
<1>5. Visits(d, current, visited) /\ Queues(d, current, next)
  BY DEF Level
<1>6. Queues(d, Tail(current), next) /\ f \in Ways[d]
  BY <1>4, <1>5, QueuesTail
<1>7. f \in WayType /\ f.typ \notin visited /\ Earlier(d) \subseteq visited
  BY <1>1, <1>3, <1>5, <1>6, WaysType DEF Visits
<1>8. f.typ \in Earlier(d + 1)
  BY <1>6, EarlierNext DEF Reach
<1>9. Visits(d, current', visited')
  BY <1>2, <1>4, <1>5, <1>8, VisitsTail
<1>10. Queued(f) \in Seq(WayType) /\ \A k \in 1..Len(Queued(f)) : Queued(f)[k] \in Ways[d + 1]
  <2>1. /\ Queued(f) \in Seq(WayType)
        /\ \A k \in 1..Len(Queued(f)) : \E i \in EmbeddedIn(f.typ) : Queued(f)[k] = StructAt(f, i)
    BY <1>3, <1>7, QueuedFacts
  <2>2. \A i \in EmbeddedIn(f.typ) : StructAt(f, i) \in Ways[d + 1]
    BY <1>6, WayStep
  <2> QED  BY <2>1, <2>2
<1>11. Queues(d, current', next')
  BY <1>2, <1>3, <1>6, <1>10, QueuesJoin
<1>12. NextCounted(d, next', nextCount', visited')
  BY <1>2, <1>3, <1>6, <1>7, ScanCounts DEF Level
<1>13. Counted(d, count', visited')
  <2>1. Counted(d, count, visited)
    BY DEF Level
  <2> QED  BY <1>2, <2>1 DEF Counted
<1>14. PICK g : g = [t \in visited \cup {f.typ} |-> IF t = f.typ THEN f ELSE h[t]]
  OBVIOUS
<1>15. FirstWay(visited', g) /\ FieldsFound(fields', visited', g) /\ FieldsTwice(fields', visited', g)
  BY <1>2, <1>3, <1>6, <1>7, <1>14, ScanFields DEF Level
<1>16. Level(d, g)'
  BY <1>2, <1>9, <1>11, <1>12, <1>13, <1>15, LevelNext
<1> QED  BY <1>16

\* What is scanned has its types.
LEMMA ScanTypes ==
  ASSUME TypeFieldsTypes, scan
  PROVE  TypeFieldsTypes'
<1>1. PICK f : f = Head(current)
  OBVIOUS
<1>2. /\ decl \in Graphs /\ current \in Seq(WayType) /\ next \in Seq(WayType)
      /\ count \in [Structs -> Nat] /\ nextCount \in [Structs -> Nat] /\ fields \in Seq(FieldType)
      /\ visited \subseteq Structs /\ stage \in {"scan", "done"}
  BY DEF TypeFieldsTypes
<1>3. current' = Tail(current) /\ current # << >> /\ UNCHANGED <<decl, count, stage>>
  BY DEF scan
<1>4. f \in WayType /\ Tail(current) \in Seq(WayType)
  BY <1>1, <1>2, <1>3, TailFacts
<1>5. decl' \in Graphs /\ count' \in [Structs' -> Nat] /\ current' \in Seq(WayType')
  BY <1>2, <1>3, <1>4, PositionsFrame
<1>6. CASE f.typ \in visited
  <2>1. UNCHANGED <<fields, next, nextCount, visited>>
    BY <1>1, <1>6 DEF scan
  <2> QED  BY <1>2, <1>3, <1>5, <2>1, PositionsFrame DEF TypeFieldsTypes
<1>7. CASE f.typ \notin visited
  <2>1. /\ visited' = visited \cup {f.typ} /\ fields' = fields \o Found(f) /\ next' = next \o Queued(f)
        /\ nextCount' = [t \in Structs |-> nextCount[t] + Cardinality(EmbeddedAs(t, f.typ))]
    BY <1>1, <1>7 DEF scan
  <2>2. Queued(f) \in Seq(WayType) /\ Found(f) \in Seq(FieldType)
    BY <1>2, <1>4, QueuedFacts, FoundFacts
  <2>3. next' \in Seq(WayType) /\ fields' \in Seq(FieldType)
    BY <1>2, <2>1, <2>2, ConcatProperties
  <2>4. visited' \subseteq Structs
    BY <1>2, <1>4, <2>1 DEF WayType
  <2>5. \A t \in Structs : Cardinality(EmbeddedAs(t, f.typ)) \in Nat
    <3>1. IsFiniteSet(EmbeddedIn(f.typ))
      BY <1>2, <1>4, PositionsIn DEF WayType
    <3>2. \A t : EmbeddedAs(t, f.typ) \subseteq EmbeddedIn(f.typ)
      BY DEF EmbeddedAs
    <3> QED  BY <3>1, <3>2, FS_Subset, FS_CardinalityType
  <2>6. nextCount' \in [Structs -> Nat]
    BY <1>2, <2>1, <2>5
  <2> QED  BY <1>2, <1>3, <1>5, <2>3, <2>4, <2>6, PositionsFrame DEF TypeFieldsTypes
<1> QED  BY <1>6, <1>7

-----------------------------------------------------------------------------
(* The end of the search *)

\* Nothing is queued where nothing is seen.
LEMMA NoneCounted ==
  ASSUME NEW d, NEW vis, vis \subseteq Earlier(d)
  PROVE  NextCounted(d, << >>, [t \in Structs |-> 0], vis)
<1>1. Seen(d, vis) = {}
  BY DEF Seen, Scanned, Down
<1>2. \A t : ~Ends(t, Seen(d, vis)) /\ ~Twice(t, Seen(d, vis)) /\ ~Waits(t, << >>)
  BY <1>1 DEF Ends, Twice, Waits
<1> QED  BY <1>2 DEF NextCounted

\* The type asked for is the first level (encode.go:625-640).
LEMMA FirstLevel ==
  ASSUME TypeFieldsTypes, nextLevel, Start
  PROVE  \E d \in Nat : \E h : Level(d, h)'
<1>1. /\ current' = <<Root>> /\ next' = << >> /\ nextCount' = [t \in Structs |-> 0]
      /\ count' = [t \in Structs |-> 0] /\ visited' = {} /\ fields' = << >> /\ decl' = decl
  BY DEF nextLevel, Start
<1>2. Ways[0] = {Root} /\ Earlier(0) = {} /\ Earlier(0 + 1) = Earlier(0) \cup Reach(0)
  BY WaysNext, EarlierNext
<1>3. Earlier(0 + 1) = {Root.typ}
  BY <1>2 DEF Reach
<1>4. Len(<<Root>>) = 1 /\ <<Root>>[1] = Root
  OBVIOUS
<1>5. Queues(0, current', next')
  BY <1>1, <1>2, <1>4 DEF Queues
<1>6. Visits(0, current', visited')
  BY <1>1, <1>2, <1>3, <1>4 DEF Visits
<1>7. NextCounted(0, next', nextCount', visited')
  BY <1>1, NoneCounted
<1>8. Counted(0, count', visited')
  BY <1>1, <1>2 DEF Counted, Twice
<1>9. PICK h : h = [t \in {} |-> Root]
  OBVIOUS
<1>10. FirstWay(visited', h)
  BY <1>1, <1>9 DEF FirstWay
<1>11. FieldsFound(fields', visited', h) /\ FieldsTwice(fields', visited', h)
  BY <1>1 DEF FieldsFound, FieldsTwice
<1>12. Level(0, h)'
  BY <1>1, <1>5, <1>6, <1>7, <1>8, <1>10, <1>11, LevelNext
<1> QED  BY <1>12

\* All structs of a level are scanned.
LEMMA LevelScanned ==
  ASSUME NEW d, NEW h, Level(d, h), current = << >>
  PROVE  visited = Earlier(d + 1)
<1>1. Visits(d, current, visited) /\ Len(current) = 0
  BY DEF Level
<1>2. \A t \in Earlier(d + 1) : t \in visited
  BY <1>1 DEF Visits
<1> QED  BY <1>1, <1>2 DEF Visits

\* The next level is counted, as the types there that are new are.
LEMMA LevelCounted ==
  ASSUME decl \in Graphs, NEW d \in Nat, NEW vis, vis = Earlier(d + 1), NEW nxt, NEW ncnt,
         NextCounted(d, nxt, ncnt, vis)
  PROVE  Counted(d + 1, ncnt, vis)
<1>1. ASSUME Unshared, NEW t \in Structs \ vis PROVE ncnt[t] > 1 <=> Twice(t, Ways[d + 1])
  <2>1. ncnt[t] > 1 <=> Twice(t, Seen(d, vis))
    BY <1>1 DEF NextCounted
  <2>2. Twice(t, Seen(d, vis)) => Twice(t, Ways[d + 1])
    BY SeenWays DEF Twice
  <2>3. ASSUME Twice(t, Ways[d + 1]) PROVE Twice(t, Seen(d, vis))
    <3>1. PICK v \in Ways[d + 1], w \in Ways[d + 1] : v # w /\ v.typ = t /\ w.typ = t
      BY <2>3 DEF Twice
    <3>2. v \in Seen(d, vis) /\ w \in Seen(d, vis)
      BY <3>1, AllSeen
    <3> QED  BY <3>1, <3>2 DEF Twice
  <2> QED  BY <2>1, <2>2, <2>3
<1> QED  BY <1>1 DEF Counted

\* The next level (encode.go:637-640).
LEMMA AnotherLevel ==
  ASSUME TypeFieldsTypes, nextLevel, NEW d \in Nat, NEW h, Level(d, h)
  PROVE  Level(d + 1, h)'
<1>1. /\ current = << >> /\ current' = next /\ next' = << >> /\ count' = nextCount
      /\ nextCount' = [t \in Structs |-> 0] /\ visited' = visited /\ fields' = fields /\ decl' = decl
  BY DEF nextLevel
<1>2. decl \in Graphs /\ d + 1 \in Nat
  BY DEF TypeFieldsTypes
<1>3. visited = Earlier(d + 1)
  BY <1>1, LevelScanned
<1>4. Queues(d, current, next) /\ NextCounted(d, next, nextCount, visited)
  BY DEF Level
<1>5. Queues(d + 1, next, << >>)
  BY <1>4 DEF Queues
<1>6. Earlier((d + 1) + 1) = Earlier(d + 1) \cup Reach(d + 1)
  BY <1>2, EarlierNext
<1>7. ASSUME NEW t \in Reach(d + 1), t \notin visited PROVE \E k \in 1..Len(next) : next[k].typ = t
  <2>1. PICK w \in Ways[d + 1] : w.typ = t
    BY DEF Reach
  <2>2. w \in Seen(d, visited)
    BY <1>2, <1>3, <1>7, <2>1, AllSeen
  <2>3. Ends(t, Seen(d, visited)) /\ t \in Structs
    BY <1>2, <2>1, <2>2, ReachTypes DEF Ends
  <2>4. Waits(t, next)
    BY <1>4, <2>3 DEF NextCounted
  <2> QED  BY <2>4 DEF Waits
<1>8. Visits(d + 1, next, visited)
  BY <1>3, <1>6, <1>7 DEF Visits
<1>9. NextCounted(d + 1, << >>, [t \in Structs |-> 0], visited)
  BY <1>3, NoneCounted
<1>10. Counted(d + 1, nextCount, visited)
  BY <1>2, <1>3, <1>4, LevelCounted
<1>11. FirstWay(visited, h) /\ FieldsFound(fields, visited, h) /\ FieldsTwice(fields, visited, h)
  BY DEF Level
<1> QED  BY <1>1, <1>5, <1>8, <1>9, <1>10, <1>11, LevelNext

-----------------------------------------------------------------------------
\* Where nothing is left to scan, everything was.
LEMMA SearchDone ==
  ASSUME decl \in Graphs, NEW d \in Nat, NEW h, Level(d, h), current = << >>, next = << >>
  PROVE  Everywhere(visited)
<1>1. visited = Earlier(d + 1) /\ d + 1 \in Nat
  BY LevelScanned
<1>2. NextCounted(d, next, nextCount, visited)
  BY DEF Level
<1>3. ASSUME NEW w \in Ways[d + 1], w.typ \notin Earlier(d + 1) PROVE FALSE
  <2>1. w \in Seen(d, visited)
    BY <1>1, <1>3, AllSeen
  <2>2. Ends(w.typ, Seen(d, visited)) /\ w.typ \in Structs
    BY <1>1, <2>1, WaysType DEF Ends, WayType
  <2>3. Waits(w.typ, next)
    BY <1>2, <2>2 DEF NextCounted
  <2> QED  BY <2>3 DEF Waits
<1>4. Reach(d + 1) \subseteq Earlier(d + 1)
  BY <1>3 DEF Reach
<1> QED  BY <1>1, <1>4, NothingFurther DEF Everywhere

\* The list of the fields chosen.
LEMMA ListFacts ==
  ASSUME NEW s, NEW S, NEW R, Lists(s, S, R), R = {p \in S \X S : IndexLess(p[1].index, p[2].index)}
  PROVE  /\ {s[i] : i \in DOMAIN s} = S
         /\ \A i, j \in DOMAIN s : i < j => IndexLess(s[i].index, s[j].index)
<1>1. s \in Seq(S) /\ DOMAIN s = 1..Len(s)
  BY DEF Lists
<1>2. \A i \in 1..Len(s) : s[i] \in S
  BY <1>1
<1>3. \A x \in S : \E k \in 1..Len(s) : s[k] = x
  BY DEF Lists
<1>4. \A i, j \in 1..Len(s) : i < j => <<s[i], s[j]>> \in R
  BY DEF Lists
<1>5. \A x, y \in S : <<x, y>> \in R => IndexLess(x.index, y.index)
  OBVIOUS
<1>6. {s[i] : i \in 1..Len(s)} = S
  BY <1>2, <1>3
<1>7. ASSUME NEW i \in 1..Len(s), NEW j \in 1..Len(s), i < j PROVE IndexLess(s[i].index, s[j].index)
  <2>1. <<s[i], s[j]>> \in R /\ s[i] \in S /\ s[j] \in S
    BY <1>2, <1>4, <1>7
  <2> QED  BY <1>5, <2>1
<1> QED  BY <1>1, <1>6, <1>7

\* The choice, in its order (encode.go:743-782).
LEMMA ChooseLists ==
  ASSUME TypeFieldsTypes, choose, Searching
  PROVE  /\ fields' \in Seq(FieldType)
         /\ {fields'[i] : i \in DOMAIN fields'} = Dominant
         /\ \A i, j \in DOMAIN fields' : i < j => IndexLess(fields'[i].index, fields'[j].index)
         /\ Unshared => Dominant = GoFields
<1>1. decl \in Graphs /\ fields \in Seq(FieldType)
  BY DEF TypeFieldsTypes
<1>2. stage = "scan" /\ current = << >> /\ next = << >>
  BY DEF choose
<1>3. ~Start
  BY <1>2 DEF Start
<1>4. PICK d \in Nat : \E h : Level(d, h)
  BY <1>2, <1>3 DEF Searching
<1>5. PICK h : Level(d, h)
  BY <1>4
<1>6. FirstWay(visited, h) /\ FieldsFound(fields, visited, h) /\ FieldsTwice(fields, visited, h)
  BY <1>5 DEF Level
<1>7. PICK R : R = {p \in Dominant \X Dominant : IndexLess(p[1].index, p[2].index)}
  OBVIOUS
<1>8. fields' = InOrder(Dominant, R)
  BY <1>7 DEF choose
<1>9. Lists(fields', Dominant, R) /\ Dominant \subseteq FieldType
  BY <1>1, <1>6, <1>7, <1>8, DominantInOrder
<1>10. fields' \in Seq(FieldType)
  BY <1>9 DEF Lists
<1>11. Everywhere(visited)
  BY <1>1, <1>2, <1>5, SearchDone
<1>12. Unshared => Dominant = GoFields
  BY <1>1, <1>6, <1>11, ChoiceIsGo
<1>13. PICK s : s = fields'
  OBVIOUS
<1>14. /\ {s[i] : i \in DOMAIN s} = Dominant
       /\ \A i, j \in DOMAIN s : i < j => IndexLess(s[i].index, s[j].index)
  BY <1>7, <1>9, <1>13, ListFacts
<1> QED  BY <1>10, <1>12, <1>13, <1>14

\* It is Go's, unless a shared struct embeds another.
LEMMA ChooseRules ==
  ASSUME TypeFieldsTypes, choose, Searching
  PROVE  GoRulesUnlessShared'
<1>1. decl' = decl
  BY DEF choose
<1>2. GoFields' = GoFields /\ Unshared' = Unshared
  BY <1>1, FieldsFrame
<1>3. ASSUME Unshared PROVE GoRules'
  <2>1. {fields'[i] : i \in DOMAIN fields'} = GoFields'
    BY <1>2, <1>3, ChooseLists
  <2>2. \A i, j \in DOMAIN fields' : i < j => IndexLess(fields'[i].index, fields'[j].index)
    BY ChooseLists
  <2>3. \A x, y : IndexLess(x, y)' <=> IndexLess(x, y)
    BY DEF IndexLess
  <2>4. \A i, j \in DOMAIN fields' : i < j => IndexLess(fields[i].index, fields[j].index)'
    BY <2>2 DEF IndexLess
  <2> QED  BY <2>1, <2>4 DEF GoRules
<1>4. Unshared' => GoRules'
  BY <1>2, <1>3
<1> QED  BY <1>4 DEF GoRulesUnlessShared, Unshared

-----------------------------------------------------------------------------
\* Every step keeps the invariant.
LEMMA SearchStep ==
  ASSUME TypeFieldsInv, [TypeFieldsNext]_typeFieldsVars
  PROVE  TypeFieldsInv'
<1>0. TypeFieldsTypes /\ Searching /\ GoRulesUnlessShared
  BY DEF TypeFieldsInv
<1>1. CASE scan
  <2>1. TypeFieldsTypes'
    BY <1>0, <1>1, ScanTypes
  <2>2. stage = "scan" /\ stage' = "scan" /\ current # << >>
    BY <1>1 DEF scan
  <2>3. PICK d \in Nat : \E h : Level(d, h)
    BY <1>0, <2>2 DEF Searching, Start
  <2>4. PICK h : Level(d, h)
    BY <2>3
  <2>5. CASE Head(current).typ \in visited
    <3>1. Level(d, h)'
      BY <1>0, <1>1, <2>4, <2>5, ScanAgain
    <3>2. Searching'
      BY <3>1 DEF Searching
    <3> QED  BY <2>1, <2>2, <3>2 DEF TypeFieldsInv, GoRulesUnlessShared
  <2>6. CASE Head(current).typ \notin visited
    <3>1. \E g : Level(d, g)'
      BY <1>0, <1>1, <2>4, <2>6, ScanNew
    <3>2. Searching'
      BY <3>1 DEF Searching
    <3> QED  BY <2>1, <2>2, <3>2 DEF TypeFieldsInv, GoRulesUnlessShared
  <2> QED  BY <2>5, <2>6
<1>2. CASE nextLevel
  <2>1. /\ stage = "scan" /\ stage' = "scan" /\ decl' = decl /\ current' = next /\ next' = << >>
        /\ count' = nextCount /\ nextCount' = [t \in Structs |-> 0] /\ visited' = visited /\ fields' = fields
    BY <1>2 DEF nextLevel
  <2>2. TypeFieldsTypes'
    BY <1>0, <2>1, PositionsFrame DEF TypeFieldsTypes
  <2>3. \E d \in Nat : \E h : Level(d, h)'
    <3>1. CASE Start
      BY <1>0, <1>2, <3>1, FirstLevel
    <3>2. CASE ~Start
      <4>1. PICK d \in Nat : \E h : Level(d, h)
        BY <1>0, <2>1, <3>2 DEF Searching
      <4>2. PICK h : Level(d, h)
        BY <4>1
      <4>3. Level(d + 1, h)' /\ d + 1 \in Nat
        BY <1>0, <1>2, <4>2, AnotherLevel
      <4> QED  BY <4>3
    <3> QED  BY <3>1, <3>2
  <2>4. Searching'
    BY <2>3 DEF Searching
  <2> QED  BY <2>1, <2>2, <2>4 DEF TypeFieldsInv, GoRulesUnlessShared
<1>3. CASE choose
  <2>1. stage' = "done" /\ UNCHANGED <<decl, current, next, count, nextCount, visited>>
    BY <1>3 DEF choose
  <2>2. fields' \in Seq(FieldType)
    BY <1>0, <1>3, ChooseLists
  <2>3. TypeFieldsTypes'
    BY <1>0, <2>1, <2>2, PositionsFrame DEF TypeFieldsTypes
  <2>4. GoRulesUnlessShared'
    BY <1>0, <1>3, ChooseRules
  <2> QED  BY <2>1, <2>3, <2>4 DEF TypeFieldsInv, Searching
<1>4. CASE UNCHANGED typeFieldsVars
  <2>1. /\ decl' = decl /\ current' = current /\ next' = next /\ count' = count /\ nextCount' = nextCount
        /\ visited' = visited /\ fields' = fields /\ stage' = stage
    BY <1>4 DEF typeFieldsVars
  <2>2. TypeFieldsTypes'
    BY <1>0, <2>1, PositionsFrame DEF TypeFieldsTypes
  <2>3. Start' <=> Start
    BY <2>1, PositionsFrame DEF Start, Root
  <2>4. ASSUME NEW d \in Nat, NEW h, Level(d, h) PROVE Level(d, h)'
    BY <2>1, <2>4, LevelNext DEF Level
  <2>5. Searching'
    BY <1>0, <2>1, <2>3, <2>4 DEF Searching
  <2>6. GoRules' <=> GoRules
    BY <2>1, FieldsFrame DEF GoRules, IndexLess
  <2>7. GoRulesUnlessShared'
    BY <1>0, <2>1, <2>6, FieldsFrame DEF GoRulesUnlessShared, Unshared
  <2> QED  BY <2>2, <2>5, <2>7 DEF TypeFieldsInv
<1> QED  BY <1>1, <1>2, <1>3, <1>4 DEF TypeFieldsNext

(***************************************************************************)
(* The invariant of the search, for every family of struct types, also     *)
(* those that embed each other in a circle (encode.go:611-784).            *)
(***************************************************************************)
THEOREM SearchInvariant == TypeFieldsSpec => []TypeFieldsInv
<1>1. TypeFieldsInit => TypeFieldsInv
  BY SearchInit
<1>2. TypeFieldsInv /\ [TypeFieldsNext]_typeFieldsVars => TypeFieldsInv'
  BY SearchStep
<1> QED  BY <1>1, <1>2, PTL DEF TypeFieldsSpec

(***************************************************************************)
(* For every family of struct types without a shared struct that embeds    *)
(* another, what is encoded is what Go says of promoted fields, in the     *)
(* order of the declarations (encode.go:743-782).                          *)
(***************************************************************************)
THEOREM GoRulesUnlessSharedAlways == TypeFieldsSpec => []GoRulesUnlessShared
<1>1. TypeFieldsInv => GoRulesUnlessShared
  BY DEF TypeFieldsInv
<1> QED  BY <1>1, SearchInvariant, PTL

-----------------------------------------------------------------------------
(* What a value is made of *)

\* The parts of x as far as n deep.
PartsUpTo(x, n, g) ==
  /\ g = [m \in 0..n |-> g[m]] /\ g[0] = {x}
  /\ \A m \in 1..n : g[m] = PartsOfAll(g[m - 1])

\* They are the same, as far as both go.
LEMMA PartsUpToAgree ==
  ASSUME NEW x, NEW n \in Nat, NEW k \in Nat, NEW g, NEW h, PartsUpTo(x, n, g), PartsUpTo(x, k, h)
  PROVE  \A m \in Nat : m <= n /\ m <= k => g[m] = h[m]
<1> DEFINE S == {m \in Nat : m <= n /\ m <= k => g[m] = h[m]}
<1>1. 0 \in S
  BY DEF PartsUpTo
<1>2. ASSUME NEW m \in Nat, m \in S PROVE m + 1 \in S
  <2> SUFFICES ASSUME m + 1 <= n, m + 1 <= k PROVE g[m + 1] = h[m + 1]
    OBVIOUS
  <2>1. g[m] = h[m]
    BY <1>2
  <2>2. m + 1 \in 1..n /\ m + 1 \in 1..k /\ (m + 1) - 1 = m
    OBVIOUS
  <2>3. g[m + 1] = PartsOfAll(g[m])
    BY <2>2 DEF PartsUpTo
  <2>4. h[m + 1] = PartsOfAll(h[m])
    BY <2>2 DEF PartsUpTo
  <2> QED  BY <2>1, <2>3, <2>4
<1> HIDE DEF S
<1>3. Nat \subseteq S
  BY <1>1, <1>2, Counting
<1> QED  BY <1>3 DEF S

\* They exist, as far as wanted.
LEMMA PartsUpToExists == \A x : \A n \in Nat : \E g : PartsUpTo(x, n, g)
<1> SUFFICES ASSUME NEW x PROVE \A n \in Nat : \E g : PartsUpTo(x, n, g)
  OBVIOUS
<1> DEFINE S == {n \in Nat : \E g : PartsUpTo(x, n, g)}
<1>1. 0 \in S
  <2> DEFINE g == [m \in 0..0 |-> {x}]
  <2>1. PartsUpTo(x, 0, g)
    BY DEF PartsUpTo
  <2> QED  BY <2>1
<1>2. ASSUME NEW n \in Nat, n \in S PROVE n + 1 \in S
  <2>1. PICK g : PartsUpTo(x, n, g)
    BY <1>2
  <2> DEFINE h == [m \in 0..(n + 1) |-> IF m = n + 1 THEN PartsOfAll(g[n]) ELSE g[m]]
  <2>2. h[0] = {x}
    BY <2>1 DEF PartsUpTo
  <2>3. ASSUME NEW m \in 1..(n + 1) PROVE h[m] = PartsOfAll(h[m - 1])
    <3>1. CASE m = n + 1
      <4>1. h[m] = PartsOfAll(g[n]) /\ h[m - 1] = g[n]
        BY <3>1
      <4> QED  BY <4>1
    <3>2. CASE m # n + 1
      <4>1. m \in 1..n /\ h[m] = g[m] /\ h[m - 1] = g[m - 1]
        BY <3>2
      <4> HIDE DEF h
      <4>2. g[m] = PartsOfAll(g[m - 1])
        BY <2>1, <4>1 DEF PartsUpTo
      <4> QED  BY <4>1, <4>2
    <3> QED  BY <3>1, <3>2
  <2>4. h = [m \in 0..(n + 1) |-> h[m]]
    OBVIOUS
  <2> HIDE DEF h
  <2>5. PartsUpTo(x, n + 1, h)
    BY <2>2, <2>3, <2>4 DEF PartsUpTo
  <2> QED  BY <2>5
<1> HIDE DEF S
<1>3. Nat \subseteq S
  BY <1>1, <1>2, Counting
<1> QED  BY <1>3 DEF S

\* So PartsIn is what its definition says.
LEMMA PartsFunction ==
  ASSUME NEW x
  PROVE  \E f : f = [m \in Nat |-> IF m = 0 THEN {x} ELSE PartsOfAll(f[m - 1])]
<1> DEFINE G(n) == CHOOSE g : PartsUpTo(x, n, g)
           F == [n \in Nat |-> G(n)[n]]
<1>1. \A n \in Nat : PartsUpTo(x, n, G(n))
  BY PartsUpToExists
<1>2. ASSUME NEW n \in Nat PROVE F[n] = IF n = 0 THEN {x} ELSE PartsOfAll(F[n - 1])
  <2>1. PartsUpTo(x, n, G(n))
    BY <1>1
  <2>2. CASE n = 0
    <3>1. G(n)[0] = {x}
      BY <2>1 DEF PartsUpTo
    <3> QED  BY <2>2, <3>1
  <2>3. CASE n # 0
    <3>1. n - 1 \in Nat /\ n \in 1..n /\ n - 1 <= n
      BY <2>3
    <3>2. PartsUpTo(x, n - 1, G(n - 1))
      BY <1>1, <3>1
    <3>3. G(n)[n] = PartsOfAll(G(n)[n - 1])
      BY <2>1, <3>1 DEF PartsUpTo
    <3> HIDE DEF G
    <3>4. G(n)[n - 1] = G(n - 1)[n - 1]
      BY <2>1, <3>1, <3>2, PartsUpToAgree
    <3>5. F[n] = G(n)[n] /\ F[n - 1] = G(n - 1)[n - 1]
      BY <3>1
    <3> HIDE DEF F
    <3> QED  BY <2>3, <3>3, <3>4, <3>5
  <2> QED  BY <2>2, <2>3
<1>3. DOMAIN F = Nat /\ F = [n \in Nat |-> F[n]]
  OBVIOUS
<1> HIDE DEF F
<1>4. F = [n \in Nat |-> IF n = 0 THEN {x} ELSE PartsOfAll(F[n - 1])]
  BY <1>2, <1>3
<1> QED  BY <1>4

\* What the definition of PartsIn says.
LEMMA PartsNext ==
  ASSUME NEW x
  PROVE  /\ PartsIn(x, 0) = {x}
         /\ \A n \in Nat : PartsIn(x, n + 1) = PartsOfAll(PartsIn(x, n))
<1> DEFINE Is(f) == f = [m \in Nat |-> IF m = 0 THEN {x} ELSE PartsOfAll(f[m - 1])]
           F == CHOOSE f : Is(f)
<1>1. Is(F)
  BY PartsFunction
<1>2. \A n : PartsIn(x, n) = F[n]
  BY DEF PartsIn
<1>3. F = [m \in Nat |-> IF m = 0 THEN {x} ELSE PartsOfAll(F[m - 1])]
  BY <1>1
<1> HIDE DEF F
<1>4. F[0] = {x}
  BY <1>3
<1>5. ASSUME NEW n \in Nat PROVE F[n + 1] = PartsOfAll(F[n])
  <2>1. n + 1 \in Nat /\ n + 1 # 0 /\ (n + 1) - 1 = n
    OBVIOUS
  <2>2. F[n + 1] = IF n + 1 = 0 THEN {x} ELSE PartsOfAll(F[(n + 1) - 1])
    BY <1>3, <2>1
  <2> QED  BY <2>1, <2>2
<1> QED  BY <1>2, <1>4, <1>5

\* The parts in x are those in its parts.
LEMMA PartsInParts ==
  ASSUME NEW x
  PROVE  \A n \in Nat : \A z : z \in PartsIn(x, n + 1) <=> \E y \in PartsOf(x) : z \in PartsIn(y, n)
<1> DEFINE S == {n \in Nat : \A z : z \in PartsIn(x, n + 1) <=> \E y \in PartsOf(x) : z \in PartsIn(y, n)}
<1>0. \A W, z : z \in PartsOfAll(W) <=> \E y \in W : z \in PartsOf(y)
  BY DEF PartsOfAll
<1>1. 0 \in S
  <2>1. PartsIn(x, 0 + 1) = PartsOfAll({x})
    BY PartsNext
  <2>2. \A y : PartsIn(y, 0) = {y}
    BY PartsNext
  <2>3. \A z : z \in PartsIn(x, 0 + 1) <=> z \in PartsOf(x)
    BY <1>0, <2>1
  <2> QED  BY <2>2, <2>3
<1>2. ASSUME NEW n \in Nat, n \in S PROVE n + 1 \in S
  <2>1. \A z : z \in PartsIn(x, n + 1) <=> \E y \in PartsOf(x) : z \in PartsIn(y, n)
    BY <1>2
  <2>2. n + 1 \in Nat /\ PartsIn(x, (n + 1) + 1) = PartsOfAll(PartsIn(x, n + 1))
    BY PartsNext
  <2>3. \A y : PartsIn(y, n + 1) = PartsOfAll(PartsIn(y, n))
    BY PartsNext
  <2>4. ASSUME NEW z PROVE z \in PartsIn(x, (n + 1) + 1) <=> \E y \in PartsOf(x) : z \in PartsIn(y, n + 1)
    <3>1. z \in PartsIn(x, (n + 1) + 1) <=> \E w \in PartsIn(x, n + 1) : z \in PartsOf(w)
      BY <1>0, <2>2
    <3>2. \A y : z \in PartsIn(y, n + 1) <=> \E w \in PartsIn(y, n) : z \in PartsOf(w)
      BY <1>0, <2>3
    <3> QED  BY <2>1, <3>1, <3>2
  <2> QED  BY <2>2, <2>4
<1> HIDE DEF S
<1>3. Nat \subseteq S
  BY <1>1, <1>2, Counting
<1> QED  BY <1>3 DEF S

\* A part of x is refused, where x is d deep.
RefusedFrom(x, d) == \E n \in Nat : n + d <= StackLimit + 1 /\ \E y \in PartsIn(x, n) : Refuses(y)

\* What RefusedFrom says of a value and of its parts.
LEMMA RefusedStep ==
  ASSUME NEW x, NEW d \in Nat, d <= StackLimit + 1
  PROVE  RefusedFrom(x, d) <=> Refuses(x) \/ \E y \in PartsOf(x) : RefusedFrom(y, d + 1)
<1>0. StackLimit \in Nat
  BY MarshalAssumption
<1>1. ASSUME NEW n \in Nat, n + d <= StackLimit + 1, NEW z \in PartsIn(x, n), Refuses(z)
      PROVE  Refuses(x) \/ \E y \in PartsOf(x) : RefusedFrom(y, d + 1)
  <2>1. CASE n = 0
    BY <1>1, <2>1, PartsNext
  <2>2. CASE n # 0
    <3>1. PICK m \in Nat : n = m + 1
      <4>1. n - 1 \in Nat /\ n = (n - 1) + 1
        BY <2>2
      <4> QED  BY <4>1
    <3>2. PICK y \in PartsOf(x) : z \in PartsIn(y, m)
      BY <1>1, <3>1, PartsInParts
    <3>3. m + (d + 1) <= StackLimit + 1
      BY <1>0, <1>1, <3>1
    <3> QED  BY <1>1, <3>2, <3>3 DEF RefusedFrom
  <2> QED  BY <2>1, <2>2
<1>2. ASSUME Refuses(x) PROVE RefusedFrom(x, d)
  <2>1. x \in PartsIn(x, 0) /\ 0 + d <= StackLimit + 1
    BY PartsNext
  <2> QED  BY <1>2, <2>1 DEF RefusedFrom
<1>3. ASSUME NEW y \in PartsOf(x), RefusedFrom(y, d + 1) PROVE RefusedFrom(x, d)
  <2>1. PICK m \in Nat : m + (d + 1) <= StackLimit + 1 /\ \E z \in PartsIn(y, m) : Refuses(z)
    BY <1>3 DEF RefusedFrom
  <2>2. PICK z \in PartsIn(y, m) : Refuses(z)
    BY <2>1
  <2>3. z \in PartsIn(x, m + 1)
    BY <2>2, PartsInParts
  <2>4. m + 1 \in Nat /\ (m + 1) + d <= StackLimit + 1
    BY <1>0, <2>1
  <2> QED  BY <2>2, <2>3, <2>4 DEF RefusedFrom
<1> QED  BY <1>1, <1>2, <1>3 DEF RefusedFrom

\* What is refused, from the value itself on.
LEMMA RefusedIs ==
  ASSUME NEW x
  PROVE  Refused(x) <=> RefusedFrom(x, 1)
<1>1. StackLimit \in Nat
  BY MarshalAssumption
<1>2. \A n \in Nat : n \in 0..StackLimit <=> n + 1 <= StackLimit + 1
  BY <1>1
<1>3. \A n \in 0..StackLimit : n \in Nat
  BY <1>1
<1> QED  BY <1>2, <1>3 DEF Refused, RefusedFrom

-----------------------------------------------------------------------------
(* Lists of anything *)

\* A list of anything, and what is in it.
IsList(s) == \E S : s \in Seq(S)
\* And what is in it.
Has(s, x) == \E k \in 1..Len(s) : s[k] = x

\* t has what s and u have.
Both(t, s, u) == \A x : Has(t, x) <=> Has(s, x) \/ Has(u, x)

\* Induction from 1 to n.
LEMMA UpTo ==
  ASSUME NEW n \in Nat \ {0}, NEW S, 1 \in S, \A k \in 1..(n - 1) : k \in S => k + 1 \in S
  PROVE  1..n \subseteq S
<1> DEFINE T == {k \in Nat : k + 1 <= n => k + 1 \in S}
<1>1. 0 \in T
  OBVIOUS
<1>2. ASSUME NEW k \in Nat, k \in T PROVE k + 1 \in T
  <2> SUFFICES ASSUME k + 2 <= n PROVE (k + 1) + 1 \in S
    OBVIOUS
  <2>1. k + 1 \in 1..(n - 1) /\ k + 1 \in S
    BY <1>2
  <2> QED  BY <2>1
<1>3. Nat \subseteq T
  <2> HIDE DEF T
  <2> QED  BY <1>1, <1>2, Counting
<1>4. ASSUME NEW i \in 1..n PROVE i \in S
  <2>1. i - 1 \in T
    BY <1>3
  <2> QED  BY <2>1
<1> QED  BY <1>4

\* A concatenation has what both lists have.
LEMMA BothJoined ==
  ASSUME NEW S, NEW s \in Seq(S), NEW u \in Seq(S)
  PROVE  s \o u \in Seq(S) /\ Both(s \o u, s, u)
<1>1. PICK a \in Nat, b \in Nat : a = Len(s) /\ b = Len(u)
  OBVIOUS
<1>2. PICK t : t = s \o u
  OBVIOUS
<1>3. /\ t \in Seq(S) /\ Len(t) = a + b
      /\ \A k \in 1..(a + b) : t[k] = IF k <= a THEN s[k] ELSE u[k - a]
  BY <1>1, <1>2, ConcatProperties
<1>4. ASSUME NEW k \in 1..a PROVE k \in 1..(a + b) /\ t[k] = s[k]
  BY <1>3
<1>5. ASSUME NEW k \in 1..b PROVE k + a \in 1..(a + b) /\ t[k + a] = u[k]
  <2>1. k + a \in 1..(a + b) /\ ~(k + a <= a) /\ (k + a) - a = k
    OBVIOUS
  <2> QED  BY <1>3, <2>1
<1>6. ASSUME NEW k \in 1..(a + b) PROVE (k \in 1..a /\ t[k] = s[k]) \/ (k - a \in 1..b /\ t[k] = u[k - a])
  BY <1>3
<1>7. ASSUME NEW x PROVE /\ Has(t, x) <=> \E k \in 1..(a + b) : t[k] = x
                         /\ Has(s, x) <=> \E k \in 1..a : s[k] = x
                         /\ Has(u, x) <=> \E k \in 1..b : u[k] = x
  BY <1>1, <1>3 DEF Has
<1>8. ASSUME NEW x, Has(t, x) PROVE Has(s, x) \/ Has(u, x)
  BY <1>6, <1>7, <1>8
<1>9. ASSUME NEW x, Has(s, x) PROVE Has(t, x)
  BY <1>4, <1>7, <1>9
<1>10. ASSUME NEW x, Has(u, x) PROVE Has(t, x)
  BY <1>5, <1>7, <1>10
<1> QED  BY <1>2, <1>3, <1>8, <1>9, <1>10 DEF Both

\* What is in a list is where its members are from.
LEMMA ListOver ==
  ASSUME NEW s, IsList(s)
  PROVE  /\ Len(s) \in Nat /\ s \in Seq({s[k] : k \in 1..Len(s)})
         /\ \A S : (\A x : Has(s, x) => x \in S) => s \in Seq(S)
<1>1. PICK S : s \in Seq(S)
  BY DEF IsList
<1>2. Len(s) \in Nat
  BY <1>1
<1>3. ASSUME NEW T, \A x : Has(s, x) => x \in T PROVE s \in Seq(T)
  <2>1. \A k \in 1..Len(s) : s[k] \in T
    BY <1>3 DEF Has
  <2>2. s = [k \in 1..Len(s) |-> s[k]]
    BY <1>1
  <2> QED  BY <1>2, <2>1, <2>2
<1>4. \A x : Has(s, x) => x \in {s[k] : k \in 1..Len(s)}
  BY DEF Has
<1> QED  BY <1>2, <1>3, <1>4

\* So it is for any two lists.
LEMMA ListJoined ==
  ASSUME NEW s, NEW u, IsList(s), IsList(u)
  PROVE  IsList(s \o u) /\ Both(s \o u, s, u)
<1>1. PICK S : S = {s[k] : k \in 1..Len(s)} \cup {u[k] : k \in 1..Len(u)}
  OBVIOUS
<1>2. s \in Seq(S)
  <2>1. \A x : Has(s, x) => x \in S
    BY <1>1 DEF Has
  <2> QED  BY <2>1, ListOver
<1>3. u \in Seq(S)
  <2>1. \A x : Has(u, x) => x \in S
    BY <1>1 DEF Has
  <2> QED  BY <2>1, ListOver
<1>4. s \o u \in Seq(S) /\ Both(s \o u, s, u)
  BY <1>2, <1>3, BothJoined
<1> QED  BY <1>4 DEF IsList

\* Short lists.
LEMMA ListShort ==
  /\ IsList(<< >>) /\ \A x : ~Has(<< >>, x)
  /\ \A a : IsList(<<a>>) /\ \A x : Has(<<a>>, x) <=> x = a
  /\ \A a, b : IsList(<<a, b>>) /\ \A x : Has(<<a, b>>, x) <=> x = a \/ x = b
<1>1. << >> \in Seq({}) /\ Len(<< >>) = 0
  OBVIOUS
<1>2. ASSUME NEW a PROVE IsList(<<a>>) /\ \A x : Has(<<a>>, x) <=> x = a
  <2>1. <<a>> \in Seq({a}) /\ Len(<<a>>) = 1 /\ <<a>>[1] = a
    OBVIOUS
  <2>2. PICK s : s = <<a>>
    OBVIOUS
  <2>3. \A x : Has(s, x) <=> x = a
    BY <2>1, <2>2 DEF Has
  <2> QED  BY <2>1, <2>2, <2>3 DEF IsList
<1>3. ASSUME NEW a, NEW b PROVE IsList(<<a, b>>) /\ \A x : Has(<<a, b>>, x) <=> x = a \/ x = b
  <2>1. <<a, b>> \in Seq({a, b}) /\ Len(<<a, b>>) = 2 /\ <<a, b>>[1] = a /\ <<a, b>>[2] = b
    OBVIOUS
  <2>2. PICK s : s = <<a, b>>
    OBVIOUS
  <2>3. \A k : k \in 1..2 <=> k = 1 \/ k = 2
    OBVIOUS
  <2>4. \A x : Has(s, x) <=> x = a \/ x = b
    BY <2>1, <2>2, <2>3 DEF Has
  <2> QED  BY <2>1, <2>2, <2>4 DEF IsList
<1>4. \A x : ~Has(<< >>, x)
  BY <1>1 DEF Has
<1> QED  BY <1>1, <1>2, <1>3, <1>4 DEF IsList

\* Lists of as many as another.
LEMMA ListOf ==
  ASSUME NEW n \in Nat, NEW s, s = [i \in 1..n |-> s[i]]
  PROVE  /\ IsList(s) /\ Len(s) = n
         /\ \A x : Has(s, x) <=> \E i \in 1..n : x = s[i]
<1>1. PICK S : S = {s[i] : i \in 1..n}
  OBVIOUS
<1>2. s \in Seq(S) /\ Len(s) = n
  BY <1>1
<1> QED  BY <1>2 DEF IsList, Has

-----------------------------------------------------------------------------
(* FlattenSeq *)

\* The lists ss joined one by one: f[i] has what the first i have.
Piles(f, ss, k) ==
  /\ f[1] = ss[1] /\ \A i \in 2..k : f[i] = f[i - 1] \o ss[i]
  /\ \A i \in 1..k : \A x : Has(f[i], x) <=> \E j \in 1..i : Has(ss[j], x)

\* One list more.
LEMMA PileMore ==
  ASSUME NEW S, NEW n \in Nat \ {0}, NEW ss \in [1..n -> Seq(S)], NEW k \in 1..(n - 1),
         NEW f \in [1..k -> Seq(S)], Piles(f, ss, k)
  PROVE  \E g \in [1..(k + 1) -> Seq(S)] : Piles(g, ss, k + 1)
<1> DEFINE h == f[k] \o ss[k + 1]
           g == [i \in 1..(k + 1) |-> IF i = k + 1 THEN h ELSE f[i]]
<1>1. f[k] \in Seq(S) /\ ss[k + 1] \in Seq(S)
  OBVIOUS
<1>2. h \in Seq(S) /\ Both(h, f[k], ss[k + 1])
  BY <1>1, BothJoined
<1> HIDE DEF h
<1>3. g \in [1..(k + 1) -> Seq(S)] /\ g[k + 1] = h /\ \A i \in 1..k : g[i] = f[i]
  BY <1>2
<1> HIDE DEF g
<1>4. g[1] = ss[1]
  BY <1>3 DEF Piles
<1>5. ASSUME NEW i \in 2..(k + 1) PROVE g[i] = g[i - 1] \o ss[i]
  <2>1. CASE i = k + 1
    <3>1. g[i - 1] = f[k] /\ g[i] = h /\ ss[i] = ss[k + 1]
      BY <1>3, <2>1
    <3> QED  BY <3>1 DEF h
  <2>2. CASE i # k + 1
    <3>1. i \in 2..k /\ i \in 1..k /\ i - 1 \in 1..k
      BY <2>2
    <3>2. g[i] = f[i] /\ g[i - 1] = f[i - 1] /\ f[i] = f[i - 1] \o ss[i]
      BY <1>3, <3>1 DEF Piles
    <3> QED  BY <3>2
  <2> QED  BY <2>1, <2>2
<1>6. ASSUME NEW i \in 1..(k + 1), NEW x PROVE Has(g[i], x) <=> \E j \in 1..i : Has(ss[j], x)
  <2>1. CASE i = k + 1
    <3>1. Has(g[i], x) <=> Has(f[k], x) \/ Has(ss[k + 1], x)
      BY <1>2, <1>3, <2>1 DEF Both
    <3>2. Has(f[k], x) <=> \E j \in 1..k : Has(ss[j], x)
      <4>1. k \in 1..k
        OBVIOUS
      <4> QED  BY <4>1, Zenon DEF Piles
    <3>3. \A j : j \in 1..i <=> j \in 1..k \/ j = k + 1
      BY <2>1
    <3> QED  BY <3>1, <3>2, <3>3
  <2>2. CASE i # k + 1
    <3>1. i \in 1..k /\ g[i] = f[i]
      BY <1>3, <2>2
    <3> QED  BY <3>1 DEF Piles
  <2> QED  BY <2>1, <2>2
<1>7. Piles(g, ss, k + 1)
  BY <1>4, <1>5, <1>6 DEF Piles
<1> QED  BY <1>3, <1>7

\* All of them.
LEMMA PileAll ==
  ASSUME NEW S, NEW n \in Nat \ {0}, NEW ss \in [1..n -> Seq(S)]
  PROVE  \E f \in [1..n -> Seq(S)] : Piles(f, ss, n)
<1> DEFINE Piled(k) == \E f \in [1..k -> Seq(S)] : Piles(f, ss, k)
           T == {k \in 1..n : Piled(k)}
<1>1. Piled(1)
  <2> DEFINE f == [i \in 1..1 |-> ss[1]]
  <2>1. f \in [1..1 -> Seq(S)] /\ f[1] = ss[1]
    OBVIOUS
  <2> HIDE DEF f
  <2>2. \A j : j \in 1..1 <=> j = 1
    OBVIOUS
  <2>3. Piles(f, ss, 1)
    BY <2>1, <2>2 DEF Piles
  <2> QED  BY <2>1, <2>3
<1>2. ASSUME NEW k \in 1..(n - 1), Piled(k) PROVE Piled(k + 1)
  BY <1>2, PileMore
<1> HIDE DEF Piled
<1>3. 1 \in T /\ \A k \in 1..(n - 1) : k \in T => k + 1 \in T
  BY <1>1, <1>2
<1>4. n \in T
  <2> HIDE DEF T
  <2>1. 1..n \subseteq T
    BY <1>3, UpTo, Zenon
  <2> QED  BY <2>1
<1> QED  BY <1>4 DEF Piled

\* FlattenSeq has what they have.
LEMMA FlattenHas ==
  ASSUME NEW S, NEW n \in Nat \ {0}, NEW ss \in [1..n -> Seq(S)]
  PROVE  /\ FlattenSeq(ss) \in Seq(S)
         /\ \A x : Has(FlattenSeq(ss), x) <=> \E i \in 1..n : Has(ss[i], x)
<1>1. PICK f \in [1..n -> Seq(S)] : Piles(f, ss, n)
  BY PileAll
<1> DEFINE Recursive(h) == h = [i \in 1..n |-> IF i = 1 THEN ss[i] ELSE h[i - 1] \o ss[i]]
           G == CHOOSE h : Recursive(h)
<1>2. Recursive(f)
  <2> DEFINE F(i) == IF i = 1 THEN ss[i] ELSE f[i - 1] \o ss[i]
  <2>1. ASSUME NEW i \in 1..n PROVE f[i] = F(i)
    <3>1. CASE i = 1
      BY <1>1, <3>1 DEF Piles
    <3>2. CASE i # 1
      <4>1. i \in 2..n
        BY <3>2
      <4>2. f[i] = f[i - 1] \o ss[i]
        BY <1>1, <4>1 DEF Piles
      <4> QED  BY <3>2, <4>2
    <3> QED  BY <3>1, <3>2
  <2>2. f = [i \in 1..n |-> f[i]]
    OBVIOUS
  <2> HIDE DEF F
  <2>3. f = [i \in 1..n |-> F(i)]
    BY <2>1, <2>2
  <2> QED  BY <2>3 DEF F
<1>3. Recursive(G)
  <2> HIDE DEF Recursive
  <2> QED  BY <1>2, Zenon
<1>4. Len(ss) = n /\ n # 0
  OBVIOUS
<1>5. FlattenSeq(ss) = G[n]
  BY <1>4, Zenon DEF FlattenSeq
<1> HIDE DEF G
<1>6. G[1] = ss[1] /\ \A i \in 2..n : G[i] = G[i - 1] \o ss[i]
  <2>1. ASSUME NEW i \in 1..n PROVE G[i] = IF i = 1 THEN ss[i] ELSE G[i - 1] \o ss[i]
    BY <1>3, Zenon
  <2>2. 1 \in 1..n /\ \A i \in 2..n : i \in 1..n /\ i # 1
    OBVIOUS
  <2> HIDE DEF Recursive
  <2> QED  BY <2>1, <2>2, Zenon
<1> HIDE DEF Recursive
<1> DEFINE T == {k \in 1..n : G[k] = f[k]}
<1>7. 1 \in T
  BY <1>1, <1>6 DEF Piles
<1>8. ASSUME NEW k \in 1..(n - 1), k \in T PROVE k + 1 \in T
  <2>1. k + 1 \in 2..n /\ (k + 1) - 1 = k /\ G[k] = f[k]
    BY <1>8
  <2>2. G[k + 1] = G[k] \o ss[k + 1] /\ f[k + 1] = f[k] \o ss[k + 1]
    BY <1>1, <1>6, <2>1 DEF Piles
  <2>3. G[k + 1] = f[k + 1]
    BY <2>1, <2>2
  <2> QED  BY <2>1, <2>3
<1>9. n \in T
  <2> HIDE DEF T
  <2>1. 1..n \subseteq T
    BY <1>7, <1>8, UpTo
  <2> QED  BY <2>1
<1>10. FlattenSeq(ss) = f[n] /\ f[n] \in Seq(S)
  BY <1>1, <1>5, <1>9
<1>11. \A x : Has(f[n], x) <=> \E i \in 1..n : Has(ss[i], x)
  BY <1>1 DEF Piles
<1> QED  BY <1>10, <1>11

\* Also where there are none, and whatever they are lists of.
LEMMA FlattenList ==
  ASSUME NEW n \in Nat, NEW ss, ss = [i \in 1..n |-> ss[i]], \A i \in 1..n : IsList(ss[i])
  PROVE  /\ IsList(FlattenSeq(ss))
         /\ \A x : Has(FlattenSeq(ss), x) <=> \E i \in 1..n : Has(ss[i], x)
<1>1. CASE n = 0
  <2>1. ss = << >> /\ Len(ss) = 0
    BY <1>1
  <2>2. FlattenSeq(ss) = << >>
    BY <2>1, Zenon DEF FlattenSeq
  <2>3. ~\E i \in 1..n : TRUE
    BY <1>1
  <2> QED  BY <2>2, <2>3, ListShort
<1>2. CASE n # 0
  <2>1. PICK S : S = UNION {{ss[i][k] : k \in 1..Len(ss[i])} : i \in 1..n}
    OBVIOUS
  <2>2. ASSUME NEW i \in 1..n PROVE ss[i] \in Seq(S)
    <3>1. \A x : Has(ss[i], x) => x \in S
      BY <2>1 DEF Has
    <3> QED  BY <3>1, ListOver
  <2>3. ss \in [1..n -> Seq(S)]
    BY <2>2
  <2>4. n \in Nat \ {0}
    BY <1>2
  <2>5. /\ FlattenSeq(ss) \in Seq(S)
        /\ \A x : Has(FlattenSeq(ss), x) <=> \E i \in 1..n : Has(ss[i], x)
    BY <2>3, <2>4, FlattenHas
  <2> QED  BY <2>5 DEF IsList
<1> QED  BY <1>1, <1>2

-----------------------------------------------------------------------------
(* What takes the place of a value *)

\* The list s has tokens, and the values W, d deep, no others.
Replaced(s, W, d) ==
  /\ IsList(s)
  /\ \A y : Has(s, y) => y.k \in Tokens \/ \E p \in W : y = Value(p[1], p[2], d)
  /\ \A p \in W : Has(s, Value(p[1], p[2], d))

\* Two such lists, joined.
LEMMA ReplacedJoined ==
  ASSUME NEW s, NEW u, NEW W, NEW V, NEW d, Replaced(s, W, d), Replaced(u, V, d)
  PROVE  Replaced(s \o u, W \cup V, d)
<1>1. IsList(s) /\ IsList(u)
  BY DEF Replaced
<1>2. PICK t : t = s \o u
  OBVIOUS
<1>3. IsList(t) /\ Both(t, s, u)
  BY <1>1, <1>2, ListJoined
<1>4. ASSUME NEW y, Has(t, y) PROVE y.k \in Tokens \/ \E p \in W \cup V : y = Value(p[1], p[2], d)
  <2>1. Has(s, y) \/ Has(u, y)
    BY <1>3, <1>4 DEF Both
  <2>2. CASE Has(s, y)
    BY <2>2 DEF Replaced
  <2>3. CASE Has(u, y)
    BY <2>3 DEF Replaced
  <2> QED  BY <2>1, <2>2, <2>3
<1>5. ASSUME NEW p \in W \cup V PROVE Has(t, Value(p[1], p[2], d))
  <2>1. Has(s, Value(p[1], p[2], d)) \/ Has(u, Value(p[1], p[2], d))
    BY <1>5 DEF Replaced
  <2> QED  BY <1>3, <2>1 DEF Both
<1> QED  BY <1>2, <1>3, <1>4, <1>5 DEF Replaced

\* Any number of them, one after the other.
LEMMA ReplacedAll ==
  ASSUME NEW n \in Nat, NEW ss, NEW w, NEW d, ss = [i \in 1..n |-> ss[i]],
         \A i \in 1..n : Replaced(ss[i], w[i], d)
  PROVE  Replaced(FlattenSeq(ss), UNION {w[i] : i \in 1..n}, d)
<1>1. \A i \in 1..n : IsList(ss[i])
  BY DEF Replaced
<1>2. PICK t : t = FlattenSeq(ss)
  OBVIOUS
<1>3. IsList(t) /\ \A x : Has(t, x) <=> \E i \in 1..n : Has(ss[i], x)
  BY <1>1, <1>2, FlattenList
<1>4. PICK W : W = UNION {w[i] : i \in 1..n}
  OBVIOUS
<1>5. ASSUME NEW y, Has(t, y) PROVE y.k \in Tokens \/ \E p \in W : y = Value(p[1], p[2], d)
  <2>1. PICK i \in 1..n : Has(ss[i], y)
    BY <1>3, <1>5
  <2>2. y.k \in Tokens \/ \E p \in w[i] : y = Value(p[1], p[2], d)
    BY <2>1 DEF Replaced
  <2>3. w[i] \subseteq W
    BY <1>4
  <2> QED  BY <2>2, <2>3
<1>6. ASSUME NEW p \in W PROVE Has(t, Value(p[1], p[2], d))
  <2>1. PICK i \in 1..n : p \in w[i]
    BY <1>4
  <2>2. Has(ss[i], Value(p[1], p[2], d))
    BY <2>1 DEF Replaced
  <2> QED  BY <1>3, <2>2
<1> QED  BY <1>2, <1>3, <1>4, <1>5, <1>6 DEF Replaced

\* A token, and two.
LEMMA TokenAlone ==
  /\ \A d : Replaced(<< >>, {}, d)
  /\ \A d, a : a.k \in Tokens => Replaced(<<a>>, {}, d)
  /\ \A d, a, b : a.k \in Tokens /\ b.k \in Tokens => Replaced(<<a, b>>, {}, d)
<1>1. \A d : Replaced(<< >>, {}, d)
  BY ListShort DEF Replaced
<1>2. ASSUME NEW d, NEW a, a.k \in Tokens PROVE Replaced(<<a>>, {}, d)
  <2>1. IsList(<<a>>) /\ \A x : Has(<<a>>, x) <=> x = a
    BY ListShort
  <2> QED  BY <1>2, <2>1 DEF Replaced
<1>3. ASSUME NEW d, NEW a, NEW b, a.k \in Tokens, b.k \in Tokens PROVE Replaced(<<a, b>>, {}, d)
  <2>1. IsList(<<a, b>>) /\ \A x : Has(<<a, b>>, x) <=> x = a \/ x = b
    BY ListShort
  <2> QED  BY <1>3, <2>1 DEF Replaced
<1> QED  BY <1>1, <1>2, <1>3

\* A value alone.
LEMMA ValueAlone ==
  ASSUME NEW t, NEW v, NEW d
  PROVE  Replaced(<<Value(t, v, d)>>, {<<t, v>>}, d)
<1>1. IsList(<<Value(t, v, d)>>) /\ \A x : Has(<<Value(t, v, d)>>, x) <=> x = Value(t, v, d)
  BY ListShort
<1>2. <<t, v>>[1] = t /\ <<t, v>>[2] = v
  OBVIOUS
<1> QED  BY <1>1, <1>2 DEF Replaced

\* The tokens there are.
LEMMA TokenKinds ==
  /\ \A m : Marker(m).k \in Tokens
  /\ \A n : F64(n).k \in Tokens /\ U8(n).k \in Tokens /\ U16(n).k \in Tokens /\ U32(n).k \in Tokens
  /\ \A c : Byte(c).k \in Tokens
  BY DEF Marker, F64, U8, U16, U32, Byte, Tokens

\* The bytes of a string are tokens.
LEMMA BytesTokens ==
  ASSUME NEW s, IsList(s), NEW d
  PROVE  Replaced(Bytes(s), {}, d)
<1>1. PICK n \in Nat : n = Len(s) /\ DOMAIN s = 1..n
  BY DEF IsList
<1>2. PICK t : t = Bytes(s)
  OBVIOUS
<1>3. t = [i \in 1..n |-> t[i]] /\ \A i \in 1..n : t[i] = Byte(s[i])
  BY <1>1, <1>2 DEF Bytes
<1>4. IsList(t) /\ \A x : Has(t, x) <=> \E i \in 1..n : x = t[i]
  BY <1>3, ListOf
<1>5. \A x : Has(t, x) => x.k \in Tokens
  BY <1>3, <1>4, TokenKinds
<1> QED  BY <1>2, <1>4, <1>5 DEF Replaced

\* And so are those of a name, and its length.
LEMMA NameTokens ==
  ASSUME NEW s, IsList(s), NEW d
  PROVE  Replaced(encodeObjectName(s), {}, d)
<1>1. PICK a : a = U16(Len(s) % (LongStringSize + 1))
  OBVIOUS
<1>2. Replaced(<<a>>, {}, d)
  BY <1>1, TokenAlone, TokenKinds
<1>3. Replaced(Bytes(s), {}, d)
  BY BytesTokens
<1>4. Replaced(<<a>> \o Bytes(s), {} \cup {}, d)
  BY <1>2, <1>3, ReplacedJoined
<1>5. {} \cup {} = {} /\ encodeObjectName(s) = <<a>> \o Bytes(s)
  BY <1>1 DEF encodeObjectName
<1> QED  BY <1>4, <1>5

\* What a string is encoded as.
LEMMA StringTokens ==
  ASSUME NEW s, IsList(s), NEW d
  PROVE  Replaced(encodeString(s), {}, d)
<1>1. PICK a : a = IF Len(s) > LongStringSize THEN <<Marker("LongString"), U32(Len(s))>>
                   ELSE <<Marker("String"), U16(Len(s))>>
  OBVIOUS
<1>2. Replaced(a, {}, d)
  <2>1. Replaced(<<Marker("LongString"), U32(Len(s))>>, {}, d) /\ Replaced(<<Marker("String"), U16(Len(s))>>, {}, d)
    BY TokenAlone, TokenKinds
  <2> QED  BY <1>1, <2>1
<1>3. Replaced(Bytes(s), {}, d)
  BY BytesTokens
<1>4. Replaced(a \o Bytes(s), {} \cup {}, d)
  BY <1>2, <1>3, ReplacedJoined
<1>5. {} \cup {} = {} /\ encodeString(s) = a \o Bytes(s)
  BY <1>1 DEF encodeString
<1> QED  BY <1>4, <1>5

\* The end of an object.
LEMMA EndTokens ==
  ASSUME NEW d
  PROVE  Replaced(ObjectEnd, {}, d)
<1>1. Replaced(encodeObjectName(<< >>), {}, d)
  BY NameTokens, ListShort
<1>2. Replaced(<<Marker("ObjectEnd")>>, {}, d)
  BY TokenAlone, TokenKinds
<1>3. Replaced(encodeObjectName(<< >>) \o <<Marker("ObjectEnd")>>, {} \cup {}, d)
  BY <1>1, <1>2, ReplacedJoined
<1>4. {} \cup {} = {}
  OBVIOUS
<1> QED  BY <1>3, <1>4 DEF ObjectEnd

\* A member of an object: a name, and its value.
LEMMA MemberReplaced ==
  ASSUME NEW s, IsList(s), NEW t, NEW v, NEW d
  PROVE  Replaced(encodeObjectName(s) \o <<Value(t, v, d)>>, {<<t, v>>}, d)
<1>1. Replaced(encodeObjectName(s) \o <<Value(t, v, d)>>, {} \cup {<<t, v>>}, d)
  BY NameTokens, ValueAlone, ReplacedJoined
<1>2. {} \cup {<<t, v>>} = {<<t, v>>}
  OBVIOUS
<1> QED  BY <1>1, <1>2

\* An object: its members, between a marker and the end.
LEMMA ObjectReplaced ==
  ASSUME NEW n \in Nat, NEW ss, NEW w, NEW d, ss = [i \in 1..n |-> ss[i]],
         \A i \in 1..n : Replaced(ss[i], w[i], d)
  PROVE  Replaced(<<Marker("Object")>> \o FlattenSeq(ss) \o ObjectEnd, UNION {w[i] : i \in 1..n}, d)
<1>1. PICK W : W = UNION {w[i] : i \in 1..n}
  OBVIOUS
<1>2. Replaced(FlattenSeq(ss), W, d)
  BY <1>1, ReplacedAll
<1>3. Replaced(<<Marker("Object")>>, {}, d)
  BY TokenAlone, TokenKinds
<1>4. Replaced(<<Marker("Object")>> \o FlattenSeq(ss), {} \cup W, d)
  BY <1>2, <1>3, ReplacedJoined
<1>5. Replaced((<<Marker("Object")>> \o FlattenSeq(ss)) \o ObjectEnd, ({} \cup W) \cup {}, d)
  BY <1>4, EndTokens, ReplacedJoined
<1>6. ({} \cup W) \cup {} = W
  OBVIOUS
<1> QED  BY <1>1, <1>5, <1>6

-----------------------------------------------------------------------------
(* Objects and arrays *)

\* The members of a struct that are written.
StructMember(t, v, d, i) ==
  IF v.f[i] = Absent \/ (t.fields[i].omitEmpty /\ isEmptyValue(v.f[i])) THEN << >>
  ELSE encodeObjectName(t.fields[i].name) \o <<Value(t.fields[i].typ, v.f[i], d)>>
\* And the part of the struct they are.
StructPart(t, v, i) ==
  IF v.f[i] = Absent \/ (t.fields[i].omitEmpty /\ isEmptyValue(v.f[i])) THEN {}
  ELSE {<<t.fields[i].typ, v.f[i]>>}

\* A member is one or none (encode.go:384-411).
LEMMA StructMemberReplaced ==
  ASSUME NEW t, NEW v, NEW d, NEW i, IsList(t.fields[i].name)
  PROVE  Replaced(StructMember(t, v, d, i), StructPart(t, v, i), d)
<1>1. CASE v.f[i] = Absent \/ (t.fields[i].omitEmpty /\ isEmptyValue(v.f[i]))
  <2>1. StructMember(t, v, d, i) = << >> /\ StructPart(t, v, i) = {}
    BY <1>1, Zenon DEF StructMember, StructPart
  <2> QED  BY <2>1, TokenAlone
<1>2. CASE ~(v.f[i] = Absent \/ (t.fields[i].omitEmpty /\ isEmptyValue(v.f[i])))
  <2>1. /\ StructMember(t, v, d, i) = encodeObjectName(t.fields[i].name) \o <<Value(t.fields[i].typ, v.f[i], d)>>
        /\ StructPart(t, v, i) = {<<t.fields[i].typ, v.f[i]>>}
    BY <1>2, Zenon DEF StructMember, StructPart
  <2> QED  BY <2>1, MemberReplaced
<1> QED  BY <1>1, <1>2

\* All of them, in an object.
LEMMA StructReplaced ==
  ASSUME NEW t, NEW v, NEW d, IsList(t.fields), \A i \in DOMAIN t.fields : IsList(t.fields[i].name)
  PROVE  Replaced(structEncoder(t, v, d), UNION {StructPart(t, v, i) : i \in DOMAIN t.fields}, d)
<1>1. PICK n \in Nat : n = Len(t.fields) /\ DOMAIN t.fields = 1..n
  BY DEF IsList
<1>2. PICK ss : ss = [i \in 1..n |-> StructMember(t, v, d, i)]
  OBVIOUS
<1>3. PICK w : w = [i \in 1..n |-> StructPart(t, v, i)]
  OBVIOUS
<1>4. ASSUME NEW i \in 1..n PROVE Replaced(ss[i], w[i], d)
  <2>1. IsList(t.fields[i].name)
    BY <1>1
  <2>2. Replaced(StructMember(t, v, d, i), StructPart(t, v, i), d)
    BY <2>1, StructMemberReplaced
  <2> QED  BY <1>2, <1>3, <2>2
<1>5. ss = [i \in 1..n |-> ss[i]]
  BY <1>2
<1>6. Replaced(<<Marker("Object")>> \o FlattenSeq(ss) \o ObjectEnd, UNION {w[i] : i \in 1..n}, d)
  BY <1>4, <1>5, ObjectReplaced
<1>7. structEncoder(t, v, d) = <<Marker("Object")>> \o FlattenSeq(ss) \o ObjectEnd
  BY <1>1, <1>2, Zenon DEF structEncoder, StructMember
<1>8. UNION {w[i] : i \in 1..n} = UNION {StructPart(t, v, i) : i \in DOMAIN t.fields}
  BY <1>1, <1>3
<1> QED  BY <1>6, <1>7, <1>8

\* The entry of a map for a key.
MapMember(t, v, d, s) ==
  IF s \notin DOMAIN v.m THEN << >> ELSE encodeObjectName(s) \o <<Value(t.elem, v.m[s], d)>>
\* And the part of the map it is.
MapPart(t, v, s) == IF s \notin DOMAIN v.m THEN {} ELSE {<<t.elem, v.m[s]>>}

\* Names are lists, and so are all of them.
LEMMA NamesLists == IsList(Names) /\ \A i \in DOMAIN Names : IsList(Names[i])
<1>1. Names \in Seq(Seq(STRING))
  BY MarshalAssumption
<1>2. IsList(Names)
  BY <1>1 DEF IsList
<1>3. ASSUME NEW i \in DOMAIN Names PROVE IsList(Names[i])
  <2>1. Names[i] \in Seq(STRING)
    BY <1>1
  <2> QED  BY <2>1 DEF IsList
<1> QED  BY <1>2, <1>3

\* A map is an object (encode.go:422-445).
LEMMA MapReplaced ==
  ASSUME NEW t, NEW v, NEW d, v # Nil
  PROVE  Replaced(mapEncoder(t, v, d), UNION {MapPart(t, v, Names[i]) : i \in DOMAIN Names}, d)
<1>1. PICK n \in Nat : n = Len(Names) /\ DOMAIN Names = 1..n
  BY NamesLists DEF IsList
<1>2. PICK ss : ss = [i \in 1..n |-> MapMember(t, v, d, Names[i])]
  OBVIOUS
<1>3. PICK w : w = [i \in 1..n |-> MapPart(t, v, Names[i])]
  OBVIOUS
<1>4. ASSUME NEW i \in 1..n PROVE Replaced(ss[i], w[i], d)
  <2>1. PICK s : s = Names[i]
    OBVIOUS
  <2>2. IsList(s)
    BY <1>1, <2>1, NamesLists
  <2>3. Replaced(MapMember(t, v, d, s), MapPart(t, v, s), d)
    <3>1. CASE s \notin DOMAIN v.m
      <4>1. MapMember(t, v, d, s) = << >> /\ MapPart(t, v, s) = {}
        BY <3>1, Zenon DEF MapMember, MapPart
      <4> QED  BY <4>1, TokenAlone
    <3>2. CASE s \in DOMAIN v.m
      <4>1. /\ MapMember(t, v, d, s) = encodeObjectName(s) \o <<Value(t.elem, v.m[s], d)>>
            /\ MapPart(t, v, s) = {<<t.elem, v.m[s]>>}
        BY <3>2, Zenon DEF MapMember, MapPart
      <4> QED  BY <4>1, <2>2, MemberReplaced
    <3> QED  BY <3>1, <3>2
  <2> QED  BY <1>2, <1>3, <2>1, <2>3
<1>5. ss = [i \in 1..n |-> ss[i]]
  BY <1>2
<1>6. Replaced(<<Marker("Object")>> \o FlattenSeq(ss) \o ObjectEnd, UNION {w[i] : i \in 1..n}, d)
  BY <1>4, <1>5, ObjectReplaced
<1>7. mapEncoder(t, v, d) = <<Marker("Object")>> \o FlattenSeq(ss) \o ObjectEnd
  BY <1>1, <1>2, Zenon DEF mapEncoder, MapMember
<1>8. UNION {w[i] : i \in 1..n} = UNION {MapPart(t, v, Names[i]) : i \in DOMAIN Names}
  BY <1>1, <1>3
<1> QED  BY <1>6, <1>7, <1>8

\* A slice that is not nil: its elements, or undefined (encode.go:463-495).
LEMMA SliceReplaced ==
  ASSUME NEW t, NEW v, NEW d, v # Nil, t.k # "array", IsList(v.e)
  PROVE  Replaced(sliceEncoder(t, v, d), {<<t.elem, v.e[i]>> : i \in DOMAIN v.e}, d)
<1>1. PICK n \in Nat : n = Len(v.e) /\ DOMAIN v.e = 1..n /\ (n = 0 => v.e = << >>) /\ (v.e = << >> => n = 0)
  BY DEF IsList
<1>2. PICK W : W = {<<t.elem, v.e[i]>> : i \in 1..n}
  OBVIOUS
<1>3. CASE v.e = << >>
  <2>1. sliceEncoder(t, v, d) = <<Marker("Undefined")>>
    BY <1>3, Zenon DEF sliceEncoder, arrayEncoder
  <2>2. W = {}
    BY <1>1, <1>2, <1>3
  <2>3. Replaced(<<Marker("Undefined")>>, {}, d)
    BY TokenAlone, TokenKinds
  <2> QED  BY <1>1, <1>2, <2>1, <2>2, <2>3
<1>4. CASE v.e # << >>
  <2>1. PICK s : s = [i \in 1..n |-> Value(t.elem, v.e[i], d)]
    OBVIOUS
  <2>2. PICK a : a = <<Marker("StrictArray"), U32(Len(v.e))>>
    OBVIOUS
  <2>3. sliceEncoder(t, v, d) = a \o s
    BY <1>1, <1>4, <2>1, <2>2, Zenon DEF sliceEncoder, arrayEncoder
  <2>4. Replaced(a, {}, d)
    BY <2>2, TokenAlone, TokenKinds
  <2>5. Replaced(s, W, d)
    <3>1. s = [i \in 1..n |-> s[i]]
      BY <2>1
    <3>2. IsList(s) /\ \A x : Has(s, x) <=> \E i \in 1..n : x = s[i]
      BY <3>1, ListOf
    <3>3. \A i \in 1..n : s[i] = Value(t.elem, v.e[i], d)
      BY <2>1
    <3>4. ASSUME NEW y, Has(s, y) PROVE \E p \in W : y = Value(p[1], p[2], d)
      <4>1. PICK i \in 1..n : y = s[i]
        BY <3>2, <3>4
      <4>2. PICK p : p = <<t.elem, v.e[i]>>
        OBVIOUS
      <4>3. p \in W /\ p[1] = t.elem /\ p[2] = v.e[i]
        BY <1>2, <4>2
      <4> QED  BY <3>3, <4>1, <4>3
    <3>5. ASSUME NEW p \in W PROVE Has(s, Value(p[1], p[2], d))
      <4>1. PICK i \in 1..n : p = <<t.elem, v.e[i]>>
        BY <1>2
      <4>2. p[1] = t.elem /\ p[2] = v.e[i]
        BY <4>1
      <4> QED  BY <3>2, <3>3, <4>2
    <3> QED  BY <3>2, <3>4, <3>5 DEF Replaced
  <2>6. Replaced(a \o s, {} \cup W, d)
    BY <2>4, <2>5, ReplacedJoined
  <2>7. {} \cup W = W
    OBVIOUS
  <2> QED  BY <1>1, <1>2, <2>3, <2>6, <2>7
<1> QED  BY <1>3, <1>4

-----------------------------------------------------------------------------
(* The encoders *)

\* The parts of a value, by its kind.
LEMMA PartsByKind ==
  ASSUME NEW t, NEW v
  PROVE  LET W == PartsOf(<<t, v>>)
         IN  /\ v = Nil => W = {}
             /\ v # Nil /\ v = Loop => W = {<<t, v>>}
             /\ v # Nil /\ v # Loop =>
                  /\ t.k = "any" => W = {<<v.t, v.v>>}
                  /\ t.k = "ptr" => W = {<<t.elem, v.to>>}
                  /\ t.k = "slice" => W = {<<t.elem, v.e[i]>> : i \in DOMAIN v.e}
                  /\ t.k = "map" => W = {<<t.elem, v.m[s]>> : s \in DOMAIN v.m}
                  /\ t.k \notin {"any", "ptr", "slice", "map", "struct"} => W = {}
<1>1. PICK x : x = <<t, v>>
  OBVIOUS
<1>2. x[1] = t /\ x[2] = v
  BY <1>1
<1>3. CASE v = Nil
  <2>1. PartsOf(x) = {}
    BY <1>2, <1>3, Zenon DEF PartsOf
  <2> QED  BY <1>1, <1>3, <2>1
<1>4. CASE v # Nil /\ v = Loop
  <2>1. PartsOf(x) = {x}
    BY <1>2, <1>4, Zenon DEF PartsOf
  <2> QED  BY <1>1, <1>4, <2>1
<1>5. CASE v # Nil /\ v # Loop
  <2>1. ASSUME t.k = "any" PROVE PartsOf(x) = {<<v.t, v.v>>}
    BY <1>2, <1>5, <2>1 DEF PartsOf
  <2>2. ASSUME t.k = "ptr" PROVE PartsOf(x) = {<<t.elem, v.to>>}
    BY <1>2, <1>5, <2>2 DEF PartsOf
  <2>3. ASSUME t.k = "slice" PROVE PartsOf(x) = {<<t.elem, v.e[i]>> : i \in DOMAIN v.e}
    BY <1>2, <1>5, <2>3 DEF PartsOf
  <2>4. ASSUME t.k = "map" PROVE PartsOf(x) = {<<t.elem, v.m[s]>> : s \in DOMAIN v.m}
    BY <1>2, <1>5, <2>4 DEF PartsOf
  <2>5. ASSUME t.k \notin {"any", "ptr", "slice", "map", "struct"} PROVE PartsOf(x) = {}
    BY <1>2, <1>5, <2>5 DEF PartsOf
  <2> QED  BY <1>1, <1>5, <2>1, <2>2, <2>3, <2>4, <2>5
<1> QED  BY <1>3, <1>4, <1>5

\* Those of a struct are those of its fields that are written.
LEMMA PartsOfStruct ==
  ASSUME NEW t, NEW v, v # Nil, v # Loop, t.k = "struct"
  PROVE  PartsOf(<<t, v>>) = UNION {StructPart(t, v, i) : i \in DOMAIN t.fields}
<1>1. PICK x : x = <<t, v>>
  OBVIOUS
<1>2. x[1] = t /\ x[2] = v
  BY <1>1
<1> DEFINE Kept == {i \in DOMAIN t.fields : v.f[i] # Absent /\ ~(t.fields[i].omitEmpty /\ isEmptyValue(v.f[i]))}
<1>3. PartsOf(x) = {<<t.fields[i].typ, v.f[i]>> : i \in Kept}
  BY <1>2 DEF PartsOf
<1>4. \A i \in DOMAIN t.fields : StructPart(t, v, i) = IF i \in Kept THEN {<<t.fields[i].typ, v.f[i]>>} ELSE {}
  BY DEF StructPart
<1>5. Kept \subseteq DOMAIN t.fields
  OBVIOUS
<1> HIDE DEF Kept
<1>6. ASSUME NEW z, z \in PartsOf(x) PROVE z \in UNION {StructPart(t, v, i) : i \in DOMAIN t.fields}
  <2>1. PICK i \in Kept : z = <<t.fields[i].typ, v.f[i]>>
    BY <1>3, <1>6
  <2>2. i \in DOMAIN t.fields /\ z \in StructPart(t, v, i)
    BY <1>4, <1>5, <2>1
  <2> QED  BY <2>2
<1>7. ASSUME NEW i \in DOMAIN t.fields, NEW z \in StructPart(t, v, i) PROVE z \in PartsOf(x)
  <2>1. i \in Kept /\ z = <<t.fields[i].typ, v.f[i]>>
    BY <1>4, <1>7
  <2> QED  BY <1>3, <2>1
<1>8. ASSUME NEW z, z \in UNION {StructPart(t, v, i) : i \in DOMAIN t.fields} PROVE z \in PartsOf(x)
  <2>1. PICK i \in DOMAIN t.fields : z \in StructPart(t, v, i)
    BY <1>8
  <2> QED  BY <1>7, <2>1
<1> QED  BY <1>1, <1>6, <1>8

\* And those of a map, for keys that all are names.
LEMMA PartsOfMap ==
  ASSUME NEW t, NEW v, DOMAIN v.m \subseteq Range(Names)
  PROVE  {<<t.elem, v.m[s]>> : s \in DOMAIN v.m} = UNION {MapPart(t, v, Names[i]) : i \in DOMAIN Names}
<1>1. PICK D : D = DOMAIN v.m
  OBVIOUS
<1>2. \A s : MapPart(t, v, s) = IF s \in D THEN {<<t.elem, v.m[s]>>} ELSE {}
  BY <1>1 DEF MapPart
<1>3. ASSUME NEW s \in D PROVE \E i \in DOMAIN Names : Names[i] = s
  BY <1>1, <1>3 DEF Range
<1>4. ASSUME NEW z, z \in {<<t.elem, v.m[s]>> : s \in D} PROVE z \in UNION {MapPart(t, v, Names[i]) : i \in DOMAIN Names}
  <2>1. PICK s \in D : z = <<t.elem, v.m[s]>>
    BY <1>4
  <2>2. PICK i \in DOMAIN Names : Names[i] = s
    BY <1>3
  <2>3. z \in MapPart(t, v, Names[i])
    BY <1>2, <2>1, <2>2
  <2> QED  BY <2>3
<1>5. ASSUME NEW z, z \in UNION {MapPart(t, v, Names[i]) : i \in DOMAIN Names} PROVE z \in {<<t.elem, v.m[s]>> : s \in D}
  <2>1. PICK i \in DOMAIN Names : z \in MapPart(t, v, Names[i])
    BY <1>5
  <2>2. Names[i] \in D /\ z = <<t.elem, v.m[Names[i]]>>
    BY <1>2, <2>1
  <2> QED  BY <2>2
<1> QED  BY <1>1, <1>4, <1>5

\* What a value has to be, to be of its type.
LEMMA TypeFacts ==
  ASSUME NEW t, NEW v, OfType(<<t, v>>)
  PROVE  /\ t.k \in {"bool", "int", "uint", "float", "string", "any", "custom", "chan", "ptr", "slice", "array",
                     "map", "struct", "endless"}
         /\ (v = Loop => t.k = "endless") /\ (t.k = "endless" => v \in {Nil, Loop})
         /\ t.k = "string" => IsList(v.s)
         /\ t.k = "slice" /\ v # Nil => IsList(v.e)
         /\ t.k = "map" /\ v # Nil => DOMAIN v.m \subseteq Range(Names)
         /\ t.k = "struct" => v # Nil /\ IsList(t.fields) /\ \A i \in DOMAIN t.fields : IsList(t.fields[i].name)
<1>1. PICK x : x = <<t, v>>
  OBVIOUS
<1>2. x[1] = t /\ x[2] = v /\ OfType(x)
  BY <1>1
<1>3. \A s : s \in Seq(Range(s)) => IsList(s)
  BY DEF IsList
<1> QED  BY <1>2, <1>3, Zenon DEF OfType

\* What refuses is not any other.
LEMMA RefusesFacts ==
  ASSUME NEW t, NEW v
  PROVE  Refuses(<<t, v>>) <=> t.k \in {"chan", "array"} \/ (t.k = "custom" /\ v = Fails)
  BY DEF Refuses

\* An encoder that can encode its value puts the parts of it in its place.
LEMMA EncoderReplaces ==
  ASSUME NEW t, NEW v, NEW d, OfType(<<t, v>>), ~Refuses(<<t, v>>)
  PROVE  Replaced(newTypeEncoder(t, v, d), PartsOf(<<t, v>>), d)
<1>1. t.k \notin {"chan", "array"} /\ ~(t.k = "custom" /\ v = Fails)
  BY RefusesFacts
<1>2. PICK W : W = PartsOf(<<t, v>>)
  OBVIOUS
<1>3. Replaced(encodeNull, {}, d)
  BY TokenAlone, TokenKinds DEF encodeNull
<1>4. CASE t.k = "custom"
  <2>1. newTypeEncoder(t, v, d) = IF v = Nil THEN Bytes(<<"n", "u", "l", "l">>) ELSE << >>
    <3>1. newTypeEncoder(t, v, d) = marshalerEncoder(v)
      BY <1>4, Zenon DEF newTypeEncoder
    <3> QED  BY <1>1, <1>4, <3>1 DEF marshalerEncoder
  <2>2. W = {}
    BY <1>2, <1>4, PartsByKind, TypeFacts
  <2>3. IsList(<<"n", "u", "l", "l">>)
    <3>1. <<"n", "u", "l", "l">> \in Seq({"n", "u", "l"})
      OBVIOUS
    <3> QED  BY <3>1 DEF IsList
  <2>4. Replaced(Bytes(<<"n", "u", "l", "l">>), {}, d)
    BY <2>3, BytesTokens
  <2> QED  BY <1>2, <2>1, <2>2, <2>4, TokenAlone
<1>5. CASE t.k = "string"
  <2>1. newTypeEncoder(t, v, d) = encodeString(v.s)
    BY <1>5 DEF newTypeEncoder
  <2>2. W = {}
    BY <1>2, <1>5, PartsByKind, TypeFacts
  <2>3. IsList(v.s)
    BY <1>5, TypeFacts
  <2> QED  BY <1>2, <2>1, <2>2, <2>3, StringTokens
<1>6. CASE t.k = "bool"
  <2>1. PICK b : newTypeEncoder(t, v, d) = <<Marker("Boolean"), U8(b)>>
    BY <1>6 DEF newTypeEncoder, boolEncoder
  <2>2. W = {}
    BY <1>2, <1>6, PartsByKind, TypeFacts
  <2> QED  BY <1>2, <2>1, <2>2, TokenAlone, TokenKinds
<1>7. CASE t.k \in {"int", "uint", "float"}
  <2>1. PICK n : newTypeEncoder(t, v, d) = <<Marker("Number"), F64(n)>>
    <3>1. CASE t.k \in {"int", "uint"}
      BY <3>1 DEF newTypeEncoder, intEncoder
    <3>2. CASE t.k = "float"
      BY <3>2 DEF newTypeEncoder, floatEncoder
    <3> QED  BY <1>7, <3>1, <3>2
  <2>2. W = {}
    BY <1>2, <1>7, PartsByKind, TypeFacts
  <2> QED  BY <1>2, <2>1, <2>2, TokenAlone, TokenKinds
<1>8. CASE t.k = "any"
  <2>0. newTypeEncoder(t, v, d) = interfaceEncoder(v, d)
    BY <1>8 DEF newTypeEncoder
  <2>1. CASE v = Nil
    <3>1. newTypeEncoder(t, v, d) = encodeNull /\ W = {}
      BY <1>2, <2>0, <2>1, PartsByKind DEF interfaceEncoder
    <3> QED  BY <1>2, <1>3, <3>1
  <2>2. CASE v # Nil
    <3>1. newTypeEncoder(t, v, d) = <<Value(v.t, v.v, d)>>
      BY <2>0, <2>2 DEF interfaceEncoder
    <3>2. W = {<<v.t, v.v>>}
      BY <1>2, <1>8, <2>2, PartsByKind, TypeFacts
    <3> QED  BY <1>2, <3>1, <3>2, ValueAlone
  <2> QED  BY <2>1, <2>2
<1>9. CASE t.k = "struct"
  <2>1. v # Nil /\ v # Loop /\ IsList(t.fields) /\ \A i \in DOMAIN t.fields : IsList(t.fields[i].name)
    BY <1>9, TypeFacts
  <2>2. newTypeEncoder(t, v, d) = structEncoder(t, v, d)
    BY <1>9 DEF newTypeEncoder
  <2>3. W = UNION {StructPart(t, v, i) : i \in DOMAIN t.fields}
    BY <1>2, <1>9, <2>1, PartsOfStruct
  <2> QED  BY <1>2, <2>1, <2>2, <2>3, StructReplaced
<1>10. CASE t.k = "map"
  <2>0. newTypeEncoder(t, v, d) = mapEncoder(t, v, d)
    BY <1>10 DEF newTypeEncoder
  <2>1. CASE v = Nil
    <3>1. newTypeEncoder(t, v, d) = encodeNull /\ W = {}
      BY <1>2, <2>0, <2>1, PartsByKind DEF mapEncoder
    <3> QED  BY <1>2, <1>3, <3>1
  <2>2. CASE v # Nil
    <3>1. v # Loop /\ DOMAIN v.m \subseteq Range(Names)
      BY <1>10, <2>2, TypeFacts
    <3>2. W = {<<t.elem, v.m[s]>> : s \in DOMAIN v.m}
      BY <1>2, <1>10, <2>2, <3>1, PartsByKind
    <3>3. W = UNION {MapPart(t, v, Names[i]) : i \in DOMAIN Names}
      BY <3>1, <3>2, PartsOfMap
    <3>4. Replaced(mapEncoder(t, v, d), W, d)
      BY <2>2, <3>3, MapReplaced
    <3> QED  BY <1>2, <2>0, <3>4
  <2> QED  BY <2>1, <2>2
<1>11. CASE t.k = "slice"
  <2>0. newTypeEncoder(t, v, d) = sliceEncoder(t, v, d)
    BY <1>11 DEF newTypeEncoder
  <2>1. CASE v = Nil
    <3>1. newTypeEncoder(t, v, d) = encodeNull /\ W = {}
      BY <1>2, <2>0, <2>1, PartsByKind DEF sliceEncoder
    <3> QED  BY <1>2, <1>3, <3>1
  <2>2. CASE v # Nil
    <3>1. v # Loop /\ IsList(v.e) /\ t.k # "array"
      BY <1>11, <2>2, TypeFacts
    <3>2. W = {<<t.elem, v.e[i]>> : i \in DOMAIN v.e}
      BY <1>2, <1>11, <2>2, <3>1, PartsByKind
    <3>3. Replaced(sliceEncoder(t, v, d), W, d)
      BY <2>2, <3>1, <3>2, SliceReplaced
    <3> QED  BY <1>2, <2>0, <3>3
  <2> QED  BY <2>1, <2>2
<1>12. CASE t.k \in {"ptr", "endless"}
  <2>0. newTypeEncoder(t, v, d) = ptrEncoder(t, v, d)
    BY <1>12 DEF newTypeEncoder
  <2>1. CASE v = Nil
    <3>1. newTypeEncoder(t, v, d) = encodeNull /\ W = {}
      BY <1>2, <2>0, <2>1, PartsByKind DEF ptrEncoder
    <3> QED  BY <1>2, <1>3, <3>1
  <2>2. CASE v # Nil /\ v = Loop
    <3>1. newTypeEncoder(t, v, d) = <<Value(t, v, d)>>
      BY <2>0, <2>2 DEF ptrEncoder
    <3>2. W = {<<t, v>>}
      BY <1>2, <2>2, PartsByKind
    <3> QED  BY <1>2, <3>1, <3>2, ValueAlone
  <2>3. CASE v # Nil /\ v # Loop
    <3>1. newTypeEncoder(t, v, d) = <<Value(t.elem, v.to, d)>>
      BY <2>0, <2>3 DEF ptrEncoder
    <3>2. t.k = "ptr"
      BY <1>12, <2>3, TypeFacts
    <3>3. W = {<<t.elem, v.to>>}
      BY <1>2, <2>3, <3>2, PartsByKind
    <3> QED  BY <1>2, <3>1, <3>3, ValueAlone
  <2> QED  BY <2>1, <2>2, <2>3
<1>13. t.k \in {"bool", "int", "uint", "float", "string", "any", "custom", "ptr", "slice", "map", "struct", "endless"}
  BY <1>1, TypeFacts
<1> QED  BY <1>4, <1>5, <1>6, <1>7, <1>8, <1>9, <1>10, <1>11, <1>12, <1>13

\* One that cannot panics, and then the value has no parts.
LEMMA EncoderRefuses ==
  ASSUME NEW t, NEW v, NEW d, OfType(<<t, v>>), Refuses(<<t, v>>)
  PROVE  newTypeEncoder(t, v, d) = <<Panic>> /\ PartsOf(<<t, v>>) = {}
<1>1. t.k \in {"chan", "array"} \/ (t.k = "custom" /\ v = Fails)
  BY RefusesFacts
<1>2. PartsOf(<<t, v>>) = {}
  BY <1>1, PartsByKind, TypeFacts
<1>3. CASE t.k = "chan"
  <2>1. newTypeEncoder(t, v, d) = unsupportedTypeEncoder
    BY <1>3 DEF newTypeEncoder
  <2> QED  BY <1>2, <2>1 DEF unsupportedTypeEncoder
<1>4. CASE t.k = "array"
  <2>1. newTypeEncoder(t, v, d) = arrayEncoder(t, v, d)
    BY <1>4 DEF newTypeEncoder
  <2> QED  BY <1>2, <1>4, <2>1 DEF arrayEncoder
<1>5. CASE t.k = "custom" /\ v = Fails
  <2>1. newTypeEncoder(t, v, d) = marshalerEncoder(v)
    BY <1>5 DEF newTypeEncoder
  <2>2. Fails # Nil
    BY DEF Fails, Nil
  <2> QED  BY <1>2, <1>5, <2>1, <2>2 DEF marshalerEncoder
<1> QED  BY <1>1, <1>3, <1>4, <1>5

-----------------------------------------------------------------------------
(* The encoding *)

\* What is in a list that is not empty: its head, and what is in the rest.
LEMMA HeadAndRest ==
  ASSUME NEW s, IsList(s), s # << >>
  PROVE  IsList(Tail(s)) /\ \A x : Has(s, x) <=> x = Head(s) \/ Has(Tail(s), x)
<1>1. PICK S : s \in Seq(S)
  BY DEF IsList
<1>2. PICK n \in Nat : Len(s) = n /\ n # 0
  BY <1>1
<1>3. PICK u : u = Tail(s)
  OBVIOUS
<1>4. u \in Seq(S) /\ Len(u) = n - 1 /\ (\A i \in 1..(n - 1) : u[i] = s[i + 1]) /\ Head(s) = s[1]
  BY <1>1, <1>2, <1>3
<1>5. ASSUME NEW x, Has(s, x) PROVE x = Head(s) \/ Has(u, x)
  <2>1. PICK k \in 1..n : s[k] = x
    BY <1>2, <1>5 DEF Has
  <2>2. CASE k = 1
    BY <1>4, <2>1, <2>2
  <2>3. CASE k # 1
    <3>1. PICK i \in 1..(n - 1) : k = i + 1
      <4>1. k - 1 \in 1..(n - 1) /\ k = (k - 1) + 1
        BY <1>2, <2>3
      <4> QED  BY <4>1
    <3>2. u[i] = x
      BY <1>4, <2>1, <3>1
    <3> QED  BY <1>4, <3>2 DEF Has
  <2> QED  BY <2>2, <2>3
<1>6. ASSUME NEW x, Has(u, x) PROVE Has(s, x)
  <2>1. PICK i \in 1..(n - 1) : u[i] = x
    BY <1>4, <1>6 DEF Has
  <2>2. i + 1 \in 1..n /\ s[i + 1] = x
    BY <1>2, <1>4, <2>1
  <2> QED  BY <1>2, <2>2 DEF Has
<1>7. Has(s, Head(s))
  <2>1. 1 \in 1..n
    BY <1>2
  <2> QED  BY <1>2, <1>4, <2>1 DEF Has
<1> QED  BY <1>1, <1>3, <1>4, <1>5, <1>6, <1>7 DEF IsList

-----------------------------------------------------------------------------
\* Something in the list is refused, or in what it stands for.
RefusedIn(s) ==
  \/ Has(s, Panic)
  \/ \E t, v, d : Has(s, Value(t, v, d)) /\ RefusedFrom(<<t, v>>, d)

\* The values in the list are parts of in.
PartsOnly(s, in) ==
  \A y : Has(s, y) =>
    \/ y.k \in Tokens
    \/ y = Panic
    \/ \E n \in 0..StackLimit : \E p \in PartsIn(in, n) : y = Value(p[1], p[2], n + 1)

\* What is left of a goroutine's value is of its parts, and of those what
\* is refused is yet to come.
Accounted(p, in, s, r) ==
  /\ p = "encode" => in \in Inputs /\ IsList(s) /\ PartsOnly(s, in) /\ (Refused(in) <=> RefusedIn(s))
  /\ r.of = "copy" => ~Refused(in)
  /\ r = Error => Refused(in)

(***************************************************************************)
(* The invariant of the encoding, for every goroutine.                     *)
(***************************************************************************)
EncodeInv ==
  /\ pc = [g \in Goroutines |-> pc[g]] /\ input = [g \in Goroutines |-> input[g]]
  /\ todo = [g \in Goroutines |-> todo[g]] /\ result = [g \in Goroutines |-> result[g]]
  /\ \A g \in Goroutines : Accounted(pc[g], input[g], todo[g], result[g])

\* Tokens, values and panics are told apart, and values by what they are.
LEMMA ItemsApart ==
  /\ Panic.k \notin Tokens
  /\ \A t, v, d : Value(t, v, d) # Panic /\ Value(t, v, d).k = "value" /\ Value(t, v, d).k \notin Tokens
  /\ \A t, v, d, u, w, e : Value(t, v, d) = Value(u, w, e) => t = u /\ v = w /\ d = e
<1>1. Panic.k = "panic" /\ \A t, v, d : Value(t, v, d).k = "value"
  BY DEF Panic, Value
<1>2. \A t, v, d : Value(t, v, d).t = t /\ Value(t, v, d).v = v /\ Value(t, v, d).d = d
  BY DEF Value
<1>3. "panic" \notin Tokens /\ "value" \notin Tokens /\ "panic" # "value"
  BY DEF Tokens
<1> QED  BY <1>1, <1>2, <1>3

\* In a list put together of two, what is in either.
LEMMA RefusedInBoth ==
  ASSUME NEW s, NEW a, NEW b, Both(s, a, b)
  PROVE  /\ RefusedIn(s) <=> RefusedIn(a) \/ RefusedIn(b)
         /\ \A in : PartsOnly(a, in) /\ PartsOnly(b, in) => PartsOnly(s, in)
<1>1. \A x : Has(s, x) <=> Has(a, x) \/ Has(b, x)
  BY DEF Both
<1>2. RefusedIn(s) <=> RefusedIn(a) \/ RefusedIn(b)
  BY <1>1 DEF RefusedIn
<1>3. \A in : PartsOnly(a, in) /\ PartsOnly(b, in) => PartsOnly(s, in)
  BY <1>1, Zenon DEF PartsOnly
<1> QED  BY <1>2, <1>3

\* The parts of an input are of their types.
LEMMA PartsTyped ==
  ASSUME NEW in \in Inputs, NEW n \in 0..StackLimit, NEW x \in PartsIn(in, n)
  PROVE  OfType(x) /\ x = <<x[1], x[2]>>
<1>1. OfType(x)
  BY InputsAssumption
<1>2. x = <<x[1], x[2]>>
  BY <1>1, Zenon DEF OfType
<1> QED  BY <1>1, <1>2

\* And the parts of one are parts of it too, one deeper.
LEMMA PartsDeeper ==
  ASSUME NEW in, NEW n \in Nat, NEW x \in PartsIn(in, n), NEW y \in PartsOf(x)
  PROVE  y \in PartsIn(in, n + 1)
<1>1. PartsIn(in, n + 1) = PartsOfAll(PartsIn(in, n))
  BY PartsNext
<1> QED  BY <1>1 DEF PartsOfAll

\* What an encoder puts in a value's place accounts for the value.
LEMMA EncoderAccounts ==
  ASSUME NEW in \in Inputs, NEW n \in Nat, n < StackLimit, NEW x \in PartsIn(in, n)
  PROVE  LET s == newTypeEncoder(x[1], x[2], n + 2)
         IN  IsList(s) /\ PartsOnly(s, in) /\ (RefusedIn(s) <=> RefusedFrom(x, n + 1))
<1>0. StackLimit \in Nat /\ n \in 0..StackLimit /\ n + 1 \in 0..StackLimit
  BY MarshalAssumption
<1>1. OfType(x) /\ x = <<x[1], x[2]>>
  BY <1>0, PartsTyped
<1>2. PICK t, v : t = x[1] /\ v = x[2]
  OBVIOUS
<1>3. x = <<t, v>> /\ OfType(<<t, v>>)
  BY <1>1, <1>2
<1>4. PICK s : s = newTypeEncoder(t, v, n + 2)
  OBVIOUS
<1>5. n + 1 \in Nat /\ n + 1 <= StackLimit + 1 /\ (n + 1) + 1 = n + 2
  BY <1>0
<1>6. RefusedFrom(x, n + 1) <=> Refuses(x) \/ \E y \in PartsOf(x) : RefusedFrom(y, n + 2)
  BY <1>5, RefusedStep
<1>7. ASSUME NEW y \in PartsOf(x) PROVE y \in PartsIn(in, n + 1) /\ y = <<y[1], y[2]>>
  <2>1. y \in PartsIn(in, n + 1)
    BY PartsDeeper
  <2> QED  BY <1>0, <2>1, PartsTyped
<1>8. CASE Refuses(x)
  <2>1. s = <<Panic>>
    BY <1>3, <1>4, <1>8, EncoderRefuses
  <2>2. IsList(s) /\ \A y : Has(s, y) <=> y = Panic
    BY <2>1, ListShort
  <2>3. PartsOnly(s, in) /\ RefusedIn(s)
    BY <2>2 DEF PartsOnly, RefusedIn
  <2> QED  BY <1>2, <1>4, <1>6, <1>8, <2>2, <2>3
<1>9. CASE ~Refuses(x)
  <2>1. Replaced(s, PartsOf(x), n + 2)
    BY <1>3, <1>4, <1>9, EncoderReplaces
  <2>2. PartsOnly(s, in)
    <3>1. ASSUME NEW y, Has(s, y), y.k \notin Tokens
          PROVE  \E m \in 0..StackLimit : \E p \in PartsIn(in, m) : y = Value(p[1], p[2], m + 1)
      <4>1. PICK p \in PartsOf(x) : y = Value(p[1], p[2], n + 2)
        BY <2>1, <3>1 DEF Replaced
      <4>2. p \in PartsIn(in, n + 1)
        BY <1>7
      <4> QED  BY <1>0, <1>5, <4>1, <4>2
    <3> QED  BY <3>1 DEF PartsOnly
  <2>3. ~Has(s, Panic)
    BY <2>1, ItemsApart DEF Replaced
  <2>4. ASSUME NEW u, NEW w, NEW e, Has(s, Value(u, w, e)), RefusedFrom(<<u, w>>, e)
        PROVE  \E y \in PartsOf(x) : RefusedFrom(y, n + 2)
    <3>1. Value(u, w, e).k \notin Tokens
      BY ItemsApart
    <3>2. PICK p \in PartsOf(x) : Value(u, w, e) = Value(p[1], p[2], n + 2)
      BY <2>1, <2>4, <3>1 DEF Replaced
    <3>3. u = p[1] /\ w = p[2] /\ e = n + 2
      BY <3>2, ItemsApart
    <3>4. p = <<u, w>>
      BY <1>7, <3>3
    <3> QED  BY <2>4, <3>3, <3>4
  <2>5. ASSUME NEW y \in PartsOf(x), RefusedFrom(y, n + 2) PROVE RefusedIn(s)
    <3>1. Has(s, Value(y[1], y[2], n + 2))
      BY <2>1 DEF Replaced
    <3>2. RefusedFrom(<<y[1], y[2]>>, n + 2)
      BY <1>7, <2>5
    <3> QED  BY <3>1, <3>2 DEF RefusedIn
  <2>6. RefusedIn(s) <=> RefusedFrom(x, n + 1)
    BY <1>6, <1>9, <2>3, <2>4, <2>5 DEF RefusedIn
  <2>7. IsList(s)
    BY <2>1 DEF Replaced
  <2> QED  BY <1>2, <1>4, <2>2, <2>6, <2>7
<1> QED  BY <1>8, <1>9

-----------------------------------------------------------------------------
\* Nothing is encoded at first.
LEMMA EncodeInit == MarshalInit => EncodeInv
<1> SUFFICES ASSUME MarshalInit PROVE EncodeInv
  OBVIOUS
<1>1. ASSUME NEW g \in Goroutines PROVE Accounted(pc[g], input[g], todo[g], result[g])
  <2>1. pc[g] # "encode" /\ result[g] = NoResult
    BY DEF MarshalInit
  <2>2. NoResult.of # "copy" /\ NoResult # Error
    BY DEF NoResult, Error, Returned
  <2> QED  BY <2>1, <2>2 DEF Accounted
<1> QED  BY <1>1 DEF EncodeInv, MarshalInit

\* Only the goroutine that takes a step has its value, its list or its result changed.
LEMMA OthersAccounted ==
  ASSUME EncodeInv, NEW g \in Goroutines, NEW p, NEW in, NEW s, NEW r, Accounted(p, in, s, r),
         pc' = [pc EXCEPT ![g] = p], input' = [input EXCEPT ![g] = in],
         todo' = [todo EXCEPT ![g] = s], result' = [result EXCEPT ![g] = r]
  PROVE  EncodeInv'
<1>1. ASSUME NEW h \in Goroutines PROVE Accounted(pc'[h], input'[h], todo'[h], result'[h])
  <2>1. CASE h = g
    <3>1. pc'[h] = p /\ input'[h] = in /\ todo'[h] = s /\ result'[h] = r
      BY <2>1 DEF EncodeInv
    <3> QED  BY <3>1
  <2>2. CASE h # g
    <3>1. pc'[h] = pc[h] /\ input'[h] = input[h] /\ todo'[h] = todo[h] /\ result'[h] = result[h]
      BY <2>2
    <3> QED  BY <3>1 DEF EncodeInv
  <2> QED  BY <2>1, <2>2
<1>2. /\ pc' = [h \in Goroutines |-> pc'[h]] /\ input' = [h \in Goroutines |-> input'[h]]
      /\ todo' = [h \in Goroutines |-> todo'[h]] /\ result' = [h \in Goroutines |-> result'[h]]
  BY DEF EncodeInv
<1> QED  BY <1>1, <1>2 DEF EncodeInv

\* What a step leaves alone.
LEMMA SameAgain ==
  ASSUME EncodeInv, NEW g \in Goroutines
  PROVE  /\ pc = [pc EXCEPT ![g] = pc[g]] /\ input = [input EXCEPT ![g] = input[g]]
         /\ todo = [todo EXCEPT ![g] = todo[g]] /\ result = [result EXCEPT ![g] = result[g]]
  BY DEF EncodeInv

\* The value itself is all that is to be written.
LEMMA CallAccounted ==
  ASSUME EncodeInv, NEW g \in Goroutines, NEW in \in Inputs, Call(g, in)
  PROVE  EncodeInv'
<1>0. StackLimit \in Nat /\ 0 \in 0..StackLimit
  BY MarshalAssumption
<1>1. PartsIn(in, 0) = {in}
  BY PartsNext
<1>2. in = <<in[1], in[2]>>
  BY <1>0, <1>1, PartsTyped
<1>3. PICK s : s = <<Value(in[1], in[2], 1)>>
  OBVIOUS
<1>4. IsList(s) /\ \A y : Has(s, y) <=> y = Value(in[1], in[2], 1)
  BY <1>3, ListShort
<1>5. PartsOnly(s, in)
  <2>1. 0 \in 0..StackLimit /\ in \in PartsIn(in, 0) /\ 0 + 1 = 1
    BY <1>0, <1>1
  <2>2. \E n \in 0..StackLimit : \E p \in PartsIn(in, n) : Value(in[1], in[2], 1) = Value(p[1], p[2], n + 1)
    BY <2>1
  <2> QED  BY <1>4, <2>2 DEF PartsOnly
<1>6. RefusedIn(s) <=> RefusedFrom(<<in[1], in[2]>>, 1)
  <2>1. ~Has(s, Panic)
    BY <1>4, ItemsApart
  <2>2. ASSUME NEW t, NEW v, NEW d, Has(s, Value(t, v, d)) PROVE t = in[1] /\ v = in[2] /\ d = 1
    <3>1. Value(t, v, d) = Value(in[1], in[2], 1)
      BY <1>4, <2>2
    <3> QED  BY <3>1, ItemsApart
  <2>3. Has(s, Value(in[1], in[2], 1))
    BY <1>4
  <2> QED  BY <2>1, <2>2, <2>3 DEF RefusedIn
<1>7. Refused(in) <=> RefusedIn(s)
  BY <1>2, <1>6, RefusedIs
<1>8. NoResult.of # "copy" /\ NoResult # Error
  BY DEF NoResult, Error, Returned
<1>9. Accounted("encode", in, s, NoResult)
  BY <1>4, <1>5, <1>7, <1>8 DEF Accounted
<1>10. /\ pc' = [pc EXCEPT ![g] = "encode"] /\ input' = [input EXCEPT ![g] = in]
       /\ todo' = [todo EXCEPT ![g] = s] /\ result' = [result EXCEPT ![g] = NoResult]
  BY <1>3 DEF Call
<1> QED  BY <1>9, <1>10, OthersAccounted

\* An encoder puts the parts of a value in its place (encode.go:245-276).
LEMMA EncodeAccounted ==
  ASSUME EncodeInv, NEW g \in Goroutines, encode(g)
  PROVE  EncodeInv'
<1>0. StackLimit \in Nat
  BY MarshalAssumption
<1>1. pc[g] = "encode" /\ todo[g] # << >> /\ Head(todo[g]).k = "value" /\ UNCHANGED <<input, result>>
  BY DEF encode
<1>2. Accounted(pc[g], input[g], todo[g], result[g])
  BY DEF EncodeInv
<1>3. PICK in, s, it : in = input[g] /\ s = todo[g] /\ it = Head(s)
  OBVIOUS
<1>4. in \in Inputs /\ IsList(s) /\ PartsOnly(s, in) /\ (Refused(in) <=> RefusedIn(s))
  BY <1>1, <1>2, <1>3 DEF Accounted
<1>5. IsList(Tail(s)) /\ \A x : Has(s, x) <=> x = it \/ Has(Tail(s), x)
  BY <1>1, <1>3, <1>4, HeadAndRest
<1>6. PICK n \in 0..StackLimit : \E p \in PartsIn(in, n) : it = Value(p[1], p[2], n + 1)
  <2>1. it.k \notin Tokens /\ it # Panic
    BY <1>1, <1>3 DEF Tokens, Panic
  <2>2. Has(s, it)
    BY <1>5
  <2> QED  BY <1>4, <2>1, <2>2 DEF PartsOnly
<1>7. PICK p \in PartsIn(in, n) : it = Value(p[1], p[2], n + 1)
  BY <1>6
<1>8. it.t = p[1] /\ it.v = p[2] /\ it.d = n + 1
  BY <1>7 DEF Value
<1>9. CASE it.d > StackLimit
  <2>1. pc' = [pc EXCEPT ![g] = "overflow"] /\ todo' = todo
    BY <1>3, <1>9 DEF encode
  <2>2. Accounted("overflow", input[g], todo[g], result[g])
    BY <1>2 DEF Accounted
  <2>3. /\ pc' = [pc EXCEPT ![g] = "overflow"] /\ input' = [input EXCEPT ![g] = input[g]]
        /\ todo' = [todo EXCEPT ![g] = todo[g]] /\ result' = [result EXCEPT ![g] = result[g]]
    BY <1>1, <2>1, SameAgain
  <2> QED  BY <2>2, <2>3, OthersAccounted
<1>10. CASE ~(it.d > StackLimit)
  <2>1. n \in Nat /\ n < StackLimit /\ it.d + 1 = n + 2
    BY <1>0, <1>8, <1>10
  <2>2. PICK e : e = newTypeEncoder(p[1], p[2], n + 2)
    OBVIOUS
  <2>3. IsList(e) /\ PartsOnly(e, in) /\ (RefusedIn(e) <=> RefusedFrom(p, n + 1))
    BY <1>4, <2>1, <2>2, EncoderAccounts
  <2>4. PICK u : u = e \o Tail(s)
    OBVIOUS
  <2>5. IsList(u) /\ Both(u, e, Tail(s))
    BY <1>5, <2>3, <2>4, ListJoined
  <2>6. PartsOnly(Tail(s), in)
    BY <1>4, <1>5, Zenon DEF PartsOnly
  <2>7. PartsOnly(u, in)
    BY <2>3, <2>5, <2>6, RefusedInBoth
  <2>8. p = <<p[1], p[2]>>
    BY <1>4, PartsTyped
  <2>9. RefusedIn(s) <=> RefusedFrom(p, n + 1) \/ RefusedIn(Tail(s))
    <3>1. it # Panic
      BY <1>7, ItemsApart
    <3>2. Has(s, Panic) <=> Has(Tail(s), Panic)
      BY <1>5, <3>1
    <3>3. ASSUME NEW t, NEW v, NEW d, Has(s, Value(t, v, d)), RefusedFrom(<<t, v>>, d)
          PROVE  RefusedFrom(p, n + 1) \/ Has(Tail(s), Value(t, v, d))
      <4>1. CASE Value(t, v, d) = it
        <5>1. t = p[1] /\ v = p[2] /\ d = n + 1
          BY <1>7, <4>1, ItemsApart
        <5>2. p = <<t, v>>
          BY <2>8, <5>1
        <5> QED  BY <3>3, <5>1, <5>2
      <4>2. CASE Value(t, v, d) # it
        BY <1>5, <3>3, <4>2
      <4> QED  BY <4>1, <4>2
    <3>4. ASSUME RefusedFrom(p, n + 1) PROVE RefusedIn(s)
      <4>1. Has(s, Value(p[1], p[2], n + 1))
        BY <1>5, <1>7
      <4>2. RefusedFrom(<<p[1], p[2]>>, n + 1)
        BY <2>8, <3>4
      <4> QED  BY <4>1, <4>2 DEF RefusedIn
    <3>5. ASSUME RefusedIn(Tail(s)) PROVE RefusedIn(s)
      BY <1>5, <3>5 DEF RefusedIn
    <3>6. ASSUME RefusedIn(s) PROVE RefusedFrom(p, n + 1) \/ RefusedIn(Tail(s))
      <4>1. CASE Has(s, Panic)
        BY <3>2, <4>1 DEF RefusedIn
      <4>2. CASE ~Has(s, Panic)
        <5>1. PICK t, v, d : Has(s, Value(t, v, d)) /\ RefusedFrom(<<t, v>>, d)
          BY <3>6, <4>2 DEF RefusedIn
        <5>2. RefusedFrom(p, n + 1) \/ Has(Tail(s), Value(t, v, d))
          BY <3>3, <5>1
        <5> QED  BY <5>1, <5>2 DEF RefusedIn
      <4> QED  BY <4>1, <4>2
    <3> QED  BY <3>4, <3>5, <3>6
  <2>10. Refused(in) <=> RefusedIn(u)
    <3>1. RefusedIn(u) <=> RefusedIn(e) \/ RefusedIn(Tail(s))
      BY <2>5, RefusedInBoth
    <3> QED  BY <1>4, <2>3, <2>9, <3>1
  <2>11. Accounted(pc[g], input[g], u, result[g])
    BY <1>1, <1>2, <1>3, <1>4, <2>5, <2>7, <2>10 DEF Accounted
  <2>12. todo' = [todo EXCEPT ![g] = u] /\ pc' = pc
    <3>1. todo' = [todo EXCEPT ![g] = newTypeEncoder(it.t, it.v, it.d + 1) \o Tail(s)] /\ pc' = pc
      BY <1>3, <1>10 DEF encode, Rest
    <3> QED  BY <1>8, <2>1, <2>2, <2>4, <3>1
  <2>13. /\ pc' = [pc EXCEPT ![g] = pc[g]] /\ input' = [input EXCEPT ![g] = input[g]]
         /\ todo' = [todo EXCEPT ![g] = u] /\ result' = [result EXCEPT ![g] = result[g]]
    BY <1>1, <2>12, SameAgain
  <2> QED  BY <2>11, <2>13, OthersAccounted
<1> QED  BY <1>9, <1>10

\* A token is written.
LEMMA WriteAccounted ==
  ASSUME EncodeInv, NEW g \in Goroutines, Write(g)
  PROVE  EncodeInv'
<1>1. /\ pc[g] = "encode" /\ todo[g] # << >> /\ Head(todo[g]).k \in Tokens
      /\ todo' = [todo EXCEPT ![g] = Tail(todo[g])] /\ UNCHANGED <<pc, input, result>>
  BY DEF Write, Rest
<1>2. Accounted(pc[g], input[g], todo[g], result[g])
  BY DEF EncodeInv
<1>3. PICK in, s, it : in = input[g] /\ s = todo[g] /\ it = Head(s)
  OBVIOUS
<1>4. in \in Inputs /\ IsList(s) /\ PartsOnly(s, in) /\ (Refused(in) <=> RefusedIn(s))
  BY <1>1, <1>2, <1>3 DEF Accounted
<1>5. IsList(Tail(s)) /\ \A x : Has(s, x) <=> x = it \/ Has(Tail(s), x)
  BY <1>1, <1>3, <1>4, HeadAndRest
<1>6. it # Panic /\ \A t, v, d : it # Value(t, v, d)
  BY <1>1, <1>3, ItemsApart
<1>7. PartsOnly(Tail(s), in)
  BY <1>4, <1>5, Zenon DEF PartsOnly
<1>8. RefusedIn(s) <=> RefusedIn(Tail(s))
  <2>1. Has(s, Panic) <=> Has(Tail(s), Panic)
    BY <1>5, <1>6
  <2>2. \A t, v, d : Has(s, Value(t, v, d)) <=> Has(Tail(s), Value(t, v, d))
    BY <1>5, <1>6
  <2> QED  BY <2>1, <2>2, Zenon DEF RefusedIn
<1>9. Accounted(pc[g], input[g], Tail(todo[g]), result[g])
  BY <1>1, <1>2, <1>3, <1>4, <1>5, <1>7, <1>8 DEF Accounted
<1>10. /\ pc' = [pc EXCEPT ![g] = pc[g]] /\ input' = [input EXCEPT ![g] = input[g]]
       /\ todo' = [todo EXCEPT ![g] = Tail(todo[g])] /\ result' = [result EXCEPT ![g] = result[g]]
  BY <1>1, SameAgain
<1> QED  BY <1>9, <1>10, OthersAccounted

\* A panic ends the encoding: that is what was refused.
LEMMA RecoverAccounted ==
  ASSUME EncodeInv, NEW g \in Goroutines, recover(g)
  PROVE  EncodeInv'
<1>1. /\ pc[g] = "encode" /\ todo[g] # << >> /\ Head(todo[g]) = Panic
      /\ todo' = [todo EXCEPT ![g] = << >>] /\ result' = [result EXCEPT ![g] = Error]
      /\ pc' = [pc EXCEPT ![g] = "put"] /\ UNCHANGED input
  BY DEF recover
<1>2. Accounted(pc[g], input[g], todo[g], result[g])
  BY DEF EncodeInv
<1>3. IsList(todo[g]) /\ (Refused(input[g]) <=> RefusedIn(todo[g]))
  BY <1>1, <1>2 DEF Accounted
<1>4. Has(todo[g], Panic)
  BY <1>1, <1>3, HeadAndRest
<1>5. Refused(input[g])
  BY <1>3, <1>4 DEF RefusedIn
<1>6. Error.of # "copy"
  BY DEF Error, Returned
<1>7. Accounted("put", input[g], << >>, Error)
  BY <1>5, <1>6 DEF Accounted
<1>8. /\ pc' = [pc EXCEPT ![g] = "put"] /\ input' = [input EXCEPT ![g] = input[g]]
      /\ todo' = [todo EXCEPT ![g] = << >>] /\ result' = [result EXCEPT ![g] = Error]
  BY <1>1, SameAgain
<1> QED  BY <1>7, <1>8, OthersAccounted

\* Nothing is left, so nothing was refused.
LEMMA FinishAccounted ==
  ASSUME EncodeInv, NEW g \in Goroutines, finish(g)
  PROVE  EncodeInv'
<1>1. /\ pc[g] = "encode" /\ todo[g] = << >> /\ result' = [result EXCEPT ![g] = Returned("copy", g)]
      /\ pc' = [pc EXCEPT ![g] = "put"] /\ UNCHANGED <<input, todo>>
  BY DEF finish, returnCopy
<1>2. Accounted(pc[g], input[g], todo[g], result[g])
  BY DEF EncodeInv
<1>3. Refused(input[g]) <=> RefusedIn(<< >>)
  BY <1>1, <1>2 DEF Accounted
<1>4. ~RefusedIn(<< >>)
  BY ListShort DEF RefusedIn
<1>5. Returned("copy", g) # Error
  BY DEF Error, Returned
<1>6. Accounted("put", input[g], todo[g], Returned("copy", g))
  BY <1>3, <1>4, <1>5 DEF Accounted
<1>7. /\ pc' = [pc EXCEPT ![g] = "put"] /\ input' = [input EXCEPT ![g] = input[g]]
      /\ todo' = [todo EXCEPT ![g] = todo[g]] /\ result' = [result EXCEPT ![g] = Returned("copy", g)]
  BY <1>1, SameAgain
<1> QED  BY <1>6, <1>7, OthersAccounted

\* The result stays.
LEMMA PutAccounted ==
  ASSUME EncodeInv, NEW g \in Goroutines, Put(g)
  PROVE  EncodeInv'
<1>1. pc' = [pc EXCEPT ![g] = "idle"] /\ UNCHANGED <<input, todo, result>>
  BY DEF Put
<1>2. Accounted(pc[g], input[g], todo[g], result[g])
  BY DEF EncodeInv
<1>3. Accounted("idle", input[g], todo[g], result[g])
  BY <1>2 DEF Accounted
<1>4. /\ pc' = [pc EXCEPT ![g] = "idle"] /\ input' = [input EXCEPT ![g] = input[g]]
      /\ todo' = [todo EXCEPT ![g] = todo[g]] /\ result' = [result EXCEPT ![g] = result[g]]
  BY <1>1, SameAgain
<1> QED  BY <1>3, <1>4, OthersAccounted

\* Every step keeps the invariant.
LEMMA NextAccounted == EncodeInv /\ [MarshalNext]_vars => EncodeInv'
<1> SUFFICES ASSUME EncodeInv, [MarshalNext]_vars PROVE EncodeInv'
  OBVIOUS
<1>1. CASE UNCHANGED vars
  BY <1>1 DEF vars, EncodeInv
<1>2. CASE MarshalNext
  <2>1. PICK g \in Goroutines : Step(g) \/ \E in \in Inputs : Call(g, in)
    BY <1>2 DEF MarshalNext
  <2>2. CASE \E in \in Inputs : Call(g, in)
    BY <2>2, CallAccounted
  <2>3. CASE encode(g)
    BY <2>3, EncodeAccounted
  <2>4. CASE Write(g)
    BY <2>4, WriteAccounted
  <2>5. CASE recover(g)
    BY <2>5, RecoverAccounted
  <2>6. CASE finish(g)
    BY <2>6, FinishAccounted
  <2>7. CASE Put(g)
    BY <2>7, PutAccounted
  <2> QED  BY <2>1, <2>2, <2>3, <2>4, <2>5, <2>6, <2>7 DEF Step
<1> QED  BY <1>1, <1>2

(***************************************************************************)
(* The invariant of the encoding, for any inputs that are of their types,  *)
(* and any depth of the stack (encode.go:72-113).                          *)
(***************************************************************************)
THEOREM EncodeInvariant == MarshalSpec => []EncodeInv
  BY EncodeInit, NextAccounted, PTL DEF MarshalSpec

(***************************************************************************)
(* Marshal returns an error for a value if, and only if, a part of it,     *)
(* however deep, is refused by its encoder, and otherwise returns what all *)
(* of them wrote (encode.go:72-113).                                       *)
(***************************************************************************)
THEOREM NothingHalfEncodedAlways == MarshalSpec => []NothingHalfEncoded
<1>1. EncodeInv => NothingHalfEncoded
  BY DEF EncodeInv, Accounted, NothingHalfEncoded
<1> QED  BY <1>1, EncodeInvariant, PTL
=============================================================================
