-------------------------- MODULE AckWindowProofs --------------------------
(***************************************************************************)
(* The properties of the acknowledgement window, proved for every word     *)
(* size, restart, read size and set of windows allowed by the assumptions  *)
(* of AckWindow.  The inductive invariant is AckInv.                       *)
(***************************************************************************)
EXTENDS AckWindow, TLAPS

\* A number below the modulus is its own remainder.
LEMMA SmallMod ==
  ASSUME NEW w \in Nat \ {0}, NEW a \in 0..(w - 1)
  PROVE  a % w = a
PROOF BY SMT

(***************************************************************************)
(* Because the restart comes at least one read before the end of the word  *)
(* (ResetAt + MaxRead <= Word), the addition of conn.go:220 never wraps,   *)
(* and because the mark is behind the count neither does the subtraction   *)
(* of conn.go:228.                                                         *)
(***************************************************************************)
LEMMA NoWrap ==
  ASSUME AckTypeOK, MarkBehindCount, NEW n \in ReadSizes
  PROVE  /\ Add32(inBytes, n) = inBytes + n
         /\ Counted(n) \in 0..(ResetAt - 1)
         /\ Marked(n) \in 0..Counted(n)
         /\ Sub32(Counted(n), Marked(n)) = Counted(n) - Marked(n)
<1>1. inBytes + n \in 0..(Word - 1) /\ Word \in Nat \ {0}
  BY WordAssumption DEF AckTypeOK, ReadSizes
<1>2. Add32(inBytes, n) = inBytes + n
  BY <1>1, SmallMod DEF Add32
<1>3. Counted(n) \in 0..(ResetAt - 1)
  BY <1>1, <1>2, WordAssumption DEF Counted, AckTypeOK, ReadSizes
<1>4. Marked(n) \in 0..Counted(n)
  BY <1>1, <1>2 DEF Counted, Marked, AckTypeOK, ReadSizes, MarkBehindCount
<1>5. Counted(n) - Marked(n) \in 0..(Word - 1)
  BY <1>3, <1>4, WordAssumption
<1>6. Sub32(Counted(n), Marked(n)) = Counted(n) - Marked(n)
  BY <1>1, <1>5, SmallMod DEF Sub32
<1> QED  BY <1>2, <1>3, <1>4, <1>6

\* AckDue without the modular arithmetic.
LEMMA DueIffWindowFull ==
  ASSUME AckTypeOK, MarkBehindCount, NEW n \in ReadSizes
  PROVE  AckDue(n) <=> ackWinSize > 0 /\ Counted(n) - Marked(n) >= ackWinSize
BY NoWrap DEF AckDue

-----------------------------------------------------------------------------

LEMMA InitInv == AckInit => AckInv
<1> SUFFICES ASSUME AckInit PROVE AckInv
  OBVIOUS
<1>1. AckTypeOK
  <2>1. acked \in BOOLEAN
    BY Zenon DEF AckInit
  <2>2. 0 \in 0..(ResetAt - 1) /\ 0 \in 0..MaxWindow
    BY WordAssumption, WindowsAssumption
  <2> QED  BY <2>1, <2>2 DEF AckInit, AckTypeOK
<1>2. MarkBehindCount /\ NeverOvercounted
  BY DEF AckInit, MarkBehindCount, NeverOvercounted
<1>3. WindowInv
  BY DEF AckInit, WindowInv
<1> QED  BY <1>1, <1>2, <1>3 DEF AckInv

(***************************************************************************)
(* A read preserves the invariant.  Four cases: the count restarts or not, *)
(* an Ack is due or not.                                                   *)
(***************************************************************************)
LEMMA ReadFullInv ==
  ASSUME AckInv, NEW n \in ReadSizes, ReadFull(n)
  PROVE  AckInv'
<1> USE DEF AckInv
<1> DEFINE restart == inBytes + n >= ResetAt
<1>1. /\ Counted(n) = IF restart THEN 0 ELSE inBytes + n
      /\ Marked(n) = IF restart THEN 0 ELSE inLastAck
      /\ Counted(n) \in 0..(ResetAt - 1)
      /\ Marked(n) \in 0..Counted(n)
  BY NoWrap DEF Counted, Marked
<1>2. AckDue(n) <=> ackWinSize > 0 /\ Counted(n) - Marked(n) >= ackWinSize
  BY DueIffWindowFull
<1>3. /\ n \in 0..MaxRead /\ MaxRead \in Nat /\ MaxWindow \in Nat
      /\ ResetAt \in Nat
  BY WordAssumption, WindowsAssumption DEF ReadSizes
<1>4. AckTypeOK'
  BY <1>1, <1>3 DEF ReadFull, AckTypeOK
<1>5. MarkBehindCount'
  BY <1>1 DEF ReadFull, MarkBehindCount
<1>6. NeverOvercounted'
  BY <1>1, <1>3 DEF ReadFull, NeverOvercounted, AckTypeOK, MarkBehindCount
<1>7. WindowInv'
  <2> SUFFICES ASSUME ReasonableWindows, acked'
               PROVE  /\ ackWinSize' > 0
                      /\ inBytes' - inLastAck' < MaxWindow
                      /\ Forgotten' < MaxWindow + MaxRead
                      /\ inLastAck' > 0 => Forgotten' = 0
    BY DEF WindowInv, ReasonableWindows
  <2>1. CASE AckDue(n)
    \* The Ack covers everything: mark = count and nothing is outstanding.
    <3>1. /\ inBytes' = Counted(n) /\ inLastAck' = Counted(n) /\ unacked' = 0
          /\ ackWinSize' = ackWinSize
      BY <2>1 DEF ReadFull
    <3>2. Forgotten' = 0 /\ inBytes' - inLastAck' = 0
      BY <3>1, <1>1 DEF Forgotten
    <3>3. ackWinSize \in 1..MaxWindow
      BY <2>1, <1>2 DEF AckTypeOK
    <3> QED  BY <3>1, <3>2, <3>3, <1>3
  <2>2. CASE ~AckDue(n)
    <3>1. /\ inBytes' = Counted(n) /\ inLastAck' = Marked(n)
          /\ unacked' = unacked + n /\ ackWinSize' = ackWinSize /\ acked
      BY <2>2 DEF ReadFull
    <3>2. /\ ackWinSize \in 1..MaxWindow
          /\ inBytes - inLastAck < MaxWindow
          /\ Forgotten < MaxWindow + MaxRead
          /\ inLastAck > 0 => Forgotten = 0
      BY <3>1 DEF WindowInv, AckTypeOK
    <3>3. Counted(n) - Marked(n) < MaxWindow
      BY <2>2, <1>1, <1>2, <1>3, <3>2
    <3>4. CASE ~restart
      \* Count and unacked grow alike: what was forgotten stays the same.
      BY <3>1, <3>2, <3>3, <3>4, <1>1, <1>3 DEF Forgotten, AckTypeOK
    <3>5. CASE restart
      \* The mark was past zero, or the count since it would fill a window:
      \* so nothing had been forgotten, and what is now is the count since
      \* the mark and this read.
      <4>1. inLastAck > 0
        BY <3>2, <3>5, <1>3 DEF ReasonableWindows, AckTypeOK
      <4>2. unacked = inBytes - inLastAck
        BY <4>1, <3>2 DEF Forgotten, AckTypeOK
      <4>3. inBytes' = 0 /\ inLastAck' = 0
        BY <3>1, <3>5, <1>1
      <4> QED  BY <3>1, <3>2, <4>2, <4>3, <1>3 DEF Forgotten, AckTypeOK
    <3> QED  BY <3>4, <3>5
  <2> QED  BY <2>1, <2>2
<1> QED  BY <1>4, <1>5, <1>6, <1>7

\* A new window disturbs only the typing and the window's own bound.
LEMMA ServeWinAckSizeInv ==
  ASSUME AckInv, NEW win \in Windows, ServeWinAckSize(win)
  PROVE  AckInv'
BY WindowsAssumption
   DEF AckInv, AckTypeOK, MarkBehindCount, NeverOvercounted, WindowInv,
       Forgotten, ReasonableWindows, ServeWinAckSize

LEMMA StepInv == AckInv /\ [AckNext]_ackVars => AckInv'
<1> SUFFICES ASSUME AckInv, [AckNext]_ackVars
             PROVE  AckInv'
  OBVIOUS
<1>1. CASE \E n \in ReadSizes : ReadFull(n)
  BY <1>1, ReadFullInv
<1>2. CASE \E win \in Windows : ServeWinAckSize(win)
  BY <1>2, ServeWinAckSizeInv
<1>3. CASE UNCHANGED ackVars
  BY <1>3 DEF ackVars, AckInv, AckTypeOK, MarkBehindCount, NeverOvercounted,
              WindowInv, Forgotten, ReasonableWindows
<1> QED  BY <1>1, <1>2, <1>3 DEF AckNext

-----------------------------------------------------------------------------

(***************************************************************************)
(* The inductive invariant of readFull and serveWinAckSize, type           *)
(* correctness among its conjuncts.                                        *)
(***************************************************************************)
THEOREM AckInvariant == AckSpec => []AckInv
BY InitInv, StepInv, PTL DEF AckSpec

(***************************************************************************)
(* The mark never passes the count, so the uint32 subtraction of           *)
(* conn.go:228 never wraps.                                                *)
(***************************************************************************)
THEOREM MarkBehindCountAlways == AckSpec => []MarkBehindCount
<1>1. AckInv => MarkBehindCount
  BY DEF AckInv
<1> QED  BY <1>1, AckInvariant, PTL

(***************************************************************************)
(* No byte is acknowledged twice, whatever restarts of the count and       *)
(* changes of the window lie between two Acks.                             *)
(***************************************************************************)
THEOREM NeverOvercountedAlways == AckSpec => []NeverOvercounted
<1>1. AckInv => NeverOvercounted
  BY DEF AckInv
<1> QED  BY <1>1, AckInvariant, PTL

(***************************************************************************)
(* Once acknowledgements have begun, at most two windows and one read are  *)
(* outstanding: with the code's numbers, for every window up to            *)
(* 0xf0000000 less the longest read.                                       *)
(***************************************************************************)
THEOREM OutstandingBoundedAlways == AckSpec => []OutstandingBounded
<1>1. AckInv => OutstandingBounded
  BY WordAssumption, WindowsAssumption
     DEF AckInv, WindowInv, Forgotten, AckTypeOK, OutstandingBounded
<1> QED  BY <1>1, AckInvariant, PTL
=============================================================================
