------------------------- MODULE WindowedPeerProofs -------------------------
(***************************************************************************)
(* How much a peer must allow itself to send unacknowledged, proved for    *)
(* every window, field length, restart and network capacity.  The          *)
(* inductive invariant is PeerInv; what it says of the server's counters   *)
(* is AckInv, preserved by ReadFull as AckWindowProofs shows.              *)
(***************************************************************************)
EXTENDS WindowedPeer, AckWindowProofs

LEMMA NeedIsReadSize ==
  ASSUME PeerTypeOK
  PROVE  /\ need \in ReadSizes /\ need \in Nat /\ need >= 1 /\ need <= MaxRead
         /\ MaxRead \in Nat /\ MaxWindow \in Nat /\ ResetAt \in Nat
BY WordAssumption, WindowsAssumption, PeerAssumption DEF PeerTypeOK, ReadSizes

LEMMA PeerInitInv == PeerInit => PeerInv
<1> SUFFICES ASSUME PeerInit PROVE PeerInv
  OBVIOUS
<1>1. inBytes \in 0..(ResetAt - 1) /\ 0 \in 0..(ResetAt - 1) /\ ackWinSize \in 0..MaxWindow
  BY WordAssumption, WindowsAssumption, PeerAssumption DEF PeerInit
<1>2. acked \in BOOLEAN
  BY Zenon DEF PeerInit
<1>3. AckTypeOK
  BY <1>1, <1>2 DEF PeerInit, AckTypeOK
<1>4. PeerTypeOK
  BY <1>3, PeerAssumption DEF PeerInit, PeerTypeOK
<1>5. MarkBehindCount /\ NeverOvercounted
  BY <1>1 DEF PeerInit, MarkBehindCount, NeverOvercounted
<1>6. WindowInv
  BY DEF PeerInit, WindowInv
<1>7. Accounted /\ BeforeAcks
  BY <1>1 DEF PeerInit, Accounted, BeforeAcks
<1> QED  BY <1>3, <1>4, <1>5, <1>6, <1>7 DEF PeerInv, AckInv

LEMMA PeerSendInv ==
  ASSUME PeerInv, PeerSend
  PROVE  PeerInv'
<1>1. AckInv'
  BY DEF PeerInv, PeerSend, ackVars, AckInv, AckTypeOK, MarkBehindCount,
         NeverOvercounted, WindowInv, Forgotten, ReasonableWindows
<1>2. PeerTypeOK'
  BY <1>1 DEF PeerInv, PeerTypeOK, AckInv, PeerSend, ackVars
<1>3. Accounted'
  BY DEF PeerInv, PeerTypeOK, AckTypeOK, PeerSend, ackVars, Accounted
<1>4. BeforeAcks'
  BY NeedIsReadSize DEF PeerInv, PeerTypeOK, AckTypeOK, PeerSend, ackVars, BeforeAcks,
     ReasonableWindows
<1> QED  BY <1>1, <1>2, <1>3, <1>4 DEF PeerInv

(***************************************************************************)
(* The server's read.  Before the first Ack the count cannot restart once  *)
(* it is below a window: a window and a read do not reach the restart.     *)
(***************************************************************************)
LEMMA ServerReadInv ==
  ASSUME PeerInv, ServerRead
  PROVE  PeerInv'
<1>1. need \in ReadSizes /\ ReadFull(need) /\ AckInv
  BY NeedIsReadSize DEF PeerInv, ServerRead
<1>2. AckInv'
  BY <1>1, ReadFullInv
<1>3. PeerTypeOK'
  BY <1>2, NeedIsReadSize
     DEF PeerInv, PeerTypeOK, AckInv, AckTypeOK, ServerRead, ReadFull
<1>4. Accounted'
  BY NeedIsReadSize
     DEF PeerInv, PeerTypeOK, AckTypeOK, ServerRead, ReadFull, Accounted
<1>5. BeforeAcks'
  <2> SUFFICES ASSUME ReasonableWindows, ~acked'
               PROVE  /\ ackBytes' = 0 /\ inLastAck' = 0
                      /\ \/ outstanding' = inFlight'
                         \/ /\ inBytes' < MaxWindow
                            /\ outstanding' <= inFlight' + inBytes' + MaxRead
    BY DEF BeforeAcks, ReasonableWindows
  <2>1. ~AckDue(need) /\ ~acked
    BY <1>1 DEF ReadFull
  <2>2. /\ ackBytes = 0 /\ inLastAck = 0
        /\ \/ outstanding = inFlight
           \/ inBytes < MaxWindow /\ outstanding <= inFlight + inBytes + MaxRead
    BY <2>1 DEF PeerInv, BeforeAcks
  <2>3. /\ Counted(need) = IF inBytes + need >= ResetAt THEN 0 ELSE inBytes + need
        /\ Counted(need) \in Nat /\ Marked(need) = 0
    BY <1>1, <2>2, NoWrap DEF AckInv, Counted, Marked
  <2>4. Counted(need) < MaxWindow
    <3>1. ackWinSize \in 1..MaxWindow
      BY WindowsAssumption DEF PeerInv, PeerTypeOK, ReasonableWindows
    <3>2. ~(Counted(need) - Marked(need) >= ackWinSize)
      BY <1>1, <2>1, <3>1, DueIffWindowFull DEF AckInv
    <3> QED  BY <2>3, <3>1, <3>2, NeedIsReadSize DEF PeerInv
  <2>5. /\ inBytes' = Counted(need) /\ inLastAck' = 0 /\ ackBytes' = 0
        /\ outstanding' = outstanding /\ inFlight' = inFlight - need
    BY <1>1, <2>1, <2>2, <2>3 DEF ServerRead, ReadFull
  <2>6. outstanding' <= inFlight' + inBytes' + MaxRead
    <3>1. CASE outstanding = inFlight
      BY <3>1, <2>3, <2>5, NeedIsReadSize DEF PeerInv, PeerTypeOK
    <3>2. CASE inBytes < MaxWindow /\ outstanding <= inFlight + inBytes + MaxRead
      <4>1. inBytes + need < ResetAt
        BY <3>2, NeedIsReadSize DEF PeerInv, PeerTypeOK, AckTypeOK, ReasonableWindows
      <4> QED  BY <3>2, <4>1, <2>3, <2>5, NeedIsReadSize DEF PeerInv, PeerTypeOK, AckTypeOK
    <3> QED  BY <2>2, <3>1, <3>2
  <2> QED  BY <2>4, <2>5, <2>6
<1> QED  BY <1>2, <1>3, <1>4, <1>5 DEF PeerInv

LEMMA PeerRecvAckInv ==
  ASSUME PeerInv, PeerRecvAck
  PROVE  PeerInv'
<1>1. AckInv'
  BY DEF PeerInv, PeerRecvAck, ackVars, AckInv, AckTypeOK, MarkBehindCount,
         NeverOvercounted, WindowInv, Forgotten, ReasonableWindows
<1>2. PeerTypeOK'
  BY <1>1 DEF PeerInv, PeerTypeOK, AckInv, PeerRecvAck, ackVars
<1>3. Accounted'
  BY DEF PeerInv, PeerTypeOK, AckTypeOK, PeerRecvAck, ackVars, Accounted
<1>4. BeforeAcks'
  BY DEF PeerInv, PeerTypeOK, PeerRecvAck, ackVars, BeforeAcks, ReasonableWindows
<1> QED  BY <1>1, <1>2, <1>3, <1>4 DEF PeerInv

LEMMA PeerStepInv == PeerInv /\ [PeerNext]_peerVars => PeerInv'
<1> SUFFICES ASSUME PeerInv, [PeerNext]_peerVars
             PROVE  PeerInv'
  OBVIOUS
<1>1. CASE PeerSend
  BY <1>1, PeerSendInv
<1>2. CASE ServerRead
  BY <1>2, ServerReadInv
<1>3. CASE PeerRecvAck
  BY <1>3, PeerRecvAckInv
<1>4. CASE UNCHANGED peerVars
  BY <1>4 DEF peerVars, ackVars, PeerInv, PeerTypeOK, Accounted, BeforeAcks, AckInv, AckTypeOK,
              MarkBehindCount, NeverOvercounted, WindowInv, Forgotten, ReasonableWindows
<1> QED  BY <1>1, <1>2, <1>3, <1>4 DEF PeerNext

(***************************************************************************)
(* The inductive invariant: every byte outstanding is accounted for.       *)
(***************************************************************************)
THEOREM PeerInvariant == PeerSpec => []PeerInv
BY PeerInitInv, PeerStepInv, PTL DEF PeerSpec

-----------------------------------------------------------------------------

\* A stalled peer and server, in numbers.
LEMMA StalledBound ==
  ASSUME PeerInv, ReasonableWindows, Stalled
  PROVE  /\ inFlight <= MaxRead - 1
         /\ outstanding <= MaxRead - 1 + unacked
         /\ budget <= outstanding /\ budget \in Nat /\ outstanding \in Nat
         /\ MaxRead \in Nat /\ MaxRead >= 1 /\ MaxWindow \in Nat /\ MaxWindow >= 1
<1>1. ackWinSize \in 1..MaxWindow
  BY WindowsAssumption DEF PeerInv, PeerTypeOK, ReasonableWindows
<1> QED  BY <1>1, NeedIsReadSize DEF PeerInv, PeerTypeOK, AckTypeOK, Accounted, Stalled

(***************************************************************************)
(* A peer that allows itself two windows and two fields, less two bytes,   *)
(* never waits for an Ack of a server that waits for the rest of a field   *)
(* (readFull, conn.go:214).                                                *)
(***************************************************************************)
THEOREM NeverStallsAlways == PeerSpec => []NeverStalls
<1>1. ASSUME PeerInv PROVE NeverStalls
  <2> SUFFICES ASSUME ReasonableWindows, budget >= Enough, Stalled
               PROVE  FALSE
    BY DEF NeverStalls
  <2>1. CASE acked
    <3>1. unacked <= 2 * MaxWindow + MaxRead - 2
      BY <1>1, <2>1, StalledBound DEF PeerInv, AckInv, WindowInv, Forgotten, AckTypeOK
    <3> QED  BY <1>1, <3>1, StalledBound DEF Enough, PeerInv, PeerTypeOK, AckTypeOK
  <2>2. CASE ~acked
    <3>1. \/ outstanding = inFlight
          \/ inBytes < MaxWindow /\ outstanding <= inFlight + inBytes + MaxRead
      BY <1>1, <2>2 DEF PeerInv, BeforeAcks
    <3> QED  BY <1>1, <3>1, StalledBound DEF Enough, PeerInv, PeerTypeOK, AckTypeOK
  <2> QED  BY <2>1, <2>2
<1> QED  BY <1>1, PeerInvariant, PTL

(***************************************************************************)
(* With one window and one field, less a byte, the two wait for each other *)
(* only after a restart of the count has forgotten bytes that no Ack       *)
(* covered (conn.go:222-226).                                              *)
(***************************************************************************)
THEOREM StallMeansRestartAlways == PeerSpec => []StallMeansRestart
<1>1. ASSUME PeerInv PROVE StallMeansRestart
  <2> SUFFICES ASSUME ReasonableWindows, Stalled, budget >= MaxWindow + MaxRead - 1
               PROVE  Forgotten > 0 /\ inLastAck = 0
    BY DEF StallMeansRestart
  <2>1. unacked >= MaxWindow
    BY <1>1, StalledBound DEF PeerInv, PeerTypeOK, AckTypeOK
  <2>2. CASE acked
    BY <1>1, <2>1, <2>2, StalledBound DEF PeerInv, AckInv, WindowInv, Forgotten, AckTypeOK
  <2>3. CASE ~acked
    <3>1. /\ inLastAck = 0
          /\ \/ outstanding = inFlight
             \/ inBytes < MaxWindow
      BY <1>1, <2>3 DEF PeerInv, BeforeAcks
    <3> QED  BY <1>1, <2>1, <3>1, StalledBound DEF PeerInv, PeerTypeOK, AckTypeOK, Forgotten
  <2> QED  BY <2>2, <2>3
<1> QED  BY <1>1, PeerInvariant, PTL
=============================================================================
