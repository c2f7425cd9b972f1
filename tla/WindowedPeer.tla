---------------------------- MODULE WindowedPeer ----------------------------
(***************************************************************************)
(* The acknowledgement window seen by the peer that asked for it.  The     *)
(* peer has announced its window and stops sending once `budget` bytes are *)
(* outstanding, that is, sent and covered by no Ack it has received.  The  *)
(* server reads whole fields only (readFull returns when the field is      *)
(* complete), and decides to acknowledge only after a read.                *)
(*                                                                         *)
(* The question is how large the budget must be for the two never to wait  *)
(* for each other, the peer for an Ack and the server for the rest of a    *)
(* field: there is no timeout on either read.                              *)
(***************************************************************************)
EXTENDS AckWindow

CONSTANTS
  Budgets,      \* the budgets a peer may keep to
  MaxBefore,    \* bytes read before the window was announced, at most
  MaxInFlight   \* bytes the network holds

ASSUME PeerAssumption ==
  /\ Budgets \subseteq Nat /\ MaxRead > 0
  /\ MaxBefore \in 0..(ResetAt - 1) /\ MaxInFlight \in Nat

VARIABLES
  budget,       \* the peer's budget
  outstanding,  \* bytes the peer has sent since the last Ack it received
  inFlight,     \* bytes sent and not yet read
  need,         \* the length of the field the server is reading
  ackBytes      \* bytes covered by Acks on their way to the peer

peerVars == <<ackVars, budget, outstanding, inFlight, need, ackBytes>>

\* The window has just taken effect: serveWinAckSize sends no Ack itself.
PeerInit ==
  /\ inBytes \in 0..MaxBefore /\ unacked = inBytes
  /\ inLastAck = 0 /\ acked = FALSE
  /\ ackWinSize \in Windows
  /\ budget \in Budgets
  /\ outstanding = 0 /\ inFlight = 0 /\ ackBytes = 0
  /\ need \in 1..MaxRead

\* The peer sends one byte more.
PeerSend ==
  /\ outstanding < budget /\ inFlight < MaxInFlight
  /\ outstanding' = outstanding + 1
  /\ inFlight' = inFlight + 1
  /\ UNCHANGED <<ackVars, budget, need, ackBytes>>

\* The field is complete: the server reads it, acknowledges all it has read
\* if that is due, and turns to a field of another length.
ServerRead ==
  /\ inFlight >= need
  /\ ReadFull(need)
  /\ inFlight' = inFlight - need
  /\ need' \in 1..MaxRead
  /\ ackBytes' = IF AckDue(need) THEN ackBytes + unacked + need ELSE ackBytes
  /\ UNCHANGED <<budget, outstanding>>

\* Acks reach the peer.  They may cover bytes it sent before it counted.
PeerRecvAck ==
  /\ ackBytes > 0
  /\ outstanding' = IF outstanding <= ackBytes THEN 0 ELSE outstanding - ackBytes
  /\ ackBytes' = 0
  /\ UNCHANGED <<ackVars, budget, inFlight, need>>

PeerNext == PeerSend \/ ServerRead \/ PeerRecvAck

PeerSpec == PeerInit /\ [][PeerNext]_peerVars

\* The server reads when it can, Acks arrive, and the peer has more to send.
FairPeerSpec ==
  PeerSpec /\ WF_peerVars(PeerSend) /\ WF_peerVars(ServerRead) /\ WF_peerVars(PeerRecvAck)

-----------------------------------------------------------------------------

PeerTypeOK ==
  /\ AckTypeOK /\ ackWinSize \in Windows
  /\ budget \in Nat /\ outstanding \in Nat /\ inFlight \in Nat /\ ackBytes \in Nat
  /\ need \in 1..MaxRead

\* Neither can move: the peer waits for an Ack, the server for bytes.
Stalled == outstanding >= budget /\ inFlight < need /\ ackBytes = 0

\* Two windows, the read that crosses a restart, and a field not complete.
Enough == 2 * MaxWindow + 2 * MaxRead - 2

(***************************************************************************)
(* A peer that allows itself two windows and two fields never waits        *)
(* forever.  A budget of one window would not do: the server does not      *)
(* acknowledge before the field that fills the window is complete, and     *)
(* the restart of the count forgets what was read before it.               *)
(***************************************************************************)
NeverStalls == ReasonableWindows /\ budget >= Enough => ~Stalled

(***************************************************************************)
(* A budget of one window and one field does, as long as the count does    *)
(* not restart: a stall then means that a restart has forgotten bytes, and *)
(* that no Ack came between.                                               *)
(***************************************************************************)
StallMeansRestart ==
  ReasonableWindows /\ Stalled /\ budget >= MaxWindow + MaxRead - 1
    => Forgotten > 0 /\ inLastAck = 0

(***************************************************************************)
(* With a sufficient budget the peer sends for ever.                       *)
(***************************************************************************)
KeepsFlowing == budget >= Enough => []<><<PeerSend>>_peerVars

(***************************************************************************)
(* The strengthening of NeverStalls.  Every outstanding byte is in flight, *)
(* read and not acknowledged, or covered by an Ack on its way; and until   *)
(* the first Ack the server has read nothing since the announcement, or    *)
(* has counted less than a window and forgotten one field at most.         *)
(***************************************************************************)
Accounted == outstanding <= inFlight + unacked + ackBytes

BeforeAcks ==
  ReasonableWindows /\ ~acked =>
    /\ ackBytes = 0 /\ inLastAck = 0
    /\ \/ outstanding = inFlight
       \/ inBytes < MaxWindow /\ outstanding <= inFlight + inBytes + MaxRead

PeerInv == PeerTypeOK /\ AckInv /\ Accounted /\ BeforeAcks

=============================================================================
