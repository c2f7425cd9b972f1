----------------------------- MODULE AckWindow -----------------------------
(***************************************************************************)
(* The acknowledgement window of a connection: the three uint32 fields     *)
(* inBytes, inLastAck and ackWinSize of Conn, and readFull, the one        *)
(* function through which every byte of a connection is read               *)
(* (conn.go:214).  After each complete read it counts the bytes, restarts  *)
(* the count when it nears the end of the word, and sends an Ack message   *)
(* when the peer's window is used up.                                      *)
(*                                                                         *)
(* What a peer relies on is the number of bytes it has sent that no Ack    *)
(* covers.  The code does not keep that number; the history variable       *)
(* unacked does, and the properties relate the two.                        *)
(***************************************************************************)
EXTENDS Integers

CONSTANTS
  Word,       \* one more than the largest uint32
  ResetAt,    \* the count at which readFull restarts counting, 0xf0000000
  MaxRead,    \* the longest buffer handed to readFull
  MaxWindow,  \* the largest window in Windows
  Windows     \* the windows a peer may announce

ASSUME WordAssumption ==
  /\ Word \in Nat /\ ResetAt \in Nat \ {0} /\ MaxRead \in Nat
  /\ ResetAt + MaxRead <= Word

ASSUME WindowsAssumption ==
  /\ MaxWindow \in Nat /\ MaxWindow < Word
  /\ Windows \subseteq 0..MaxWindow

VARIABLES
  inBytes,     \* bytes read since the last restart of the count
  inLastAck,   \* the value of inBytes when the last Ack was sent
  ackWinSize,  \* the window the peer announced, 0 before it does
  unacked,     \* history: bytes read since the last Ack, not restarted
  acked        \* history: the Acks of this connection have begun

ackVars == <<inBytes, inLastAck, ackWinSize, unacked, acked>>

ReadSizes == 0..MaxRead

-----------------------------------------------------------------------------

\* newConn leaves the counters and the window zero.
AckInit ==
  /\ inBytes = 0
  /\ inLastAck = 0
  /\ ackWinSize = 0
  /\ unacked = 0
  /\ acked = FALSE

\* uint32 arithmetic.
Add32(a, b) == (a + b) % Word
Sub32(a, b) == (a - b) % Word

\* Faulty variant: the count never restarts.
CountedOn(n) == Add32(inBytes, n)

\* The count after n more bytes, and the mark it is compared with: both
\* restart from zero when the count nears the end of the word.
Counted(n) == IF Add32(inBytes, n) >= ResetAt THEN 0 ELSE Add32(inBytes, n)
Marked(n)  == IF Add32(inBytes, n) >= ResetAt THEN 0 ELSE inLastAck

\* Faulty variant: the Ack comes a byte late.
AckDueLate(n) == ackWinSize > 0 /\ Sub32(Counted(n), Marked(n)) > ackWinSize

\* The peer has announced a window and the bytes counted since the mark
\* fill it.
AckDue(n) == ackWinSize > 0 /\ Sub32(Counted(n), Marked(n)) >= ackWinSize

\* Faulty variant: the Ack is decided and the mark moved before the restart.
ReadFullSwapped(n) ==
  LET due == ackWinSize > 0 /\ Sub32(Add32(inBytes, n), inLastAck) >= ackWinSize
  IN  /\ inBytes' = Counted(n)
      /\ inLastAck' = IF due THEN Add32(inBytes, n) ELSE Marked(n)
      /\ unacked' = IF due THEN 0 ELSE unacked + n
      /\ acked' = (acked \/ due)
      /\ UNCHANGED ackWinSize

\* Faulty variant: the mark does not move with the Ack.
ReadFullUnmarked(n) ==
  /\ inBytes' = Counted(n)
  /\ inLastAck' = Marked(n)
  /\ unacked' = IF AckDue(n) THEN 0 ELSE unacked + n
  /\ acked' = (acked \/ AckDue(n))
  /\ UNCHANGED ackWinSize

(***************************************************************************)
(* A complete read of n bytes.  An incomplete one returns its error before *)
(* any counter changes, and ends the connection: the modules that use      *)
(* ReadFull model that.  The mark moves before the Ack is written, so a    *)
(* failed write leaves the counters as this action does.                   *)
(***************************************************************************)
ReadFull(n) ==
  /\ inBytes' = Counted(n)
  /\ inLastAck' = IF AckDue(n) THEN Counted(n) ELSE Marked(n)
  /\ unacked' = IF AckDue(n) THEN 0 ELSE unacked + n
  /\ acked' = (acked \/ AckDue(n))
  /\ UNCHANGED ackWinSize

\* serveWinAckSize: the peer's Window Acknowledgement Size message.
ServeWinAckSize(win) ==
  /\ ackWinSize' = win
  /\ UNCHANGED <<inBytes, inLastAck, unacked, acked>>

AckNext ==
  \/ \E n \in ReadSizes : ReadFull(n)
  \/ \E win \in Windows : ServeWinAckSize(win)

AckSpec == AckInit /\ [][AckNext]_ackVars

-----------------------------------------------------------------------------

AckTypeOK ==
  /\ inBytes \in 0..(ResetAt - 1)
  /\ inLastAck \in 0..(ResetAt - 1)
  /\ ackWinSize \in 0..MaxWindow
  /\ unacked \in Nat
  /\ acked \in BOOLEAN

(***************************************************************************)
(* The mark never passes the count, so that inBytes - inLastAck, a uint32  *)
(* subtraction, never wraps to a huge number and sends an Ack on every     *)
(* read; it has to survive every restart of the count (conn.go:222).       *)
(***************************************************************************)
MarkBehindCount == inLastAck <= inBytes

(***************************************************************************)
(* The bytes the code believes unacknowledged are never more than those    *)
(* that are: the code may acknowledge late, never a byte twice.            *)
(***************************************************************************)
NeverOvercounted == inBytes - inLastAck <= unacked

(***************************************************************************)
(* What the windows must satisfy for the bound below: the peer does not    *)
(* switch acknowledgements off, and the count cannot step over the window  *)
(* straight into a restart.                                                *)
(***************************************************************************)
ReasonableWindows == 0 \notin Windows /\ MaxWindow + MaxRead <= ResetAt

(***************************************************************************)
(* Once acknowledgements have begun, a peer never has more than two        *)
(* windows and one read outstanding (the bound is exact: TLC reaches it).  *)
(* One window is what the protocol asks; the second is the price of the    *)
(* restart, which forgets the bytes counted since the last Ack             *)
(* (conn.go:224-225), and the read is the one that crosses the restart.    *)
(* It takes a whole run of the counter, and changes of the peer's window   *)
(* within it, to violate this.                                             *)
(***************************************************************************)
OutstandingBounded ==
  ReasonableWindows /\ acked => unacked <= 2 * MaxWindow + MaxRead - 2

(***************************************************************************)
(* The strengthening that makes OutstandingBounded inductive.  Once        *)
(* acknowledgements have begun the count since the mark stays below the    *)
(* largest window; and whatever a restart forgot is smaller than one       *)
(* window and one read, and is forgotten for good by the next Ack of the   *)
(* same run of the counter, that is, as soon as the mark leaves zero.      *)
(***************************************************************************)
Forgotten == unacked - (inBytes - inLastAck)

WindowInv ==
  ReasonableWindows /\ acked =>
    /\ ackWinSize > 0
    /\ inBytes - inLastAck < MaxWindow
    /\ Forgotten < MaxWindow + MaxRead
    /\ inLastAck > 0 => Forgotten = 0

AckInv == AckTypeOK /\ MarkBehindCount /\ NeverOvercounted /\ WindowInv

=============================================================================
