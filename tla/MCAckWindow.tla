--------------------------- MODULE MCAckWindow ---------------------------
(* TLC instance of AckWindow: the word, the restart and the windows are     *)
(* scaled down so that a behaviour runs the counter round several times.    *)
EXTENDS AckWindow

CONSTANT MaxUnacked   \* bound on the history variable unacked

\* Before the first Ack nothing bounds unacked but this.
MCAckNext == AckNext /\ unacked' <= MaxUnacked

MCAckSpec == AckInit /\ [][MCAckNext]_ackVars
==========================================================================
