------------------------------ MODULE MCConn ------------------------------
(* TLC instances of Conn.  Sizes are scaled: a chunk is 4 bytes to start    *)
(* with, the least that holds a control message.                            *)
EXTENDS Conn

M(typo, len, arg) == [typo |-> typo, len |-> len, arg |-> arg]

ShortQuiet == M("Quiet", 1, "none")
LongQuiet  == M("Quiet", 6, "none")
EmptyQuiet == M("Quiet", 0, "none")
Wider      == M("SetChunkSize", 4, 8)
Narrower   == M("SetChunkSize", 4, 2)
Huge       == M("SetChunkSize", 4, 60)
Window     == M("WinAckSize", 4, 6)
Cmd(name)  == M("Amf0Cmd", 3, name)

\* What moves the two ends out of step: chunk sizes, lengths, the types.
StreamMsgs == {ShortQuiet, LongQuiet, Wider, Narrower, Window, M("Zero", 1, "none")}

\* One of each kind of message, for every form of basic header.
KindMsgs == {ShortQuiet, EmptyQuiet, Huge, LongQuiet, M("UserControl", 2, "none"),
             M("Unhandled", 1, "none"), M("OutOfRange", 1, "none")}

\* Commands and their replies.
CommandMsgs == {Cmd("connect"), Cmd("releaseStream"), Cmd("createStream"),
                Cmd("FCPublish"), Cmd("play"), Cmd("malformed"), Wider}

AllMsgs == StreamMsgs \cup KindMsgs \cup CommandMsgs

(***************************************************************************)
(* A connection brings three messages that move the ends out of step, or   *)
(* two of any kind with any header, or two commands.                       *)
(***************************************************************************)
OnlyStream(msgs) ==
  /\ \A i \in DOMAIN sent : sent[i].csid = 3 /\ sent[i].m \in msgs
  /\ ~peer.last[3].ext

Scenario ==
  \/ OnlyStream(StreamMsgs)
  \/ OnlyStream(CommandMsgs) /\ Len(sent) <= 2
  \/ /\ Len(sent) <= 2 /\ Len(sent) <= Len(seen) + 1
     /\ \A i \in DOMAIN sent : sent[i].m \in KindMsgs

MCConnSpec == ConnInit /\ [][ConnNext /\ Scenario']_vars /\ WF_vars(serve)

\* What the code can follow, and what it can never finish.
PlainMsgs == {ShortQuiet, LongQuiet, Wider, Window, Cmd("connect")}

Sizes44 == <<4, 4>>
Both == BOOLEAN
Never == {FALSE}
CooperativeClaims == {"Quiet", "WinAckSize", "Amf0Cmd", "Unhandled"}
===========================================================================
