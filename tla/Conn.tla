------------------------------- MODULE Conn -------------------------------
(***************************************************************************)
(* A connection being served: Conn.serve, pumpMessage and what it calls    *)
(* (conn.go), and the dispatch of its messages by serverHandler            *)
(* (server.go).  One goroutine reads the peer's chunk stream field by      *)
(* field, each field with one readFull of AckWindow; a whole message is    *)
(* offered to the application's Handler, and to the built-in handlers when *)
(* the application declines it; these set the chunk size and the window,   *)
(* or write replies.                                                       *)
(*                                                                         *)
(* The peer is any RTMP peer.  It writes messages as the protocol allows:  *)
(* split into chunks of the size it has announced, with headers shortened  *)
(* (fmt 1, 2, 3) against the last ones of their chunk stream.  The wire is *)
(* the sequence of fields not yet read.  A cut loses any suffix of it.     *)
(***************************************************************************)
EXTENDS AckWindow, Sequences, SequencesExt

CONSTANTS
  DefaultReadChunkSize,  \* the chunk size both ends start with
  MaxHeaderSize,         \* room for a header in every chunk buffer
  MaxStreamsNum,         \* chunk streams a connection has
  HandshakeSizes,        \* bytes of C0C1 and of C2
  Msgs,       \* the messages a peer may send: [typo, len, arg]
  Csids,      \* the chunk streams it may send them on
  Fmts,       \* the header formats it may start a message with
  ExtTimes,   \* whether its timestamps may need the extended field
  Claims,     \* the types the application may claim with ServeDone
  AppErrors,  \* whether the application may return ServeError
  MaxMsgs,    \* bound on the messages sent
  MaxBacklog  \* bound on the messages sent and not yet read

\* Message types: the control messages that change this end, the other ones
\* with a built-in handler ("Quiet"), AMF0 commands, types below MessageMax
\* without a handler ("Unhandled"; 0 is "Zero"), and those from it on.
Types == {"SetChunkSize", "WinAckSize", "UserControl", "Quiet", "Amf0Cmd",
          "Zero", "Unhandled", "OutOfRange"}

ASSUME ConnAssumption ==
  /\ DefaultReadChunkSize \in Nat \ {0} /\ MaxHeaderSize \in Nat /\ MaxStreamsNum \in Nat
  /\ DefaultReadChunkSize + MaxHeaderSize < Word
  /\ Csids \subseteq Nat \ {0, 1} /\ Fmts \subseteq 0..3
  /\ ExtTimes \subseteq BOOLEAN /\ Claims \subseteq Types /\ AppErrors \in BOOLEAN
  /\ MaxMsgs \in Nat /\ MaxBacklog \in Nat

\* No field is longer than the longest buffer readFull is handed.
ASSUME FieldsAssumption ==
  /\ 4 <= MaxRead
  /\ \A i \in 1..2 : HandshakeSizes[i] \in ReadSizes

\* A chunk size is at least one, and the two sizes come in a body.
ASSUME MsgsAssumption ==
  \A m \in Msgs :
    /\ m = [typo |-> m.typo, len |-> m.len, arg |-> m.arg]
    /\ m.typo \in Types /\ m.len \in ReadSizes
    /\ m.len = 0 => m.arg = "none"
    /\ m.typo = "SetChunkSize" => m.len > 0 /\ m.arg \in Nat \ {0}
    /\ m.typo = "WinAckSize" => m.len > 0 /\ m.arg \in Windows

VARIABLES
  pc,         \* what serve() does next
  hdr,        \* the Header of pumpMessage, fresh for every message
  msg,        \* the message being served
  replies,    \* the replies its handler still has to write
  chunkSize,  \* Conn.chunkSize
  link,       \* "up" or "cut"
  wire,       \* fields on their way to this end
  out,        \* replies written
  peer,       \* the peer: its chunk size and its last header on each stream
  sent,       \* history: the messages the peer has sent
  seen,       \* history: the messages offered to the application
  refused     \* history: the application has returned ServeError

connVars == <<pc, hdr, msg, replies, chunkSize, link, wire, out, peer, sent, seen, refused>>
vars == <<ackVars, connVars>>

None == [typo |-> "Zero", len |-> 0, arg |-> "none"]
Up == link = "up"
Closed == {"ended", "panicked", "misread"}

-----------------------------------------------------------------------------
(* The peer *)

Field(f, n, v) == [f |-> f, n |-> n, v |-> v]

\* The basic header, whose first byte holds a chunk stream below 64.
BasicHeader(fmt, csid) ==
  <<Field("basic", 1, [fmt |-> fmt, csid |-> IF csid < 64 THEN csid ELSE IF csid < 320 THEN 0 ELSE 1])>>
  \o IF csid < 64 THEN << >> ELSE <<Field("csid", IF csid < 320 THEN 1 ELSE 2, csid)>>

MessageHeader(fmt, m, ext) ==
  (IF fmt <= 2 THEN <<Field("timestamp", 3, ext)>> ELSE << >>)
  \o (IF fmt <= 1 THEN <<Field("length", 4, m)>> ELSE << >>)
  \o (IF fmt = 0 THEN <<Field("msid", 4, 0)>> ELSE << >>)
  \o (IF ext THEN <<Field("extended", 4, 0)>> ELSE << >>)

\* The lengths of the chunks of a message of n bytes, cs bytes in each.
ChunkCount(n, cs) == IF n = 0 THEN 1 ELSE (n + cs - 1) \div cs
ChunkLen(n, cs, i) == IF i * cs <= n THEN cs ELSE n - (i - 1) * cs

Fields(m, fmt, csid, ext, cs) ==
  LET Body(i) == IF m.len = 0 THEN << >> ELSE <<Field("body", ChunkLen(m.len, cs, i), m)>>
      Chunk(i) == BasicHeader(IF i = 1 THEN fmt ELSE 3, csid)
                  \o MessageHeader(IF i = 1 THEN fmt ELSE 3, m, ext) \o Body(i)
  IN  FlattenSeq([i \in 1..ChunkCount(m.len, cs) |-> Chunk(i)])

\* A header may be shortened by what the last one of its stream already says.
Shortens(fmt, last, m, ext) ==
  /\ fmt >= 1 => last.known
  /\ fmt >= 2 => last.len = m.len /\ last.typo = m.typo
  /\ fmt = 3 => last.ext = ext

PeerSend ==
  /\ Up /\ pc \notin Closed
  /\ Len(sent) < MaxMsgs /\ Len(sent) - Len(seen) < MaxBacklog
  /\ \E m \in Msgs, csid \in Csids, fmt \in Fmts, ext \in ExtTimes :
       /\ Shortens(fmt, peer.last[csid], m, ext)
       /\ wire' = wire \o Fields(m, fmt, csid, ext, peer.chunkSize)
       /\ sent' = Append(sent, [m |-> m, fmt |-> fmt, csid |-> csid,
                                whole |-> m.len <= peer.chunkSize])
       /\ peer' = [chunkSize |-> IF m.typo = "SetChunkSize" THEN m.arg ELSE peer.chunkSize,
                   last |-> [peer.last EXCEPT ![csid] =
                     [known |-> TRUE, len |-> m.len, typo |-> m.typo, ext |-> ext]]]
  /\ UNCHANGED <<ackVars, pc, hdr, msg, replies, chunkSize, link, out, seen, refused>>

Cut ==
  /\ Up
  /\ link' = "cut"
  /\ \E n \in 0..Len(wire) : wire' = SubSeq(wire, 1, n)
  /\ UNCHANGED <<ackVars, pc, hdr, msg, replies, chunkSize, out, peer, sent, seen, refused>>

-----------------------------------------------------------------------------
(* Reading *)

NoHeader == [fmt |-> 0, csid |-> 0, ext |-> FALSE, mlen |-> 0, typo |-> "Zero"]

ConnInit ==
  /\ AckInit
  /\ pc = "challenge"
  /\ hdr = NoHeader /\ msg = None /\ replies = << >>
  /\ chunkSize = DefaultReadChunkSize
  /\ link = "up"
  /\ wire = [i \in 1..2 |-> Field("handshake", HandshakeSizes[i], 0)]
  /\ out = << >>
  /\ peer = [chunkSize |-> DefaultReadChunkSize,
             last |-> [c \in Csids |-> [known |-> FALSE, len |-> 0, typo |-> "Zero", ext |-> FALSE]]]
  /\ sent = << >> /\ seen = << >> /\ refused = FALSE

\* serve() returns.
End == pc' = "ended"

\* readFull of the next field, which this end takes to be an f of n bytes.
\* What it reads is that field, if it has not lost its place in the stream.
Reads(f, n) == wire # << >> /\ wire[1].f = f /\ wire[1].n = n
Consume(n) == ReadFull(n) /\ wire' = Tail(wire)

\* The Ack a read may have to write cannot be written.
AckFails(n) == ~Up /\ AckDue(n)

ReadingStates ==
  {"challenge", "response", "basic", "csid", "timestamp", "length", "msid", "extended", "body"}

\* min(stm.hdr.mlen - stm.len, chunk size): stm.len is always zero, for
\* pumpMessage works on a copy of the stream and never stores it.
Wanted == IF hdr.mlen < chunkSize THEN hdr.mlen ELSE chunkSize

\* pumpMessage slices out of range before it reads the body: the stream of a
\* csid it let pass, or a chunk whose buffer length wrapped (newChunk).
BodyPanics ==
  hdr.csid = MaxStreamsNum \/ (chunkSize + MaxHeaderSize) % Word < MaxHeaderSize + Wanted

\* The field each reading state takes next from the stream, and its length.
FieldAt(s) == IF s \in {"challenge", "response"} THEN "handshake" ELSE s

Needed(s) ==
  CASE s = "challenge" -> HandshakeSizes[1]
    [] s = "response"  -> HandshakeSizes[2]
    [] s = "basic"     -> 1
    [] s = "csid"      -> IF hdr.csid = 0 THEN 1 ELSE 2
    [] s = "timestamp" -> 3
    [] s \in {"length", "msid", "extended"} -> 4
    [] s = "body"      -> Wanted

Reading == pc \in ReadingStates /\ (pc = "body" => Wanted > 0 /\ ~BodyPanics)

\* io.ReadFull fails once the link is cut and what is left is too short.
readError ==
  /\ Reading /\ ~Up /\ wire = << >>
  /\ End
  /\ UNCHANGED <<ackVars, hdr, msg, replies, chunkSize, link, wire, out, peer, sent, seen, refused>>

\* The field is read but the Ack due cannot be written: readFull's other error.
ackError ==
  /\ Reading /\ Reads(FieldAt(pc), Needed(pc)) /\ AckFails(Needed(pc))
  /\ Consume(Needed(pc))
  /\ End
  /\ UNCHANGED <<hdr, msg, replies, chunkSize, link, out, peer, sent, seen, refused>>

\* This end takes for a field what is not one: from here on it reads noise.
misread ==
  /\ Reading /\ wire # << >> /\ ~Reads(FieldAt(pc), Needed(pc))
  /\ pc' = "misread"
  /\ UNCHANGED <<ackVars, hdr, msg, replies, chunkSize, link, wire, out, peer, sent, seen, refused>>

Read(s) == pc = s /\ Reading /\ Reads(FieldAt(s), Needed(s)) /\ Consume(Needed(s))
Go(next) == pc' = next

\* Module Handshake says when the challenge is refused, and when it panics.
handshake ==
  /\ \/ /\ Read("challenge")
        /\ \/ Go("response") /\ UNCHANGED refused
           \/ pc' \in {"ended", "panicked"} /\ refused' = TRUE
     \/ /\ Read("response")
        /\ pc' \in {"serveNew"} \cup (IF Up THEN {} ELSE {"ended"})
        /\ UNCHANGED refused
  /\ UNCHANGED <<hdr, msg, replies, chunkSize, link, out, peer, sent, seen>>

\* Where pumpMessage goes from a basic header: away, when the chunk stream is
\* above MaxStreamsNum; to the fields that fmt says follow; and for fmt 3 to
\* no field at all, not even an extended timestamp, for hdr starts out zero.
AfterBasic(h) ==
  IF h.csid > MaxStreamsNum THEN "ended" ELSE IF h.fmt <= 2 THEN "timestamp" ELSE "body"

\* Faulty variant: the extended timestamp is left on the stream.
AfterFixedShort(h) == "body"

AfterFixed(h) == IF h.ext THEN "extended" ELSE "body"

readBasicHeader ==
  /\ \/ /\ Read("basic")
        /\ hdr' = [NoHeader EXCEPT !.fmt = wire[1].v.fmt, !.csid = wire[1].v.csid]
        /\ Go(IF hdr'.csid \in {0, 1} THEN "csid" ELSE AfterBasic(hdr'))
     \/ /\ Read("csid")
        /\ hdr' = [hdr EXCEPT !.csid = wire[1].v]
        /\ Go(AfterBasic(hdr'))
  /\ UNCHANGED <<msg, replies, chunkSize, link, out, peer, sent, seen, refused>>

readChunkMessageHeader ==
  /\ \/ /\ Read("timestamp")
        /\ hdr' = [hdr EXCEPT !.ext = wire[1].v]
        /\ Go(IF hdr.fmt <= 1 THEN "length" ELSE AfterFixed(hdr'))
     \/ /\ Read("length")
        /\ hdr' = [hdr EXCEPT !.mlen = wire[1].v.len, !.typo = wire[1].v.typo]
        /\ Go(IF hdr.fmt = 0 THEN "msid" ELSE AfterFixed(hdr))
     \/ Read("msid") /\ Go(AfterFixed(hdr)) /\ UNCHANGED hdr
     \/ Read("extended") /\ Go("body") /\ UNCHANGED hdr
  /\ UNCHANGED <<msg, replies, chunkSize, link, out, peer, sent, seen, refused>>

\* Faulty variant: the first chunk is taken for the message.
DeliverEarly(arg) ==
  IF hdr.typo # "OutOfRange"
  THEN /\ msg' = [typo |-> hdr.typo, len |-> hdr.mlen, arg |-> arg]
       /\ seen' = Append(seen, msg')
       /\ Go("message")
  ELSE End /\ UNCHANGED <<msg, seen>>

\* The message is whole only if this one chunk holds all of it.
Deliver(arg) ==
  IF Wanted = hdr.mlen /\ hdr.typo # "OutOfRange"
  THEN /\ msg' = [typo |-> hdr.typo, len |-> hdr.mlen, arg |-> arg]
       /\ seen' = Append(seen, msg')
       /\ Go("message")
  ELSE End /\ UNCHANGED <<msg, seen>>

pumpMessage ==
  /\ pc = "body"
  /\ \/ /\ BodyPanics
        /\ Go("panicked") /\ UNCHANGED <<ackVars, wire, msg, seen>>
     \/ /\ ~BodyPanics /\ Wanted = 0
        /\ ReadFull(0) /\ UNCHANGED wire   \* never makes an Ack due
        /\ Deliver("none")
     \/ /\ Read("body")
        /\ Deliver(wire[1].v.arg)
  /\ UNCHANGED <<hdr, replies, chunkSize, link, out, peer, sent, refused>>

-----------------------------------------------------------------------------
(* Serving *)

AppError == AppErrors /\ End /\ refused' = TRUE

serveNew ==
  /\ pc = "serveNew"
  /\ (Go("basic") /\ UNCHANGED refused) \/ AppError
  /\ UNCHANGED <<ackVars, hdr, msg, replies, chunkSize, link, wire, out, peer, sent, seen>>

\* Faulty variant: the size is read and not stored.
serveSetChunkSizeDeaf == Go("basic") /\ UNCHANGED <<ackVars, chunkSize>>

serveSetChunkSize == chunkSize' = msg.arg /\ Go("basic") /\ UNCHANGED ackVars

\* Faulty variant: a new window also forgets what was not acknowledged.
serveWinAckSizeAfresh ==
  /\ ackWinSize' = msg.arg /\ inLastAck' = inBytes
  /\ Go("basic") /\ UNCHANGED <<inBytes, unacked, acked, chunkSize>>

serveWinAckSize == ServeWinAckSize(msg.arg) /\ Go("basic") /\ UNCHANGED chunkSize

serveAmf0Cmd ==
  /\ Go(IF msg.arg = "malformed" THEN "basic" ELSE "command")
  /\ UNCHANGED <<ackVars, chunkSize>>

\* The application declined: the built-in handler of the type.  What that
\* handler returns is dropped (server.go:104).
Builtin(typo) ==
  \/ /\ typo \in {"Zero", "Unhandled"}
     /\ End /\ UNCHANGED <<ackVars, chunkSize>>
  \/ typo = "SetChunkSize" /\ serveSetChunkSize
  \/ typo = "WinAckSize" /\ serveWinAckSize
  \/ /\ typo = "Quiet"
     /\ Go("basic") /\ UNCHANGED <<ackVars, chunkSize>>
  \/ /\ typo = "UserControl"
     /\ Go("user") /\ UNCHANGED <<ackVars, chunkSize>>
  \/ typo = "Amf0Cmd" /\ serveAmf0Cmd

serveMessage ==
  /\ pc = "message"
  /\ \/ msg.typo \in Claims /\ Go("basic") /\ UNCHANGED <<ackVars, chunkSize, refused>>
     \/ AppError /\ UNCHANGED <<ackVars, chunkSize>>
     \/ Builtin(msg.typo) /\ UNCHANGED refused
  /\ UNCHANGED <<hdr, msg, replies, link, wire, out, peer, sent, seen>>

\* The built-in handlers of user events decode an event and log it.
serveUserEvent == Go("basic")

\* The application's, or the built-in one's; the error of either, and of an
\* event without a handler, is dropped.
serveUserMessage ==
  /\ pc = "user"
  /\ serveUserEvent
  /\ UNCHANGED <<ackVars, hdr, msg, replies, chunkSize, link, wire, out, peer, sent, seen, refused>>

\* Faulty variant: connect announces the chunk size after its result.
RepliesLate(command) ==
  IF command = "connect"
  THEN <<"WindowAckSize", "SetPeerBandwidth", "onBWDone", "connectResult", "SetChunkSize">>
  ELSE << >>

\* What the built-in handler of a command writes, once its arguments decode.
Replies(command) ==
  CASE command = "connect" ->
         <<"WindowAckSize", "SetPeerBandwidth", "SetChunkSize", "onBWDone", "connectResult">>
    [] command = "releaseStream" -> <<"releaseStreamResult">>
    [] command = "createStream" -> <<"createStreamResult">>
    [] command = "FCPublish" -> <<"onFCPublish", "FCPublishResult">>
    [] OTHER -> << >>

\* Faulty variant: a command without a reply is dispatched again.
serveCommandAgain ==
  /\ pc = "command"
  /\ \/ Go("message") /\ UNCHANGED replies
     \/ /\ Replies(msg.arg) # << >>
        /\ replies' = Replies(msg.arg)
        /\ Go("reply")
  /\ UNCHANGED <<ackVars, hdr, msg, chunkSize, link, wire, out, peer, sent, seen, refused>>

\* The commands about a stream being played decode their arguments, which
\* are logged, and nothing else.
serveLogged == Go("basic") /\ UNCHANGED replies

\* The application takes the command or refuses it, the error being dropped,
\* or the handler cannot decode its arguments: all this is as if the command
\* were only logged.  Or it replies.
serveCommand ==
  /\ pc = "command"
  /\ \/ serveLogged
     \/ /\ Replies(msg.arg) # << >>
        /\ replies' = Replies(msg.arg)
        /\ Go("reply")
  /\ UNCHANGED <<ackVars, hdr, msg, chunkSize, link, wire, out, peer, sent, seen, refused>>

\* Faulty variant: only the first reply is written.
sendReplyOnce ==
  /\ pc = "reply"
  /\ out' = Append(out, Head(replies))
  /\ replies' = Tail(replies)
  /\ Go("basic")
  /\ UNCHANGED <<ackVars, hdr, msg, chunkSize, link, wire, peer, sent, seen, refused>>

\* One reply: written, or lost in the cut link without an error, or the
\* handler returns the error of the write and the rest is not written.
sendReply ==
  /\ pc = "reply"
  /\ \/ /\ out' = Append(out, Head(replies))
        /\ replies' = Tail(replies)
        /\ Go(IF replies' = << >> THEN "basic" ELSE "reply")
     \/ /\ ~Up
        /\ replies' = << >>
        /\ Go("basic") /\ UNCHANGED out
  /\ UNCHANGED <<ackVars, hdr, msg, chunkSize, link, wire, peer, sent, seen, refused>>

-----------------------------------------------------------------------------

\* The goroutine of serve().
serve ==
  \/ handshake \/ serveNew
  \/ readBasicHeader \/ readChunkMessageHeader \/ pumpMessage
  \/ readError \/ ackError \/ misread
  \/ serveMessage \/ serveUserMessage \/ serveCommand \/ sendReply

ConnNext == serve \/ PeerSend \/ Cut

ConnSpec == ConnInit /\ [][ConnNext]_vars

\* The goroutine goes on unless it waits for bytes.  The peer owes nothing.
FairConnSpec == ConnSpec /\ WF_vars(serve)

-----------------------------------------------------------------------------
(* Properties *)

ConnTypeOK ==
  /\ AckTypeOK
  /\ pc \in ReadingStates \cup Closed \cup {"serveNew", "message", "user", "command", "reply"}
  /\ hdr.fmt \in 0..3 /\ hdr.csid \in Nat /\ hdr.mlen \in Nat /\ hdr.typo \in Types
  /\ msg.typo \in Types /\ msg.len \in Nat
  /\ chunkSize \in Nat /\ link \in {"up", "cut"} /\ refused \in BOOLEAN
  /\ (replies # << >>) <=> (pc = "reply")

(***************************************************************************)
(* The application leaves alone what keeps the two ends in step: the chunk *)
(* size, and messages without a type.                                      *)
(***************************************************************************)
Cooperative == Claims \cap {"SetChunkSize", "Zero"} = {}

(***************************************************************************)
(* The connection follows its peer or gives up, but never takes one thing  *)
(* for another: what the application is offered is what the peer sent, in  *)
(* order, with nothing skipped.  A header the code cannot follow shows     *)
(* at most once, as an empty message without a type, and ends the          *)
(* connection.  Every chunk size the peer announces has to take effect     *)
(* before the next chunk is cut.                                           *)
(***************************************************************************)
Ghost(i) ==
  /\ i = Len(seen) /\ pc \in {"message", "ended"}
  /\ seen[i] = None /\ sent[i].fmt >= 2

FollowsPeer ==
  Cooperative =>
    /\ pc # "misread"
    /\ Len(seen) <= Len(sent)
    /\ \A i \in 1..Len(seen) : seen[i] = sent[i].m \/ Ghost(i)

(***************************************************************************)
(* Between two messages, with nothing on the wire, both ends cut and read  *)
(* chunks of the same size.                                                *)
(***************************************************************************)
ChunkSizeAgreed ==
  Cooperative /\ Up /\ pc = "basic" /\ wire = << >> => chunkSize = peer.chunkSize

(***************************************************************************)
(* What the code can follow: one chunk, a full header or one without the   *)
(* message stream, a chunk stream it has, and a type it has a handler for. *)
(* A peer that sends nothing else is not dropped while the link is up,     *)
(* unless the application or the handshake refuses it.                     *)
(***************************************************************************)
Followable(s) ==
  /\ s.whole /\ s.fmt <= 1 /\ s.csid < MaxStreamsNum
  /\ s.m.typo \notin {"Zero", "Unhandled", "OutOfRange"}
  /\ s.m.typo = "SetChunkSize" => s.m.arg + MaxHeaderSize < Word

NotDroppedForNothing ==
  Cooperative /\ Up /\ ~refused /\ pc \in Closed =>
    \E i \in 1..Len(sent) : ~Followable(sent[i])

(***************************************************************************)
(* No reply is longer than the chunks the peer reads at that point: the    *)
(* result of connect, some 195 bytes in a single chunk, comes only after   *)
(* the larger chunk size has been announced, whatever writes fail and      *)
(* whatever the order of the commands.                                     *)
(***************************************************************************)
LongReplies == {"connectResult"}

RepliesFit ==
  \A i \in 1..Len(out) : out[i] \in LongReplies =>
    \E j \in 1..(i - 1) : out[j] = "SetChunkSize"

(***************************************************************************)
(* Every message the peer sends is offered to the application in the end,  *)
(* unless the connection is given up or the link is cut.                   *)
(***************************************************************************)
ServesEverything ==
  \A i \in 1..MaxMsgs : Len(sent) >= i ~> Len(seen) >= i \/ pc \in Closed \/ ~Up

(***************************************************************************)
(* conn.go:386 "copy temp header to chunk stream header": the header of a  *)
(* chunk stream is kept, so that a message whose header is shortened is    *)
(* the message its peer sent.                                              *)
(***************************************************************************)
HeadersRemembered ==
  \A i \in 1..Len(seen) : seen[i] = sent[i].m
===========================================================================
