--------------------------- MODULE MessageWriter ---------------------------
(***************************************************************************)
(* Writing a message (message.go: alloc, Write, prepare and Send; the Send *)
(* methods of conn.go): the chunks for it are allocated, the body is       *)
(* written into them, prepare puts the header in front, and Send writes    *)
(* chunk after chunk to the connection.                                    *)
(*                                                                         *)
(* A header is a record of its fields here, its bytes are counted.  All    *)
(* callers in src/ give prepare no header to shorten this one against: it  *)
(* is a full one, of format 0.  The reader at the other end goes by the    *)
(* rules of conn.go, which has nothing of an earlier header either.        *)
(***************************************************************************)
EXTENDS Chunks

CONSTANTS
  DefaultSendChunkSize,
  MaxStreamsNum,
  Word,        \* timestamps are below this
  Escape,      \* 0xffffff, the timestamp that stands for an extended one
  Lengths,     \* the lengths of messages sent
  Headers,     \* their headers
  MaxMsgs      \* bound on the number of messages

ASSUME WriterAssumption ==
  /\ DefaultSendChunkSize \in Nat \ {0} /\ MaxStreamsNum \in Nat
  /\ Word \in Nat \ {0} /\ Escape \in Nat \ {0} /\ Lengths \subseteq Nat
  /\ MaxMsgs \in Nat

\* The longest header: 12 bytes, 4 more of time and 2 of the chunk stream, as
\* MaxHeaderSize of conn.go adds them up.
ASSUME RoomAssumption == MaxHeaderSize \in Nat /\ MaxHeaderSize >= 18

\* What NewHeader is called with: the chunk streams 2 and 3 in src/, and whatever
\* else the reader at the other end may have a place for.
ASSUME HeadersAssumption ==
  Headers \subseteq [csid : 2..MaxStreamsNum, timestamp : 0..(Word - 1), mlen : Nat,
                    typo : STRING, msid : Nat]

VARIABLES
  phase,   \* idle, filling, ready, or failed
  hdr,     \* header of the message, whose body has length mlen
  put,     \* how much of it is written
  offs,    \* the chunk that is sent next
  header,  \* the header in front of it
  wire,    \* what went to the connection
  sent     \* number of messages sent

writerVars == <<phase, hdr, mlen, put, cl, offs, header, wire, sent>>

NoHeader == [csid |-> 0, timestamp |-> 0, mlen |-> 0, typo |-> "none", msid |-> 0]
NoChunkHeader == [timestamp |-> 0, mlen |-> 0, typo |-> "none", msid |-> 0, ext |-> 0]

\* The i-th byte of a header, and of that of a following chunk.
HeaderByte(i) == <<"header", i>>
FollowingByte(i) == <<"following", i>>

WriterInit ==
  /\ phase = "idle" /\ hdr = NoHeader /\ mlen = 0 /\ put = 0
  /\ cl = newChunkList(<< >>) /\ offs = 0 /\ header = NoChunkHeader /\ wire = << >>
  /\ sent = 0

\* NewMessage and alloc(n): a chunk more than n fills.
alloc(h, n) ==
  /\ phase = "idle" /\ sent < MaxMsgs
  /\ cl' = newChunkList([i \in 1..(n \div DefaultSendChunkSize + 1) |-> newChunk(DefaultSendChunkSize)])
  /\ phase' = "filling" /\ hdr' = h /\ mlen' = n /\ put' = 0 /\ offs' = 0 /\ wire' = << >>
  /\ UNCHANGED <<header, sent>>

\* Some of the body; a single byte goes the way of WriteByte.
Write(k) ==
  LET w == WriteList(cl, [j \in 1..k |-> Data(put + j)])
  IN  /\ phase = "filling" /\ put + k <= mlen
      /\ cl' = w.cl /\ put' = put + w.n
      /\ UNCHANGED <<phase, hdr, mlen, offs, header, wire, sent>>

-----------------------------------------------------------------------------
(* prepare *)

BasicSize(csid) == IF csid < 64 THEN 1 ELSE IF csid < 320 THEN 2 ELSE 3

\* Faulty variant: the escape itself is sent as a time.
ExtendedAbove(t) == t > Escape

\* The time is one that three bytes cannot carry, or stands for such a one.
Extended(t) == t >= Escape

\* Faulty variant: no room for the extended timestamp.
HeaderSizeShort(csid, extended) == 12 + BasicSize(csid) - 1

\* hsize, the room for the header.
HeaderSize(csid, extended) == 12 + (IF extended THEN 4 ELSE 0) + BasicSize(csid) - 1

\* What is in it.
HeaderFields(h, size) ==
  [timestamp |-> IF Extended(h.timestamp) THEN Escape ELSE h.timestamp,
   mlen |-> size, typo |-> h.typo, msid |-> h.msid,
   ext |-> IF Extended(h.timestamp) THEN h.timestamp ELSE 0]

\* The header's bytes in the first chunk, where reset has made room.
Headed(ck, size) ==
  LET r == reset(ck, size)
  IN  [r EXCEPT !.buf = [c \in DOMAIN @ |->
         IF c \in r.head..(r.head + size - 1) THEN HeaderByte(c - r.head) ELSE @[c]]]

\* A chunk after those written gets the basic header alone.
Followed(ck, size) ==
  LET r == reset(ck, size)
  IN  [r EXCEPT !.buf = [c \in DOMAIN @ |->
         IF c \in r.head..(r.head + size - 1) THEN FollowingByte(c - r.head) ELSE @[c]]]

\* prepare: its error, for a chunk stream too big, is ignored by the callers.
prepare ==
  /\ phase = "filling" /\ put = mlen
  /\ phase' = "ready"
  /\ IF hdr.csid > MaxStreamsNum
     THEN UNCHANGED <<cl, header>>
     ELSE /\ header' = HeaderFields(hdr, Size(cl))
          /\ cl' = [cl EXCEPT !.chs = [i \in DOMAIN @ |->
               IF i = 1 THEN Headed(@[i], HeaderSize(hdr.csid, Extended(hdr.timestamp)))
               ELSE IF i > cl.offw + 1 THEN Followed(@[i], BasicSize(hdr.csid))
               ELSE @[i]]]
  /\ UNCHANGED <<hdr, mlen, put, offs, wire, sent>>

-----------------------------------------------------------------------------
(* Send *)

\* The bytes of chunk i that Send has to write.
ToSend(i) ==
  LET ck == cl.chs[i + 1]
  IN  [j \in 1..(ck.offw - ck.offs) |-> ck.buf[ck.offs + j - 1]]

\* Chunk.Send: the connection takes the chunk, or a part of it and fails.
SendChunk(n) ==
  /\ phase = "ready" /\ offs <= cl.offw /\ n <= Len(ToSend(offs))
  /\ wire' = wire \o SubSeq(ToSend(offs), 1, n)
  /\ IF n = Len(ToSend(offs))
     THEN offs' = offs + 1 /\ UNCHANGED phase
     ELSE phase' = "failed" /\ UNCHANGED offs
  /\ UNCHANGED <<hdr, mlen, put, cl, header, sent>>

\* All chunks are sent.
Sent ==
  /\ phase = "ready" /\ offs > cl.offw
  /\ phase' = "idle" /\ sent' = sent + 1
  /\ UNCHANGED <<hdr, mlen, put, cl, offs, header, wire>>

WriterNext ==
  \/ \E h \in Headers, n \in Lengths : alloc(h, n)
  \/ \E k \in 1..mlen : Write(k)
  \/ prepare
  \/ \E n \in 0..(DefaultSendChunkSize + MaxHeaderSize) : SendChunk(n)
  \/ Sent

WriterSpec == WriterInit /\ [][WriterNext]_writerVars

-----------------------------------------------------------------------------
(* The reader at the other end *)

\* How many bytes it takes for the header h of chunk stream csid.
BytesRead(h, csid) == BasicSize(csid) + 11 + (IF h.timestamp = Escape THEN 4 ELSE 0)

\* What it makes of that header, of which nothing is left out.
Understood(h, csid) ==
  [csid |-> csid, timestamp |-> IF h.timestamp = Escape THEN h.ext ELSE h.timestamp,
   mlen |-> h.mlen, typo |-> h.typo, msid |-> h.msid]

-----------------------------------------------------------------------------
(* Properties *)

\* A message in one chunk, as it is read.
OneChunk ==
  [i \in 1..BytesRead(header, hdr.csid) |-> HeaderByte(i - 1)] \o [i \in 1..mlen |-> Data(i)]

(***************************************************************************)
(* What goes to the connection is at any moment a part, and in the end the *)
(* whole, of one chunk: as many header bytes as the reader takes by its    *)
(* own rules (conn.go:310-346), and then the body, however it was written  *)
(* and wherever the connection fails.  Messages that fill a chunk, which   *)
(* nothing in src/ sends, are left out: no chunk of theirs after the first *)
(* gets a header (message.go:510-512), and Size is wrong (message.go:317). *)
(***************************************************************************)
Short == mlen < DefaultSendChunkSize

WireIsChunk ==
  /\ Short /\ phase \in {"ready", "failed"} => IsPrefix(wire, OneChunk)
  /\ Short /\ phase = "idle" /\ sent > 0 => wire = OneChunk

(***************************************************************************)
(* The reader makes of the header what the writer meant (message.go:443-   *)
(* 508, conn.go:310-395): type, stream and time, of times on both sides of *)
(* the escape, in which what is written into the room for the header has   *)
(* to be what is looked for; and the length, which is counted from the     *)
(* chunks (Size) and not from what was written, if that is Short.          *)
(***************************************************************************)
HeadersUnderstood ==
  phase \in {"ready", "failed"} \/ (phase = "idle" /\ sent > 0) =>
    LET read == Understood(header, hdr.csid)
    IN  /\ read = [hdr EXCEPT !.mlen = read.mlen]
        /\ Short => read.mlen = mlen
=============================================================================
