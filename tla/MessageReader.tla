--------------------------- MODULE MessageReader ---------------------------
(***************************************************************************)
(* Reading a message (message.go: Message.Read and what is built on it).   *)
(* pumpMessage appends chunks to it, each a new buffer for the chunk size  *)
(* with the bytes of the message in its front; the handlers then read      *)
(* numbers and AMF values from it.                                         *)
(***************************************************************************)
EXTENDS Chunks

CONSTANTS
  ChunkSizes,  \* the chunk sizes in force when the message comes
  MaxLen,      \* bound on the length of a message
  Requests     \* how many bytes a decoder asks for at a time

ASSUME ReaderAssumption ==
  /\ MaxHeaderSize \in Nat /\ MaxLen \in Nat
  /\ ChunkSizes \subseteq Nat \ {0} /\ Requests \subseteq Nat

VARIABLES
  got,    \* the bytes read so far
  last    \* the last request, how many bytes it got, and its error

readerVars == <<mlen, cl, got, last>>

\* Faulty variant: the buffer holds bytes of the message it was used for before.
newChunkUsed(cs) ==
  [buf |-> [c \in 0..(cs + MaxHeaderSize - 1) |-> <<"old", 0>>], len |-> cs + MaxHeaderSize,
   offr |-> MaxHeaderSize, offw |-> MaxHeaderSize, head |-> MaxHeaderSize, offs |-> MaxHeaderSize]

\* The chunk pool makes a chunk for every one asked for; none is put back.
chunkPool(cs) == newChunk(cs)

\* readFull into ck.Bytes(n): the next n bytes of the body, after the first from.
Filled(cs, from, n) ==
  [chunkPool(cs) EXCEPT !.buf = [c \in DOMAIN @ |->
     IF c \in MaxHeaderSize..(MaxHeaderSize + n - 1) THEN Data(from + c - MaxHeaderSize + 1) ELSE @[c]]]

\* A message of n bytes in chunks of at most cs.
Received(cs, n) ==
  LET full == n \div cs
      rest == IF n % cs > 0 \/ n = 0 THEN <<Filled(cs, full * cs, n % cs)>> ELSE << >>
  IN  newChunkList([i \in 1..full |-> Filled(cs, (i - 1) * cs, cs)] \o rest)

ReaderInit ==
  \E cs \in ChunkSizes, n \in 0..MaxLen :
    /\ mlen = n /\ cl = Received(cs, n)
    /\ got = << >> /\ last = [k |-> 0, n |-> 0, err |-> "nil"]

Read(k) ==
  LET r == ReadList(cl, k)
  IN  /\ cl' = r.cl /\ got' = got \o r.p
      /\ last' = [k |-> k, n |-> r.n, err |-> r.err]
      /\ UNCHANGED mlen

ReadByte == Read(1)

\* binary.Read, which takes what one Read gives and fails when that is short.
ReadUint32 == Read(4)
ReadUint16 == Read(2)
ReadUint8 == ReadByte

ReaderNext == ReadUint32 \/ ReadUint16 \/ ReadUint8 \/ \E k \in Requests : Read(k)

\* A read that finds nothing changes nothing.
ReaderSpec == ReaderInit /\ [][ReaderNext]_readerVars

-----------------------------------------------------------------------------

(***************************************************************************)
(* Whatever the sizes of the reads, and wherever the chunks end            *)
(* (message.go:247-261), the handlers read the bytes of the message in     *)
(* order, each once.  What they read beyond them is zero: the room of a    *)
(* new chunk (conn.go:154), and never bytes of an earlier message.         *)
(***************************************************************************)
ReadsMessageThenZeros ==
  \A j \in 1..Len(got) : got[j] = IF j <= mlen THEN Data(j) ELSE Zero

(***************************************************************************)
(* No read that asks for something fails while bytes of the message are    *)
(* left, and a read that gets less than it asked for says so.              *)
(***************************************************************************)
FailsOnlyAtEnd ==
  /\ last.k > 0 /\ last.err = "EOF" => Len(got) >= mlen
  /\ last.n < last.k => last.err = "EOF"
=============================================================================
