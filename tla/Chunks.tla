------------------------------- MODULE Chunks -------------------------------
(***************************************************************************)
(* The buffers of message.go: a Chunk, with room for a header before its   *)
(* body, and a ChunkList, which is written and read as one run of bytes.   *)
(* The loops over the chunks of a list are stated by the cells they reach: *)
(* those ahead of an offset, in order, through the end of the last chunk.  *)
(***************************************************************************)
EXTENDS Naturals, Sequences, FiniteSets, SequencesExt

CONSTANT MaxHeaderSize

VARIABLES
  mlen,  \* length of the message at hand
  cl     \* its chunks

\* A byte nobody has written, and the i-th one of a message's body.
Zero == <<"zero", 0>>
Data(i) == <<"data", i>>

\* Chunk i of a list is chs[i + 1]; its buffer begins with cell 0.
newChunk(cs) ==
  [buf |-> [c \in 0..(cs + MaxHeaderSize - 1) |-> Zero], len |-> cs + MaxHeaderSize,
   offr |-> MaxHeaderSize, offw |-> MaxHeaderSize, head |-> MaxHeaderSize, offs |-> MaxHeaderSize]

newChunkList(chs) == [chs |-> chs, offr |-> 0, offw |-> 0]

has(list) == Len(list.chs)

\* Room for a header is taken from the front.
reset(ck, n) == [ck EXCEPT !.head = @ - n, !.offs = ck.head - n]

\* Faulty variant: the current chunk only.
AheadInChunk(list, first, off) ==
  IF first < has(list)
  THEN [j \in 1..(list.chs[first + 1].len - off[first + 1]) |-> <<first + 1, off[first + 1] + j - 1>>]
  ELSE << >>

\* The cells <<i, c>> ahead, when off[i] is the offset of chunk i.
Ahead(list, first, off) ==
  LET Cells(i) == [j \in 1..(list.chs[i].len - off[i]) |-> <<i, off[i] + j - 1>>]
  IN  FlattenSeq([k \in 1..(has(list) - first) |-> Cells(first + k)])

Few(k, cells) == IF k < Len(cells) THEN k ELSE Len(cells)

\* How many of the first n cells lie in chunk i, and the chunk of the next.
TakenIn(cells, n, i) == Cardinality({j \in 1..n : cells[j][1] = i})
ChunkOfNext(list, cells, n) == IF n < Len(cells) THEN cells[n + 1][1] - 1 ELSE has(list)

\* An error, also for a request of no bytes.
Outcome(k, n) == IF k = 0 \/ n < k THEN "EOF" ELSE "nil"

\* ChunkList.Write of the bytes p.
WriteList(list, p) ==
  LET cells == Ahead(list, list.offw, [i \in 1..has(list) |-> list.chs[i].offw])
      n == Few(Len(p), cells)
      Wrote(ck, i) ==
        [ck EXCEPT !.offw = @ + TakenIn(cells, n, i),
                   !.buf = [c \in DOMAIN @ |->
                     IF \E j \in 1..n : cells[j] = <<i, c>>
                     THEN p[CHOOSE j \in 1..n : cells[j] = <<i, c>>] ELSE @[c]]]
  IN  [n |-> n, err |-> Outcome(Len(p), n),
       cl |-> [list EXCEPT !.chs = [i \in 1..has(list) |-> Wrote(@[i], i)],
                         !.offw = ChunkOfNext(list, cells, n)]]

\* ChunkList.Read of k bytes.
ReadList(list, k) ==
  LET cells == Ahead(list, list.offr, [i \in 1..has(list) |-> list.chs[i].offr])
      n == Few(k, cells)
      Took(ck, i) == [ck EXCEPT !.offr = @ + TakenIn(cells, n, i)]
  IN  [n |-> n, err |-> Outcome(k, n),
       p |-> [j \in 1..n |-> list.chs[cells[j][1]].buf[cells[j][2]]],
       cl |-> [list EXCEPT !.chs = [i \in 1..has(list) |-> Took(@[i], i)],
                         !.offr = ChunkOfNext(list, cells, n)]]

\* ChunkList.Size: the chunk not yet full, once for every chunk from there on.
Size(list) ==
  IF list.offw < has(list)
  THEN (has(list) - list.offw) * (list.chs[list.offw + 1].offw - list.chs[list.offw + 1].head)
  ELSE 0
=============================================================================
