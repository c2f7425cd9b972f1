----------------------------- MODULE MCMessages -----------------------------
(* A message is received, in up to three chunks, and read; or it is one of *)
(* two that are written and sent, on a stream or on none.                  *)
EXTENDS MessageReader, MessageWriter

messageVars == <<readerVars, writerVars>>

ReceivedInit ==
  /\ ReaderInit
  /\ phase = "received" /\ hdr = NoHeader /\ put = 0 /\ offs = 0
  /\ header = NoChunkHeader /\ wire = << >> /\ sent = 0

SentInit == WriterInit /\ got = << >> /\ last = [k |-> 0, n |-> 0, err |-> "nil"]

ReceivedNext ==
  /\ phase = "received"
  /\ ReaderNext
  /\ UNCHANGED <<phase, hdr, put, offs, header, wire, sent>>

SentNext == WriterNext /\ UNCHANGED <<got, last>>

MessagesSpec ==
  (ReceivedInit \/ SentInit) /\ [][ReceivedNext \/ SentNext]_messageVars

\* Times on both sides of the escape.
TimedHeaders ==
  {[csid |-> 3, timestamp |-> t, mlen |-> 0, typo |-> typo, msid |-> m] :
     t \in {0, 1, 5, 6, 9}, typo \in {"Audio", "Video"}, m \in {0, 1}}
=============================================================================
