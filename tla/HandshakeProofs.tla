-------------------------- MODULE HandshakeProofs --------------------------
(***************************************************************************)
(* Theorems about the handshake, for every kind of client, every random    *)
(* packet and every moment at which the link may be cut.                   *)
(***************************************************************************)
EXTENDS Handshake, TLAPS

(***************************************************************************)
(* Offsets.  Every challenge this code writes carries a digest that its    *)
(* other half finds, at the nearer of the two places, and whose second     *)
(* hash stays within the packet.                                           *)
(***************************************************************************)
LEMMA OffsetRange ==
  ASSUME NEW sum \in Nat
  PROVE  /\ WriteOffset(sum, 0) = FindOffset(sum, 8)
         /\ FindOffset(sum, 8) \in Nat /\ FindOffset(sum, 772) \in Nat
         /\ 12 <= FindOffset(sum, 8) /\ FindOffset(sum, 8) <= 739
         /\ 776 <= FindOffset(sum, 772)
BY DEF WriteOffset, FindOffset

\* What OwnChallenges draws: a packet located by its bytes from 8 on.
LEMMA OwnChallengeFields ==
  ASSUME NEW key, NEW c \in OwnChallenges(key)
  PROVE  /\ c.proto /\ c.versioned
         /\ c.sumAt[8] \in Nat /\ c.sumAt[772] \in Nat
         /\ c.at = FindOffset(c.sumAt[8], 8)
         /\ c.hs = makeDigest(0, key, c.at)
<1>1. PICK sumAt \in [Bases -> Sums] :
        c = Challenge(TRUE, TRUE, sumAt, WriteOffset(sumAt[8], 0),
                      makeDigest(0, key, WriteOffset(sumAt[8], 0)))
  BY DEF OwnChallenges
<1>2. sumAt[8] \in Nat /\ sumAt[772] \in Nat
  <2>1. 8 \in Bases /\ 772 \in Bases
    BY DEF Bases
  <2>2. sumAt[8] \in Sums /\ sumAt[772] \in Sums
    BY <2>1
  <2>3. Sums \subseteq Nat
    BY HandshakeAssumption
  <2> QED  BY <2>2, <2>3
<1>3. WriteOffset(sumAt[8], 0) = FindOffset(sumAt[8], 8)
  BY <1>2, OffsetRange
<1> QED  BY <1>1, <1>2, <1>3 DEF Challenge

(***************************************************************************)
(* The search of recvChallenge succeeds on this code's own challenges and  *)
(* the slices of handshake.go:240 exist.                                   *)
(***************************************************************************)
LEMMA OwnDigestFound ==
  ASSUME NEW key, NEW c \in OwnChallenges(key)
  PROVE  /\ c.proto /\ c.versioned
         /\ Found(c, key)
         /\ InRange(ResponseSize - FoundOffset(c, key), FoundOffset(c, key))
<1>1. /\ c.proto /\ c.versioned
      /\ c.at = FindOffset(c.sumAt[8], 8)
      /\ c.hs = makeDigest(0, key, c.at)
      /\ c.sumAt[8] \in Nat /\ c.sumAt[772] \in Nat
  BY OwnChallengeFields
<1>2. /\ c.at \in Nat /\ 12 <= c.at /\ c.at <= 739
      /\ FindOffset(c.sumAt[772], 772) \in Nat
      /\ 776 <= FindOffset(c.sumAt[772], 772)
  BY <1>1, OffsetRange
<1>3. c.at # FindOffset(c.sumAt[772], 772)
  BY <1>2
<1>4. ~findDigest(c, key, 772) /\ findDigest(c, key, 8)
  BY <1>1, <1>3 DEF findDigest
<1>5. Found(c, key) /\ FoundOffset(c, key) = c.at
  BY <1>1, <1>4 DEF Found, FoundOffset, Bases
<1>6. InRange(ResponseSize - c.at, c.at)
  BY <1>2 DEF InRange, ResponseSize, KeyLen
<1> QED  BY <1>1, <1>5, <1>6

(***************************************************************************)
(* Whatever its random bytes, a challenge whose digest lies in the second  *)
(* half of the packet makes recvChallenge slice past the end of it: none   *)
(* of them is ever answered.                                               *)
(***************************************************************************)
THEOREM FarDigestOutOfRange ==
  ASSUME NEW sum \in Nat
  PROVE  ~InRange(ResponseSize - FindOffset(sum, 772), FindOffset(sum, 772))
<1>1. FindOffset(sum, 772) \in Nat /\ 776 <= FindOffset(sum, 772)
  BY OffsetRange
<1> QED  BY <1>1 DEF InRange, ResponseSize, KeyLen

-----------------------------------------------------------------------------
(* The state machine *)

LEMMA EndsAre == Ends = {"server", "client"} /\ \A p \in Ends : Other(p) \in Ends /\ Other(p) # p
BY DEF Ends, Other

\* The state at which each case of the switch runs.
LEMMA Position ==
  ASSUME TypeOK, Progress, NEW p \in Ends, NEW s, Doing(p, s)
  PROVE  /\ status[p] = "running" /\ state[p] \in 0..4
         /\ p = "server" =>
              /\ s = "recvChallenge" => state[p] = 0
              /\ s = "sendChallenge" => state[p] = 1
              /\ s = "recvResponse"  => state[p] = 2
              /\ s = "sendResponse"  => state[p] = 3
              /\ s = "done"          => state[p] = 4
         /\ p = "client" =>
              /\ s = "sendChallenge" => state[p] = 0
              /\ s = "recvChallenge" => state[p] = 1
              /\ s = "sendResponse"  => state[p] = (IF Patient THEN 3 ELSE 2)
              /\ s = "recvResponse"  => state[p] = (IF Patient THEN 2 ELSE 3)
              /\ s = "done"          => state[p] = 4
<1>1. status[p] = "running" /\ state[p] \in 0..4
  BY DEF Doing, TypeOK, Progress
<1>2. CASE p = "server"
  BY <1>1, <1>2 DEF Doing, Steps, ServerSteps
<1>3. CASE p = "client" /\ Patient
  BY <1>1, <1>3 DEF Doing, Steps, PatientSteps, Patient
<1>4. CASE p = "client" /\ ~Patient
  BY <1>1, <1>4 DEF Doing, Steps, ClientSteps, Patient
<1> QED  BY <1>1, <1>2, <1>3, <1>4 DEF Ends

LEMMA HandshakeInit == Init => HandshakeInv
<1> SUFFICES ASSUME Init PROVE HandshakeInv
  OBVIOUS
<1>1. TypeOK
  <2>1. NilDigest \in Digests
    BY DEF NilDigest, NoOffset, Digests, Keys
  <2>2. << >> \in Seq(Packets)
    OBVIOUS
  <2> QED  BY <2>1, <2>2, HandshakeAssumption DEF Init, TypeOK
<1>2. Progress
  BY DEF Init, Progress, Written, Expected, Turn, Ends
<1>3. Transit
  BY DEF Init, Transit, Ends, Other, Up
<1>4. Opening /\ OwnEndsAgree
  BY DEF Init, Opening, OwnEndsAgree
<1> QED  BY <1>1, <1>2, <1>3, <1>4 DEF HandshakeInv

\* Every challenge an end may write is a packet whose sums are numbers.
LEMMA ChallengeTypes ==
  ASSUME NEW p \in Ends, NEW c \in ChallengesOf(p)
  PROVE  c \in Packets /\ \A base \in Bases : c.sumAt[base] \in Nat
<1> DEFINE S == [Bases -> Sums]
<1>1. \A sumAt \in S : \A base \in Bases : sumAt[base] \in Nat
  <2>1. Sums \subseteq Nat
    BY HandshakeAssumption
  <2> QED  BY <2>1
<1>2. PICK sumAt \in S : c.sumAt = sumAt
  BY DEF ChallengesOf, OwnChallenges, ForeignChallenges, Challenge
<1>3. c \in Packets
  BY DEF ChallengesOf, Packets, PartialKey
<1> QED  BY <1>1, <1>2, <1>3

\* A write in state n of a step that writes keeps what is true of the packets.
LEMMA PutInv ==
  ASSUME HandshakeInv, NEW p \in Ends, NEW c \in Packets,
         sent[p] = << >> => c \in ChallengesOf(p),
         Put(p, c), kind' = kind
  PROVE  /\ sent' \in [Ends -> Seq(Packets)]
         /\ Len(sent'[p]) = Len(sent[p]) + 1
         /\ sent'[Other(p)] = sent[Other(p)]
         /\ \A q \in Ends : Len(sent[q]) \in Nat /\ Len(sent[q]) <= Len(sent'[q])
         /\ Opening'
<1>1. sent \in [Ends -> Seq(Packets)] /\ Other(p) \in Ends /\ Other(p) # p
  BY EndsAre DEF HandshakeInv, TypeOK
<1>2. /\ sent'[p] = Append(sent[p], c)
      /\ \A q \in Ends \ {p} : sent'[q] = sent[q]
      /\ sent' \in [Ends -> Seq(Packets)]
  BY <1>1 DEF Put
<1>3. \A q \in Ends : Len(sent[q]) \in Nat /\ Len(sent[q]) <= Len(sent'[q])
  BY <1>1, <1>2
<1>4. Opening'
  <2> SUFFICES ASSUME NEW q \in Ends, sent'[q] # << >>
               PROVE  sent'[q][1] \in ChallengesOf(q)
    BY DEF Opening, ChallengesOf
  <2>1. CASE q # p
    BY <2>1, <1>2 DEF HandshakeInv, Opening
  <2>2. CASE q = p /\ sent[p] = << >>
    BY <2>2, <1>1, <1>2
  <2>3. CASE q = p /\ sent[p] # << >>
    <3>1. sent'[p][1] = sent[p][1]
      BY <2>3, <1>1, <1>2
    <3> QED  BY <2>3, <3>1 DEF HandshakeInv, Opening
  <2> QED  BY <2>1, <2>2, <2>3
<1> QED  BY <1>1, <1>2, <1>3, <1>4

LEMMA SendChallengeInv ==
  ASSUME HandshakeInv, NEW p \in Ends, sendChallenge(p)
  PROVE  HandshakeInv'
<1> USE DEF HandshakeInv
<1>1. PICK c \in ChallengesOf(p) : Put(p, c)
  BY DEF sendChallenge
<1>2. c \in Packets
  BY ChallengeTypes
<1>3. /\ state' = [state EXCEPT ![p] = @ + 1] /\ status[p] = "running"
      /\ UNCHANGED <<kind, status, digest, got, link, arrives>>
  BY DEF sendChallenge, Advance, Doing
<1>4. /\ sent' \in [Ends -> Seq(Packets)]
      /\ Len(sent'[p]) = Len(sent[p]) + 1
      /\ sent'[Other(p)] = sent[Other(p)]
      /\ \A q \in Ends : Len(sent[q]) \in Nat /\ Len(sent[q]) <= Len(sent'[q])
      /\ Opening'
  BY <1>1, <1>2, <1>3, PutInv
<1>5. state[p] \in 0..4 /\ state[p] = (IF p = "server" THEN 1 ELSE 0)
  BY Position, EndsAre DEF sendChallenge
<1>6. TypeOK'
  <2>1. state' \in [Ends -> 0..5]
    BY <1>3, <1>5 DEF TypeOK
  <2> QED  BY <1>3, <1>4, <2>1 DEF TypeOK
<1>7. Progress'
  <2>1. CASE p = "server"
    BY <2>1, <1>3, <1>4, <1>5 DEF TypeOK, Progress, Written, Expected, Refused, Turn, Patient, Other, Ends
  <2>2. CASE p = "client"
    BY <2>2, <1>3, <1>4, <1>5 DEF TypeOK, Progress, Written, Expected, Refused, Turn, Patient, Other, Ends
  <2> QED  BY <2>1, <2>2, EndsAre
<1>8. Transit'
  BY <1>3, <1>4, EndsAre DEF TypeOK, Transit, Up
<1>9. OwnEndsAgree'
  BY <1>3 DEF OwnEndsAgree, Up
<1> QED  BY <1>4, <1>6, <1>7, <1>8, <1>9

LEMMA SendResponseInv ==
  ASSUME HandshakeInv, NEW p \in Ends, sendResponse(p)
  PROVE  HandshakeInv'
<1> USE DEF HandshakeInv
<1>1. Response(digest[p]) \in Packets
  BY DEF Response, Packets, TypeOK
<1>2. /\ state' = [state EXCEPT ![p] = @ + 1] /\ status[p] = "running"
      /\ UNCHANGED <<kind, status, digest, got, link, arrives>>
  BY DEF sendResponse, Advance, Doing
<1>3. /\ state[p] \in 0..4
      /\ state[p] = (IF p = "client" /\ ~Patient THEN 2 ELSE 3)
  BY Position, EndsAre DEF sendResponse
<1>4. sent[p] # << >>
  <2>1. Len(sent[p]) >= 1
    <3>1. CASE p = "server"
      BY <1>3, <3>1 DEF Progress, Written, Turn
    <3>2. CASE p = "client"
      BY <1>3, <3>2 DEF Progress, Written, Turn
    <3> QED  BY <3>1, <3>2, EndsAre
  <2> QED  BY <2>1
<1>5. /\ sent' \in [Ends -> Seq(Packets)]
      /\ Len(sent'[p]) = Len(sent[p]) + 1
      /\ sent'[Other(p)] = sent[Other(p)]
      /\ \A q \in Ends : Len(sent[q]) \in Nat /\ Len(sent[q]) <= Len(sent'[q])
      /\ Opening'
  BY <1>1, <1>2, <1>4, PutInv DEF sendResponse
<1>6. TypeOK'
  <2>1. state' \in [Ends -> 0..5]
    BY <1>2, <1>3 DEF TypeOK
  <2> QED  BY <1>2, <1>5, <2>1 DEF TypeOK
<1>7. Progress'
  <2>1. CASE p = "server"
    BY <2>1, <1>2, <1>3, <1>5 DEF TypeOK, Progress, Written, Expected, Refused, Turn, Patient, Other, Ends
  <2>2. CASE p = "client"
    BY <2>2, <1>2, <1>3, <1>5 DEF TypeOK, Progress, Written, Expected, Refused, Turn, Patient, Other, Ends
  <2> QED  BY <2>1, <2>2, EndsAre
<1>8. Transit'
  BY <1>2, <1>5, EndsAre DEF TypeOK, Transit, Up
<1>9. OwnEndsAgree'
  BY <1>2 DEF OwnEndsAgree, Up
<1> QED  BY <1>5, <1>6, <1>7, <1>8, <1>9

\* A packet can be read only if it was written, whether or not the link is cut.
LEMMA TakeInv ==
  ASSUME HandshakeInv, NEW p \in Ends, Take(p), status[p] = "running",
         Expected(p) <= 1, UNCHANGED <<sent, link, arrives>>
  PROVE  /\ got' = [got EXCEPT ![p] = Expected(p) + 1]
         /\ got[p] = Expected(p) /\ Expected(p) \in 0..1
         /\ sent[Other(p)] # << >>
         /\ Transit'
<1> USE DEF HandshakeInv
<1>1. got[p] = Expected(p) /\ got[p] \in 0..2
  BY DEF Progress, Refused, TypeOK
<1>2. got' = [got EXCEPT ![p] = got[p] + 1]
  BY DEF Take
<1>3. \A q \in Ends : Len(sent[q]) \in Nat
  BY DEF TypeOK
<1>4. got[p] < Len(sent[Other(p)]) /\ (~Up => got[p] < arrives[p])
  BY <1>1, <1>3, EndsAre DEF Take, CanRead, Transit, TypeOK, Up
<1>5. Transit'
  BY <1>1, <1>2, <1>3, <1>4, EndsAre DEF Transit, TypeOK, Up
<1>6. sent[Other(p)] # << >>
  BY <1>1, <1>3, <1>4, EndsAre
<1> QED  BY <1>1, <1>2, <1>5, <1>6

\* A read that lets the handshake go on, whatever it leaves in Conn.digest.
LEMMA ReadOnInv ==
  ASSUME HandshakeInv, NEW p \in Ends, Take(p), Advance(p),
         status[p] = "running", state[p] \in 0..3,
         state[p] = (IF p = "server" THEN 0 ELSE 1)
         \/ state[p] = (IF p = "server" \/ Patient THEN 2 ELSE 3),
         digest' \in [Ends -> Digests],
         UNCHANGED <<kind, sent, link, arrives>>
  PROVE  HandshakeInv'
<1> USE DEF HandshakeInv
<1>1. /\ state' = [state EXCEPT ![p] = state[p] + 1]
      /\ UNCHANGED <<kind, status, sent, link, arrives>>
  BY DEF Advance
<1>2. Expected(p) <= 1
  BY EndsAre DEF Expected, Turn, Patient
<1>3. /\ got' = [got EXCEPT ![p] = Expected(p) + 1]
      /\ got[p] = Expected(p) /\ Expected(p) \in 0..1
      /\ Transit'
  BY <1>2, TakeInv
<1>4. TypeOK'
  <2>1. state' \in [Ends -> 0..5]
    BY <1>1 DEF TypeOK
  <2>2. got' \in [Ends -> 0..2]
    BY <1>3 DEF TypeOK
  <2> QED  BY <1>1, <2>1, <2>2 DEF TypeOK
<1>5. Progress'
  <2>1. CASE p = "server"
    BY <2>1, <1>1, <1>3 DEF TypeOK, Progress, Written, Expected, Refused, Turn, Patient, Ends
  <2>2. CASE p = "client"
    BY <2>2, <1>1, <1>3 DEF TypeOK, Progress, Written, Expected, Refused, Turn, Patient, Ends
  <2> QED  BY <2>1, <2>2, EndsAre
<1>6. Opening' /\ OwnEndsAgree'
  BY <1>1 DEF Opening, ChallengesOf, OwnEndsAgree, Up
<1> QED  BY <1>3, <1>4, <1>5, <1>6

LEMMA RecvResponseInv ==
  ASSUME HandshakeInv, NEW p \in Ends, recvResponse(p)
  PROVE  HandshakeInv'
<1>1. /\ status[p] = "running" /\ state[p] \in 0..3
      /\ state[p] = (IF p = "server" \/ Patient THEN 2 ELSE 3)
  BY Position, EndsAre DEF HandshakeInv, recvResponse
<1>2. digest' \in [Ends -> Digests]
  BY DEF HandshakeInv, recvResponse, TypeOK
<1> QED  BY <1>1, <1>2, ReadOnInv DEF recvResponse

LEMMA ForeignRecvChallengeInv ==
  ASSUME HandshakeInv, foreignRecvChallenge
  PROVE  HandshakeInv'
<1>1. "client" \in Ends
  BY EndsAre
<1>2. status["client"] = "running" /\ state["client"] = 1
  BY <1>1, Position DEF HandshakeInv, foreignRecvChallenge
<1>3. digest' \in [Ends -> Digests]
  BY DEF HandshakeInv, foreignRecvChallenge, TypeOK
<1> QED  BY <1>1, <1>2, <1>3, ReadOnInv DEF foreignRecvChallenge

\* An end that stops with its state unchanged, having read nothing or, in
\* recvChallenge, the challenge.
LEMMA StopInv ==
  ASSUME HandshakeInv, NEW p \in Ends, NEW how \in {"failed", "panicked"},
         Stop(p, how), status[p] = "running",
         kind = "own" => how = "failed" /\ ~Up,
         got' = got \/ (got' = [got EXCEPT ![p] = 1]
                        /\ state[p] = (IF p = "server" THEN 0 ELSE 1)),
         Transit', UNCHANGED <<kind, digest, sent, link, arrives>>
  PROVE  HandshakeInv'
<1> USE DEF HandshakeInv
<1>1. /\ status' = [status EXCEPT ![p] = how]
      /\ UNCHANGED <<kind, state, digest, sent, link, arrives>>
  BY DEF Stop
<1>2. TypeOK'
  <2>1. got \in [Ends -> 0..2] /\ 1 \in 0..2
    BY DEF TypeOK
  <2>2. [got EXCEPT ![p] = 1] \in [Ends -> 0..2]
    BY <2>1
  <2>3. got' \in [Ends -> 0..2]
    BY <2>1, <2>2
  <2> QED  BY <1>1, <2>3 DEF TypeOK
<1>3. Progress'
  <2>1. Written'
    BY <1>1 DEF Progress, Written, Patient
  <2>2. \A q \in Ends \ {p} : got'[q] = got[q] /\ status'[q] = status[q]
    BY <1>1 DEF TypeOK
  <2>3. status'[p] = how /\ got[p] = Expected(p)
    BY <1>1 DEF TypeOK, Progress, Refused
  <2>4. got'[p] = Expected(p) \/ Refused(p)'
    BY <2>3, <1>1 DEF TypeOK, Refused
  <2>5. \A q \in Ends : Expected(q)' = Expected(q)
    BY <1>1 DEF Expected, Patient
  <2>6. \A q \in Ends \ {p} : Refused(q)' <=> Refused(q)
    BY <1>1, <2>2 DEF Refused
  <2> QED  BY <1>1, <2>1, <2>2, <2>3, <2>4, <2>5, <2>6 DEF Progress
<1>4. Opening'
  BY <1>1 DEF Opening, ChallengesOf
<1>5. OwnEndsAgree'
  BY <1>1 DEF OwnEndsAgree, Up, TypeOK
<1> QED  BY <1>2, <1>3, <1>4, <1>5

LEMMA RecvChallengeInv ==
  ASSUME HandshakeInv, NEW p \in Ends, recvChallenge(p)
  PROVE  HandshakeInv'
<1> DEFINE c == NextPacket(p)
           key == PartialKey(Other(p))
           offs == FoundOffset(c, key)
<1>1. /\ status[p] = "running" /\ state[p] = (IF p = "server" THEN 0 ELSE 1)
      /\ Doing(p, "recvChallenge")
  BY Position, EndsAre DEF HandshakeInv, recvChallenge
<1>2. Expected(p) = 0
  BY <1>1, EndsAre DEF Expected, Turn
<1>3. /\ got' = [got EXCEPT ![p] = 1] /\ got[p] = 0
      /\ sent[Other(p)] # << >> /\ Transit'
  BY <1>1, <1>2, TakeInv DEF recvChallenge
<1>4. c \in ChallengesOf(Other(p))
  BY <1>3, EndsAre DEF NextPacket, HandshakeInv, Opening
<1>5. kind = "own" => /\ c.proto /\ c.versioned /\ Found(c, key)
                      /\ InRange(ResponseSize - offs, offs)
  BY <1>4, OwnDigestFound DEF ChallengesOf
<1>6. CASE Advance(p)
  <2>1. offs \in Nat
    <3>1. \A base \in Bases : c.sumAt[base] \in Nat
      BY <1>4, EndsAre, ChallengeTypes
    <3>2. c.sumAt[8] \in Nat /\ c.sumAt[772] \in Nat
      BY <3>1 DEF Bases
    <3> QED  BY <3>2, OffsetRange DEF FoundOffset
  <2>2. FullKey(p) \in Keys
    BY DEF FullKey, Keys
  <2>3. makeDigest(offs, FullKey(p), offs) \in Digests
    BY <2>1, <2>2 DEF makeDigest, Digests, NoOffset
  <2>4. digest' \in [Ends -> Digests]
    BY <2>3 DEF recvChallenge, HandshakeInv, TypeOK
  <2> QED  BY <1>1, <1>6, <2>4, ReadOnInv DEF recvChallenge
<1>7. CASE ~Advance(p)
  <2>1. PICK how \in {"failed", "panicked"} : Stop(p, how)
    BY <1>7 DEF recvChallenge
  <2>2. kind # "own"
    BY <1>5, <1>7 DEF recvChallenge
  <2>3. UNCHANGED <<kind, digest, sent, link, arrives>>
    BY <1>7 DEF recvChallenge
  <2> QED  BY <1>1, <1>3, <2>1, <2>2, <2>3, StopInv
<1> QED  BY <1>6, <1>7

LEMMA FinishInv ==
  ASSUME HandshakeInv, NEW p \in Ends, finish(p)
  PROVE  HandshakeInv'
<1> USE DEF HandshakeInv
<1>1. state[p] = 4 /\ status[p] = "running"
  BY Position, EndsAre DEF finish
<1>2. /\ state' = [state EXCEPT ![p] = 5] /\ status' = [status EXCEPT ![p] = "done"]
      /\ UNCHANGED <<kind, digest, sent, got, link, arrives>>
  BY <1>1 DEF finish
<1>3. TypeOK'
  <2>1. state' \in [Ends -> 0..5]
    BY <1>2 DEF TypeOK
  <2> QED  BY <1>2, <2>1 DEF TypeOK
<1>4. Progress'
  <2>1. CASE p = "server"
    BY <2>1, <1>1, <1>2 DEF TypeOK, Progress, Written, Expected, Refused, Turn, Patient, Ends
  <2>2. CASE p = "client"
    BY <2>2, <1>1, <1>2 DEF TypeOK, Progress, Written, Expected, Refused, Turn, Patient, Ends
  <2> QED  BY <2>1, <2>2, EndsAre
<1>5. Transit' /\ Opening'
  BY <1>2 DEF Transit, Up, Opening, ChallengesOf
<1>6. OwnEndsAgree'
  BY <1>2 DEF OwnEndsAgree, Up, TypeOK
<1> QED  BY <1>3, <1>4, <1>5, <1>6

LEMMA FailInv ==
  ASSUME HandshakeInv, NEW p \in Ends, fail(p)
  PROVE  HandshakeInv'
<1>1. status[p] = "running" /\ ~Up /\ Stop(p, "failed")
  BY DEF fail, Writing, Reading, Doing
<1>2. Transit'
  BY DEF fail, HandshakeInv, Transit, Up
<1> QED  BY <1>1, <1>2, StopInv DEF fail

LEMMA CutInv ==
  ASSUME HandshakeInv, Cut
  PROVE  HandshakeInv'
<1> USE DEF HandshakeInv
<1>1. PICK s \in 0..2, c \in 0..2 :
        /\ s \in got["server"]..Len(sent["client"])
        /\ c \in got["client"]..Len(sent["server"])
        /\ arrives' = [p \in Ends |-> IF p = "server" THEN s ELSE c]
  BY DEF Cut
<1>2. link' = "cut" /\ UNCHANGED <<kind, state, status, digest, sent, got>>
  BY DEF Cut
<1>3. TypeOK'
  BY <1>1, <1>2 DEF TypeOK
<1>4. Transit'
  <2>1. \A q \in Ends : got[q] <= Len(sent[Other(q)])
    BY DEF Transit
  <2>2. Other("server") = "client" /\ Other("client") = "server"
    BY DEF Other
  <2>3. \A q \in Ends : Len(sent[q]) \in Nat /\ got[q] \in 0..2
    BY DEF TypeOK
  <2>4. \A q \in Ends : got[q] <= arrives'[q] /\ arrives'[q] <= Len(sent[Other(q)])
    BY <1>1, <2>2, <2>3 DEF Ends
  <2> QED  BY <1>2, <2>1, <2>4 DEF Transit
<1>5. Progress' /\ Opening'
  BY <1>2 DEF Progress, Written, Expected, Refused, Patient, Opening, ChallengesOf
<1>6. OwnEndsAgree'
  BY <1>2 DEF OwnEndsAgree, Up
<1> QED  BY <1>3, <1>4, <1>5, <1>6

LEMMA HandshakeStep == HandshakeInv /\ [Next]_vars => HandshakeInv'
<1> SUFFICES ASSUME HandshakeInv, [Next]_vars
             PROVE  HandshakeInv'
  OBVIOUS
<1>1. ASSUME NEW p \in Ends, step(p) PROVE HandshakeInv'
  BY <1>1, SendChallengeInv, ForeignRecvChallengeInv, RecvChallengeInv,
     SendResponseInv, RecvResponseInv, FinishInv, FailInv DEF step
<1>2. CASE Cut
  BY <1>2, CutInv
<1>3. CASE UNCHANGED vars
  BY <1>3 DEF vars, HandshakeInv, TypeOK, Progress, Written, Expected, Refused,
              Patient, Transit, Up, Opening, ChallengesOf, OwnEndsAgree
<1> QED  BY <1>1, <1>2, <1>3 DEF Next

-----------------------------------------------------------------------------

(***************************************************************************)
(* The inductive invariant of the handshake.                               *)
(***************************************************************************)
THEOREM HandshakeInvariant == Spec => []HandshakeInv
BY HandshakeInit, HandshakeStep, PTL DEF Spec

(***************************************************************************)
(* An end that finishes knows how far the other has come, whatever the     *)
(* client and wherever the link was cut.                                   *)
(***************************************************************************)
THEOREM HandshakeOrderAlways == Spec => []HandshakeOrder
<1>1. HandshakeInv => HandshakeOrder
  <2> SUFFICES ASSUME HandshakeInv PROVE HandshakeOrder
    OBVIOUS
  <2> USE DEF HandshakeInv
  <2>1. \A p \in Ends : Len(sent[p]) \in Nat /\ state[p] \in 0..5 /\ got[p] \in 0..2
    BY DEF TypeOK
  <2>2. /\ got["server"] <= Len(sent["client"])
        /\ got["client"] <= Len(sent["server"])
    BY DEF Transit, Ends, Other
  <2>3. ASSUME status["server"] = "done"
        PROVE  got["server"] = 2 /\ got["client"] >= 1
    <3>1. state["server"] = 5 /\ got["server"] = 2
      BY <2>3 DEF Progress, Expected, Refused, Turn, Ends
    <3>2. state["client"] >= 3
      BY <3>1, <2>1, <2>2 DEF Progress, Written, Turn, Ends
    <3> QED  BY <3>1, <3>2, <2>1 DEF Progress, Expected, Refused, Turn, Ends
  <2>4. ASSUME status["client"] = "done"
        PROVE  got["client"] = 2 /\ got["server"] = 2
    <3>1. state["client"] = 5 /\ got["client"] = 2
      BY <2>4 DEF Progress, Expected, Refused, Turn, Ends
    <3>2. state["server"] >= 4
      BY <3>1, <2>1, <2>2 DEF Progress, Written, Turn, Ends
    <3> QED  BY <3>1, <3>2, <2>1 DEF Progress, Expected, Refused, Turn, Ends
  <2> QED  BY <2>3, <2>4 DEF HandshakeOrder
<1> QED  BY <1>1, HandshakeInvariant, PTL

(***************************************************************************)
(* This code's own client and server never refuse each other's challenge   *)
(* and never panic, whatever random bytes they draw.                       *)
(***************************************************************************)
THEOREM OwnEndsAgreeAlways == Spec => []OwnEndsAgree
<1>1. HandshakeInv => OwnEndsAgree
  BY DEF HandshakeInv
<1> QED  BY <1>1, HandshakeInvariant, PTL

(***************************************************************************)
(* Only a client that holds C2 back can make both ends wait.               *)
(***************************************************************************)
THEOREM MutualWaitOnlyIfPatientAlways == Spec => []MutualWaitOnlyIfPatient
<1>1. HandshakeInv => MutualWaitOnlyIfPatient
  <2> SUFFICES ASSUME HandshakeInv, Waiting("server"), Waiting("client"), ~Patient
               PROVE  FALSE
    BY DEF MutualWaitOnlyIfPatient, Patient
  <2> USE DEF HandshakeInv
  <2>1. \A p \in Ends : Len(sent[p]) \in Nat /\ state[p] \in 0..5 /\ got[p] \in 0..2
    BY DEF TypeOK
  <2>2. \A p \in Ends : status[p] = "running" /\ got[p] >= Len(sent[Other(p)])
    BY <2>1, EndsAre DEF Waiting, Reading, Doing, CanRead
  <2>3. state["server"] \in {0, 2} /\ state["client"] \in {1, 3}
    BY Position, EndsAre DEF Waiting, Reading
  <2>4. \A p \in Ends : got[p] = Expected(p)
    BY <2>2 DEF Progress, Refused
  <2>5. Other("server") = "client" /\ Other("client") = "server"
    BY DEF Other
  <2>6. got["server"] >= Len(sent["client"]) /\ got["client"] >= Len(sent["server"])
    BY <2>2, <2>5 DEF Ends
  <2>7. /\ Len(sent["server"]) = Turn(state["server"], 1, 3)
        /\ Len(sent["client"]) = Turn(state["client"], 0, 2)
    BY DEF Progress, Written
  <2>8. /\ got["server"] = Turn(state["server"], 0, 2)
        /\ got["client"] = Turn(state["client"], 1, 3)
    BY <2>4, EndsAre DEF Expected
  <2> QED  BY <2>3, <2>6, <2>7, <2>8 DEF Turn
<1> QED  BY <1>1, HandshakeInvariant, PTL

-----------------------------------------------------------------------------
(* Which challenges a server answers *)

\* A digest under the client's key is one that covers its challenge.
LEMMA SignedChallenge ==
  ASSUME NEW c \in ChallengesOf("client"), c.hs.key = "ClientPartialKey"
  PROVE  c.hs = makeDigest(0, "ClientPartialKey", c.at)
<1>1. CASE c \in OwnChallenges("ClientPartialKey")
  BY <1>1, OwnChallengeFields
<1>2. CASE c \in ForeignChallenges
  <2>1. CASE c.hs = NilDigest
    BY <2>1 DEF NilDigest
  <2>2. CASE c.hs # NilDigest
    <3>1. PICK sumAt \in [Bases -> Sums], base \in Bases :
            c = Challenge(TRUE, TRUE, sumAt, FindOffset(sumAt[base], base),
                  makeDigest(0, "ClientPartialKey", FindOffset(sumAt[base], base)))
      BY <1>2, <2>2 DEF ForeignChallenges, Challenge
    <3> QED  BY <3>1 DEF Challenge
  <2> QED  BY <2>1, <2>2
<1> QED  BY <1>1, <1>2 DEF ChallengesOf, PartialKey

\* recvChallenge of the server accepts what is acceptable, and nothing else.
LEMMA FoundIffAcceptable ==
  ASSUME NEW c \in ChallengesOf("client")
  PROVE  Acceptable(c) <=> c.proto /\ (~c.versioned \/ Found(c, "ClientPartialKey"))
<1>1. ASSUME NEW base \in Bases
      PROVE  findDigest(c, "ClientPartialKey", base) <=>
               c.at = FindOffset(c.sumAt[base], base) /\ c.hs.key = "ClientPartialKey"
  <2>1. ASSUME findDigest(c, "ClientPartialKey", base)
        PROVE  c.at = FindOffset(c.sumAt[base], base) /\ c.hs.key = "ClientPartialKey"
    BY <2>1 DEF findDigest, makeDigest
  <2>2. ASSUME c.at = FindOffset(c.sumAt[base], base), c.hs.key = "ClientPartialKey"
        PROVE  findDigest(c, "ClientPartialKey", base)
    BY <2>2, SignedChallenge DEF findDigest
  <2> QED  BY <2>1, <2>2
<1> QED  BY <1>1 DEF Acceptable, Found

(***************************************************************************)
(* A server that has gone past recvChallenge has read a challenge that is  *)
(* acceptable, and one that has given up while the link was up has not.    *)
(***************************************************************************)
Judged ==
  /\ state["server"] >= 1 => sent["client"] # << >> /\ Acceptable(sent["client"][1])
  /\ status["server"] = "failed" /\ Up => sent["client"] # << >> /\ ~Acceptable(sent["client"][1])

\* Nothing a client does changes what the server has judged.
LEMMA ClientKeepsJudged ==
  ASSUME HandshakeInv, Judged, step("client")
  PROVE  Judged'
<1> USE DEF HandshakeInv
<1>1. state'["server"] = state["server"] /\ status'["server"] = status["server"] /\ link' = link
  BY DEF step, sendChallenge, foreignRecvChallenge, recvChallenge, sendResponse, recvResponse,
         finish, fail, Advance, Stop, TypeOK, Ends
<1>2. sent' = sent \/ \E c : Put("client", c)
  BY DEF step, sendChallenge, foreignRecvChallenge, recvChallenge, sendResponse, recvResponse,
         finish, fail
<1>3. sent["client"] # << >> => sent'["client"] # << >> /\ sent'["client"][1] = sent["client"][1]
  <2>1. sent["client"] \in Seq(Packets)
    BY DEF TypeOK, Ends
  <2>2. ASSUME NEW c, Put("client", c)
        PROVE  sent'["client"] = Append(sent["client"], c)
    BY <2>2 DEF Put, TypeOK, Ends
  <2> QED  BY <1>2, <2>1, <2>2
<1> QED  BY <1>1, <1>3 DEF Judged, Up

LEMMA RecvChallengeJudged ==
  ASSUME HandshakeInv, Judged, recvChallenge("server")
  PROVE  Judged'
<1> USE DEF HandshakeInv
<1> DEFINE c == NextPacket("server")
<1>1. /\ status["server"] = "running" /\ state["server"] = 0
      /\ UNCHANGED <<sent, link>> /\ Take("server")
  BY Position, EndsAre DEF recvChallenge
<1>2. Other("server") = "client" /\ "server" \in Ends /\ "client" \in Ends
  BY DEF Other, Ends
<1>3. got["server"] = 0 /\ sent["client"] # << >>
  <2>1. Expected("server") = 0
    BY <1>1 DEF Expected, Turn
  <2>2. UNCHANGED <<sent, link, arrives>>
    BY DEF recvChallenge
  <2> QED  BY <1>1, <1>2, <2>1, <2>2, TakeInv
<1>4. c = sent["client"][1] /\ c \in ChallengesOf("client")
  BY <1>2, <1>3 DEF NextPacket, Opening
<1>5. PartialKey(Other("server")) = "ClientPartialKey"
  BY <1>2 DEF PartialKey
<1>6. CASE Acceptable(c) /\ status'["server"] # "failed"
  BY <1>3, <1>4, <1>6, <1>1 DEF Judged
<1>7. CASE ~Acceptable(c) /\ state'["server"] = 0
  BY <1>3, <1>4, <1>7, <1>1 DEF Judged
<1>8. \/ Acceptable(c) /\ status'["server"] # "failed"
      \/ ~Acceptable(c) /\ state'["server"] = 0
  <2>1. Acceptable(c) <=> c.proto /\ (~c.versioned \/ Found(c, "ClientPartialKey"))
    BY <1>4, FoundIffAcceptable
  <2>2. Advance("server") => status'["server"] # "failed"
    BY <1>1 DEF Advance
  <2>3. Stop("server", "panicked") => status'["server"] # "failed"
    BY <1>2 DEF Stop, TypeOK
  <2>4. Stop("server", "failed") => state'["server"] = 0
    BY <1>1 DEF Stop
  <2> QED  BY <1>5, <2>1, <2>2, <2>3, <2>4 DEF recvChallenge
<1> QED  BY <1>6, <1>7, <1>8

LEMMA ServerKeepsJudged ==
  ASSUME HandshakeInv, Judged, step("server"), ~recvChallenge("server")
  PROVE  Judged'
<1> USE DEF HandshakeInv
<1>1. "server" \in Ends /\ "client" \in Ends /\ Other("server") = "client"
  BY DEF Ends, Other
<1>2. sent'["client"] = sent["client"] /\ link' = link
  BY <1>1 DEF step, sendChallenge, foreignRecvChallenge, sendResponse, recvResponse, finish, fail,
         Put, TypeOK
<1>3. CASE fail("server")
  BY <1>1, <1>2, <1>3 DEF fail, Stop, Judged, Up
<1>4. CASE ~fail("server")
  <2>1. status["server"] = "running" /\ state["server"] \in 0..4 /\ state["server"] >= 1
    BY <1>1, <1>4, Position DEF step, sendChallenge, sendResponse, recvResponse, finish
  <2>2. status'["server"] # "failed"
    BY <1>1, <1>4, <2>1 DEF step, sendChallenge, sendResponse, recvResponse, finish, Advance, TypeOK
  <2> QED  BY <1>2, <2>1, <2>2 DEF Judged
<1> QED  BY <1>3, <1>4

(***************************************************************************)
(* A server answers the challenges it should and no others, whatever the   *)
(* client and its random bytes.                                            *)
(***************************************************************************)
THEOREM ServerAnswersAcceptableAlways == Spec => []ServerAnswersAcceptable
<1>1. Init => Judged
  BY DEF Init, Judged, Ends
<1>2. HandshakeInv /\ Judged /\ [Next]_vars => Judged'
  <2> SUFFICES ASSUME HandshakeInv, Judged, [Next]_vars
               PROVE  Judged'
    OBVIOUS
  <2>1. CASE Cut
    BY <2>1 DEF Cut, Judged, Up
  <2>2. CASE \E p \in Ends : step(p)
    BY <2>2, ClientKeepsJudged, RecvChallengeJudged, ServerKeepsJudged DEF Ends
  <2>3. CASE UNCHANGED vars
    BY <2>3 DEF vars, Judged, Up
  <2> QED  BY <2>1, <2>2, <2>3 DEF Next
<1>3. HandshakeInv /\ Judged => ServerAnswersAcceptable
  <2> SUFFICES ASSUME HandshakeInv, Judged
               PROVE  ServerAnswersAcceptable
    OBVIOUS
  <2>1. Len(sent["server"]) = Turn(state["server"], 1, 3) /\ state["server"] \in 0..5
    BY DEF HandshakeInv, Progress, Written, TypeOK, Ends
  <2>2. sent["server"] # << >> => Len(sent["server"]) # 0
    BY DEF HandshakeInv, TypeOK, Ends
  <2>3. sent["server"] # << >> => state["server"] >= 1
    BY <2>1, <2>2 DEF Turn
  <2> QED  BY <2>3 DEF Judged, ServerAnswersAcceptable
<1> QED  BY <1>1, <1>2, <1>3, HandshakeInit, HandshakeStep, PTL DEF Spec
=============================================================================
