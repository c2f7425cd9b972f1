----------------------------- MODULE Handshake -----------------------------
(***************************************************************************)
(* The handshake of a connection, handshake.go: two ends that exchange a   *)
(* challenge (C0C1, S0S1) and a response (S2, C2) over a TCP stream that   *)
(* may be cut.  The server end is this code, started by Server.Serve.  The *)
(* client end is this code's own client half ("own"), or another           *)
(* implementation: one that writes C2 as soon as it has S1 ("c2first"), or *)
(* one that waits for S2 before it writes C2 ("s2first").                  *)
(*                                                                         *)
(* HMAC-SHA256 is ideal: a digest is the record of its key and of the      *)
(* bytes it covers, and two digests are equal when their records are.      *)
(***************************************************************************)
EXTENDS Integers, Sequences

CONSTANTS
  Kinds,   \* the kinds of client that may connect
  Sums     \* the sums four random bytes of a packet may have

AllKinds == {"own", "c2first", "s2first"}

ASSUME HandshakeAssumption == Kinds \subseteq AllKinds /\ Sums \subseteq 0..1020

VARIABLES
  kind,     \* the kind of the client
  state,    \* [end -> steps of its handshake done]: Conn.state, from 0
  status,   \* [end -> "running", "done", "failed" or "panicked"]
  digest,   \* [end -> Conn.digest]
  sent,     \* [end -> the packets it has written]
  got,      \* [end -> how many packets of the other end it has read]
  link,     \* "up" or "cut"
  arrives   \* [end -> after the cut, how many packets reach it in all]

vars == <<kind, state, status, digest, sent, got, link, arrives>>

Ends == {"server", "client"}
Up == link = "up"
Other(p) == IF p = "server" THEN "client" ELSE "server"

-----------------------------------------------------------------------------
(* Digests *)

ResponseSize == 1536   \* HandshakeResponseSize: a challenge without its first byte
KeyLen == 32           \* HandshakeKeyLen: the length of a digest
Bases == {8, 772}      \* where the four bytes that locate a digest may lie

NoOffset == 0
NilDigest == [key |-> "nil", from |-> 0, skip |-> NoOffset]

\* makeDigest(b, key, offs), b being the packet from byte `from` on: the hash
\* of b without the KeyLen bytes at offs, or of all of b when offs is zero.
makeDigest(from, key, offs) ==
  [key |-> key, from |-> from, skip |-> IF offs > 0 THEN from + offs ELSE NoOffset]

\* The two slices makeDigest takes of a b of n bytes exist.
InRange(n, offs) == offs = 0 \/ (offs <= n /\ offs + KeyLen <= n)

\* Faulty variant: the offset is not moved past the four bytes.
WriteOffsetShort(sum, base) == (sum % 728) + base + 8

\* writeDigest: located by the four bytes at base + 8.
WriteOffset(sum, base) == (sum % 728) + base + 12

\* findDigest: located by the four bytes at base.
FindOffset(sum, base) == (sum % 728) + base + 4

\* A C1 or S1 with its digest hs written at byte `at`.
Challenge(proto, versioned, sumAt, at, hs) ==
  [type |-> "challenge", proto |-> proto, versioned |-> versioned,
   sumAt |-> sumAt, at |-> at, hs |-> hs]

Response(hs) == [type |-> "response", hs |-> hs]

findDigest(c, key, base) ==
  LET offs == FindOffset(c.sumAt[base], base)
  IN  c.at = offs /\ c.hs = makeDigest(0, key, offs)

\* Faulty variant: no second search.
FoundFirst(c, key) == findDigest(c, key, 772)

\* The two searches of recvChallenge: the second when the first fails.
Found(c, key) == \E base \in Bases : findDigest(c, key, base)
FoundOffset(c, key) ==
  LET base == IF findDigest(c, key, 772) THEN 772 ELSE 8
  IN  FindOffset(c.sumAt[base], base)

\* The keys of handshake(): the one an end signs its challenge with, and the
\* one the other end keys its response with.
PartialKey(p) == IF p = "server" THEN "ServerPartialKey" ELSE "ClientPartialKey"
FullKey(p)    == IF p = "server" THEN "ServerFullKey" ELSE "ClientFullKey"

\* What sendChallenge(version, key) may write: everything but the protocol,
\* the version and the digest is random.
OwnChallenges(key) ==
  { LET offs == WriteOffset(sumAt[8], 0)
    IN  Challenge(TRUE, TRUE, sumAt, offs, makeDigest(0, key, offs))
    : sumAt \in [Bases -> Sums] }

\* What other clients write: another protocol, a zero version (no digest
\* expected), no digest, or one at either position the server searches.
ForeignChallenges ==
  LET Signed(sumAt, base) ==
        LET offs == FindOffset(sumAt[base], base)
        IN  Challenge(TRUE, TRUE, sumAt, offs, makeDigest(0, "ClientPartialKey", offs))
  IN  { Challenge(proto, versioned, sumAt, NoOffset, NilDigest)
        : proto \in BOOLEAN, versioned \in BOOLEAN, sumAt \in [Bases -> Sums] }
      \cup { Signed(sumAt, base) : base \in Bases, sumAt \in [Bases -> Sums] }

ChallengesOf(p) ==
  IF p = "client" /\ kind # "own" THEN ForeignChallenges
  ELSE OwnChallenges(PartialKey(p))

-----------------------------------------------------------------------------
(* The state machine of handshake() *)

\* Faulty variants: a server that writes S2 before it has read C2, a client
\* that holds C2 back.
ServerStepsHasty ==
  <<"recvChallenge", "sendChallenge", "sendResponse", "recvResponse", "done">>
ClientStepsPatient ==
  <<"sendChallenge", "recvChallenge", "recvResponse", "sendResponse", "done">>

\* The cases of the switch in the order of the states.
ServerSteps ==
  <<"recvChallenge", "sendChallenge", "recvResponse", "sendResponse", "done">>
ClientSteps ==
  <<"sendChallenge", "recvChallenge", "sendResponse", "recvResponse", "done">>
PatientSteps ==
  <<"sendChallenge", "recvChallenge", "recvResponse", "sendResponse", "done">>

Steps(p) == IF p = "server" THEN ServerSteps
            ELSE IF kind = "s2first" THEN PatientSteps ELSE ClientSteps

Doing(p, step) == status[p] = "running" /\ Steps(p)[state[p] + 1] = step

Init ==
  /\ kind \in Kinds
  /\ state = [p \in Ends |-> 0]
  /\ status = [p \in Ends |-> "running"]
  /\ digest = [p \in Ends |-> NilDigest]
  /\ sent = [p \in Ends |-> << >>]
  /\ got = [p \in Ends |-> 0]
  /\ link = "up"
  /\ arrives = [p \in Ends |-> 0]

\* The case has returned nil: c.state ++.
Advance(p) == state' = [state EXCEPT ![p] = @ + 1] /\ UNCHANGED status

\* The case has returned an error, or panicked: handshake() does not go on.
Stop(p, how) == status' = [status EXCEPT ![p] = how] /\ UNCHANGED state

CanRead(p) == got[p] < (IF Up THEN Len(sent[Other(p)]) ELSE arrives[p])
NextPacket(p) == sent[Other(p)][got[p] + 1]
Take(p) == CanRead(p) /\ got' = [got EXCEPT ![p] = @ + 1]

\* What is written after the cut is lost without the writer knowing.
Put(p, packet) == sent' = [sent EXCEPT ![p] = Append(@, packet)]

sendChallenge(p) ==
  /\ Doing(p, "sendChallenge")
  /\ \E c \in ChallengesOf(p) : Put(p, c)
  /\ Advance(p)
  /\ UNCHANGED <<kind, digest, got, link, arrives>>

\* The client reads S0S1 as another implementation may: it checks nothing.
foreignRecvChallenge ==
  /\ kind # "own" /\ Doing("client", "recvChallenge")
  /\ Take("client")
  /\ Advance("client")
  /\ UNCHANGED <<kind, digest, sent, link, arrives>>

recvChallenge(p) ==
  /\ Doing(p, "recvChallenge") /\ (p = "server" \/ kind = "own")
  /\ Take(p)
  /\ LET c == NextPacket(p)
         find == Found(c, PartialKey(Other(p)))
         offs == FoundOffset(c, PartialKey(Other(p)))
     IN  \/ /\ ~c.proto
            /\ Stop(p, "failed") /\ UNCHANGED digest
         \/ /\ c.proto /\ ~c.versioned
            /\ Advance(p) /\ UNCHANGED digest
         \/ /\ c.proto /\ c.versioned /\ ~find
            /\ Stop(p, "failed") /\ UNCHANGED digest
         \/ /\ c.proto /\ c.versioned /\ find
            /\ IF InRange(ResponseSize - offs, offs)
               THEN /\ digest' = [digest EXCEPT ![p] = makeDigest(offs, FullKey(p), offs)]
                    /\ Advance(p)
               ELSE Stop(p, "panicked") /\ UNCHANGED digest
  /\ UNCHANGED <<kind, sent, link, arrives>>

sendResponse(p) ==
  /\ Doing(p, "sendResponse")
  /\ Put(p, Response(digest[p]))
  /\ Advance(p)
  /\ UNCHANGED <<kind, digest, got, link, arrives>>

\* Faulty variant: the response is left on the stream.
recvResponseUnread(p) ==
  /\ Doing(p, "recvResponse")
  /\ CanRead(p)
  /\ Advance(p)
  /\ UNCHANGED <<kind, digest, sent, got, link, arrives>>

recvResponse(p) ==
  /\ Doing(p, "recvResponse")
  /\ Take(p)
  /\ Advance(p)
  /\ UNCHANGED <<kind, digest, sent, link, arrives>>

\* The last iteration of the loop increments the state once more.
finish(p) ==
  /\ Doing(p, "done")
  /\ state' = [state EXCEPT ![p] = @ + 1]
  /\ status' = [status EXCEPT ![p] = "done"]
  /\ UNCHANGED <<kind, digest, sent, got, link, arrives>>

Writing(p) == Doing(p, "sendChallenge") \/ Doing(p, "sendResponse")
Reading(p) == Doing(p, "recvChallenge") \/ Doing(p, "recvResponse")

\* A write to, or a read from, the cut link returns an error.
fail(p) ==
  /\ ~Up
  /\ Writing(p) \/ (Reading(p) /\ ~CanRead(p))
  /\ Stop(p, "failed")
  /\ UNCHANGED <<kind, digest, sent, got, link, arrives>>

\* The link is cut; what was in flight arrives in part.
Cut ==
  /\ Up
  /\ link' = "cut"
  /\ \E s \in 0..2, c \in 0..2 :
       /\ s \in got["server"]..Len(sent["client"])
       /\ c \in got["client"]..Len(sent["server"])
       /\ arrives' = [p \in Ends |-> IF p = "server" THEN s ELSE c]
  /\ UNCHANGED <<kind, state, status, digest, sent, got>>

\* One case of the switch, whichever way it ends.
step(p) ==
  \/ sendChallenge(p)
  \/ p = "client" /\ foreignRecvChallenge
  \/ recvChallenge(p)
  \/ sendResponse(p)
  \/ recvResponse(p)
  \/ finish(p)
  \/ fail(p)

Next == Cut \/ \E p \in Ends : step(p)

Spec == Init /\ [][Next]_vars

\* handshake() never waits but for the packet it reads; a client that follows
\* its steps is taken to go on as well.  Nothing makes the link be cut.
FairSpec == Spec /\ \A p \in Ends : WF_vars(step(p))

-----------------------------------------------------------------------------
(* Properties *)

Keys == {"nil", "ServerPartialKey", "ClientPartialKey", "ServerFullKey", "ClientFullKey"}
Digests == [key : Keys, from : Nat, skip : Nat]
Packets == OwnChallenges("ServerPartialKey") \cup OwnChallenges("ClientPartialKey")
           \cup ForeignChallenges \cup [type : {"response"}, hs : Digests]

TypeOK ==
  /\ kind \in AllKinds
  /\ state \in [Ends -> 0..5]
  /\ status \in [Ends -> {"running", "done", "failed", "panicked"}]
  /\ digest \in [Ends -> Digests]
  /\ sent \in [Ends -> Seq(Packets)]
  /\ got \in [Ends -> 0..2]
  /\ link \in {"up", "cut"}
  /\ arrives \in [Ends -> 0..2]

(***************************************************************************)
(* An end that finishes knows how far the other has come: a server that is *)
(* done has a client that has read S0S1, and a client that is done has     *)
(* read S2 from a server that had read C2.  It follows from no case of the *)
(* switch alone: it takes the order of the states of both ends, whatever   *)
(* the client, and whatever the cut link lost.                             *)
(***************************************************************************)
HandshakeOrder ==
  /\ status["server"] = "done" => got["server"] = 2 /\ got["client"] >= 1
  /\ status["client"] = "done" => got["client"] = 2 /\ got["server"] = 2

(***************************************************************************)
(* This code understands itself: between its own client and server no      *)
(* challenge is refused and neither end panics, whatever the random bytes. *)
(* It needs the offset writeDigest picks to be the one findDigest looks    *)
(* at, the keys of the two halves to match, and the slices of              *)
(* handshake.go:240 to exist.                                              *)
(***************************************************************************)
OwnEndsAgree ==
  kind = "own" => \A p \in Ends :
    status[p] # "panicked" /\ (status[p] = "failed" => ~Up)

(***************************************************************************)
(* A server answers exactly the challenges it should: it has written S0S1  *)
(* only for a C0C1 of its protocol with no version or with the digest of a *)
(* client, and it gives such a client up only when the link is cut or,     *)
(* for a digest in the second half, by panicking.                          *)
(***************************************************************************)
Acceptable(c) ==
  c.proto /\ (~c.versioned \/ \E base \in Bases :
    c.at = FindOffset(c.sumAt[base], base) /\ c.hs.key = "ClientPartialKey")

ServerAnswersAcceptable ==
  /\ sent["server"] # << >> => Acceptable(sent["client"][1])
  /\ got["server"] >= 1 /\ Acceptable(sent["client"][1]) /\ Up =>
       status["server"] # "failed"

(***************************************************************************)
(* The two ends never wait for each other, unless the client holds C2 back *)
(* until it has S2: this server reads C2 before it writes S2, and no       *)
(* deadline would end the wait.                                            *)
(***************************************************************************)
Waiting(p) == Reading(p) /\ Up /\ ~CanRead(p)

MutualWaitOnlyIfPatient ==
  Waiting("server") /\ Waiting("client") => kind = "s2first"

(***************************************************************************)
(* The strengthening that makes HandshakeOrder and OwnEndsAgree inductive. *)
(* Progress: what an end has written and read is determined by its state,  *)
(* except that a challenge it refuses has been read.  Transit: nothing is  *)
(* read that was not written, before the cut or after it.  Opening: what   *)
(* an end writes first is a challenge of its kind.                         *)
(***************************************************************************)
Turn(n, first, second) == IF n <= first THEN 0 ELSE IF n <= second THEN 1 ELSE 2
Patient == kind = "s2first"

Written ==
  /\ Len(sent["server"]) = Turn(state["server"], 1, 3)
  /\ Len(sent["client"]) = Turn(state["client"], 0, IF Patient THEN 3 ELSE 2)

Expected(p) == IF p = "server" THEN Turn(state[p], 0, 2)
               ELSE Turn(state[p], 1, IF Patient THEN 2 ELSE 3)

Refused(p) ==
  /\ status[p] \in {"failed", "panicked"}
  /\ state[p] = (IF p = "server" THEN 0 ELSE 1) /\ got[p] = 1

Progress ==
  /\ Written
  /\ \A p \in Ends : got[p] = Expected(p) \/ Refused(p)
  /\ \A p \in Ends : /\ status[p] = "running" => state[p] <= 4
                     /\ status[p] = "done" => state[p] = 5

Transit ==
  \A p \in Ends : /\ got[p] <= Len(sent[Other(p)])
                  /\ ~Up => got[p] <= arrives[p] /\ arrives[p] <= Len(sent[Other(p)])

Opening == \A p \in Ends : sent[p] # << >> => sent[p][1] \in ChallengesOf(p)

HandshakeInv == TypeOK /\ Progress /\ Transit /\ Opening /\ OwnEndsAgree

(***************************************************************************)
(* While the link stays up, this code's client and server both finish, and *)
(* a server whose client answers S1 with C2 finishes or gives the client   *)
(* up.                                                                     *)
(***************************************************************************)
HandshakeCompletes ==
  []Up => /\ kind = "own" => <>(\A p \in Ends : status[p] = "done")
          /\ kind = "c2first" => <>(status["server"] # "running")

(***************************************************************************)
(* handshake.go:22 says that the position of digest1 is calculated on the  *)
(* random bytes of the packet, and recvChallenge looks at both places it   *)
(* may be: a handshake ends with success or with an error, never a panic.  *)
(***************************************************************************)
NeverPanics == \A p \in Ends : status[p] # "panicked"
=============================================================================
