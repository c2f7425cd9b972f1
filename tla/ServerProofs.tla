---------------------------- MODULE ServerProofs ----------------------------
(***************************************************************************)
(* That a socket stays open while it is served, and that nobody waits for  *)
(* a server that has returned, for any number of peers and descriptors and *)
(* whatever fails.                                                         *)
(***************************************************************************)
EXTENDS Server, TLAPS

ServerTypeOK ==
  /\ loop \in {"accept", "newConn", "returned", "dead"}
  /\ backlog \in Seq(Sockets)
  /\ sock \in [Sockets -> {"away", "waiting", "held", "closed"}]
  /\ serving \in [Sockets -> ToSet(Parts) \cup {"none", "returned"}]

(***************************************************************************)
(* Those in the backlog wait, each once, and nobody serves them yet.       *)
(***************************************************************************)
Queued ==
  /\ \A i \in DOMAIN backlog : sock[backlog[i]] = "waiting"
  /\ \A i, j \in DOMAIN backlog : i # j => backlog[i] # backlog[j]
  /\ \A s \in Sockets : sock[s] \in {"away", "waiting"} => serving[s] = "none"

(***************************************************************************)
(* Between Accept and the go statement the socket is held for a goroutine  *)
(* that does not exist yet (server.go:62-76).                              *)
(***************************************************************************)
Pending ==
  loop = "newConn" => cur \in Sockets /\ sock[cur] = "held" /\ serving[cur] = "none"

ServerInv == ServerTypeOK /\ Queued /\ Pending /\ ServedKeepSockets

LEMMA PartsAre == ToSet(Parts) = {"handshake", "serveNew", "pumpMessage"}
  BY DEF ToSet, Parts

LEMMA InitServer == ServerInit => ServerInv
<1> SUFFICES ASSUME ServerInit PROVE ServerInv
  OBVIOUS
<1>1. ServerTypeOK
  BY DEF ServerInit, ServerTypeOK
<1>2. Queued /\ Pending
  BY DEF ServerInit, Queued, Pending
<1>3. ServedKeepSockets
  BY PartsAre DEF ServerInit, ServedKeepSockets, Busy
<1> QED  BY <1>1, <1>2, <1>3 DEF ServerInv

LEMMA ConnectServer ==
  ASSUME ServerInv, NEW s \in Sockets, Connect(s)
  PROVE  ServerInv'
<1> USE DEF ServerInv
<1>1. /\ loop \in {"accept", "newConn"} /\ sock[s] = "away"
      /\ sock' = [sock EXCEPT ![s] = "waiting"] /\ backlog' = Append(backlog, s)
      /\ UNCHANGED <<loop, cur, serving>>
  BY DEF Connect
<1>2. sock'[s] = "waiting" /\ \A r \in Sockets \ {s} : sock'[r] = sock[r]
  BY <1>1 DEF ServerTypeOK
<1>3. ServerTypeOK'
  BY <1>1 DEF ServerTypeOK
<1>4. /\ DOMAIN backlog = 1..Len(backlog) /\ Len(backlog) \in Nat
      /\ DOMAIN backlog' = 1..Len(backlog) + 1
      /\ \A i \in DOMAIN backlog : backlog[i] \in Sockets \ {s} /\ backlog'[i] = backlog[i]
      /\ backlog'[Len(backlog) + 1] = s
  BY <1>1 DEF ServerTypeOK, Queued
<1>5. Queued'
  <2>1. \A i \in DOMAIN backlog' : sock'[backlog'[i]] = "waiting"
    BY <1>2, <1>4 DEF Queued
  <2>2. \A i, j \in DOMAIN backlog' : i # j => backlog'[i] # backlog'[j]
    BY <1>4 DEF Queued
  <2>3. \A r \in Sockets : sock'[r] \in {"away", "waiting"} => serving'[r] = "none"
    BY <1>1, <1>2 DEF Queued
  <2> QED  BY <2>1, <2>2, <2>3 DEF Queued
<1>6. Pending'
  BY <1>1, <1>2 DEF Pending
<1>7. ServedKeepSockets'
  BY <1>1, <1>2, PartsAre DEF ServedKeepSockets, Busy
<1> QED  BY <1>3, <1>5, <1>6, <1>7

LEMMA AcceptServer ==
  ASSUME ServerInv, Accept
  PROVE  ServerInv'
<1> USE DEF ServerInv
<1> DEFINE s == backlog[1]
<1>1. /\ backlog # << >> /\ s = Head(backlog)
      /\ loop = "accept" /\ loop' = "newConn" /\ cur' = s /\ backlog' = Tail(backlog)
      /\ sock' = [sock EXCEPT ![s] = "held"] /\ serving' = serving
  BY DEF Accept, ServerTypeOK
<1>2. /\ DOMAIN backlog = 1..Len(backlog) /\ Len(backlog) \in Nat \ {0}
      /\ backlog' \in Seq(Sockets)
      /\ DOMAIN backlog' = 1..Len(backlog) - 1
      /\ \A i \in DOMAIN backlog' : backlog'[i] = backlog[i + 1] /\ i + 1 \in DOMAIN backlog
  BY <1>1 DEF ServerTypeOK
<1>3. s \in Sockets /\ sock[s] = "waiting" /\ serving[s] = "none"
  BY <1>2 DEF ServerTypeOK, Queued
<1>4. sock'[s] = "held" /\ \A r \in Sockets \ {s} : sock'[r] = sock[r]
  BY <1>1, <1>3 DEF ServerTypeOK
<1>5. ServerTypeOK'
  BY <1>1, <1>2, <1>3 DEF ServerTypeOK
<1>6. Queued'
  <2>1. \A i \in DOMAIN backlog' : backlog'[i] \in Sockets \ {s} /\ sock[backlog'[i]] = "waiting"
    BY <1>2 DEF Queued, ServerTypeOK
  <2>2. \A i \in DOMAIN backlog' : sock'[backlog'[i]] = "waiting"
    BY <2>1, <1>4
  <2>3. \A i, j \in DOMAIN backlog' : i # j => backlog'[i] # backlog'[j]
    BY <1>2 DEF Queued
  <2>4. \A r \in Sockets : sock'[r] \in {"away", "waiting"} => serving'[r] = "none"
    BY <1>1, <1>4 DEF Queued
  <2> QED  BY <2>2, <2>3, <2>4 DEF Queued
<1>7. Pending'
  BY <1>1, <1>3, <1>4 DEF Pending
<1>8. ServedKeepSockets'
  BY <1>1, <1>4 DEF ServedKeepSockets, Busy
<1> QED  BY <1>5, <1>6, <1>7, <1>8

LEMMA AcceptFailsServer ==
  ASSUME ServerInv, acceptFails
  PROVE  ServerInv'
<1> USE DEF ServerInv
<1>1. /\ loop' = "returned" /\ backlog' = << >> /\ UNCHANGED <<cur, serving>>
      /\ sock' = [s \in Sockets |-> IF sock[s] = "waiting" THEN "closed" ELSE sock[s]]
  BY DEF acceptFails, Closed
<1>2. ServerTypeOK' /\ Queued' /\ Pending'
  BY <1>1 DEF ServerTypeOK, Queued, Pending
<1>3. ServedKeepSockets'
  BY <1>1 DEF ServerTypeOK, ServedKeepSockets, Busy
<1> QED  BY <1>2, <1>3

LEMMA GoServeServer ==
  ASSUME ServerInv, goServe
  PROVE  ServerInv'
<1> USE DEF ServerInv
<1>1. /\ cur \in Sockets /\ sock[cur] = "held"
      /\ loop' = "accept" /\ UNCHANGED <<cur, backlog, sock>>
      /\ serving' = [serving EXCEPT ![cur] = "handshake"]
  BY DEF goServe, Pending
<1>2. \A r \in Sockets \ {cur} : serving'[r] = serving[r]
  BY <1>1 DEF ServerTypeOK
<1>3. ServerTypeOK'
  BY <1>1, PartsAre DEF ServerTypeOK
<1>4. Queued' /\ Pending'
  BY <1>1, <1>2 DEF Queued, Pending
<1>5. ServedKeepSockets'
  BY <1>1, <1>2 DEF ServedKeepSockets, Busy
<1> QED  BY <1>3, <1>4, <1>5

LEMMA GoOnServer ==
  ASSUME ServerInv, NEW s \in Sockets, goOn(s) \/ giveUp(s)
  PROVE  ServerInv'
<1> USE DEF ServerInv
<1>1. PICK to \in ToSet(Parts) \cup {"returned"} :
        serving' = [serving EXCEPT ![s] = to] /\ UNCHANGED <<loop, cur, backlog, sock>>
  BY PartsAre DEF goOn, giveUp, Parts
<1>2. Busy(s) /\ sock[s] = "held"
  <2>1. Busy(s)
    BY PartsAre DEF goOn, giveUp, Parts, Busy
  <2> QED  BY <2>1 DEF ServedKeepSockets
<1>3. ServerTypeOK'
  BY <1>1 DEF ServerTypeOK
<1>4. \A r \in Sockets \ {s} : serving'[r] = serving[r]
  BY <1>1 DEF ServerTypeOK
<1>5. Queued'
  BY <1>1, <1>2, <1>4 DEF Queued
<1>6. Pending'
  <2>1. loop = "newConn" => cur # s
    BY <1>2, PartsAre DEF Pending, Busy
  <2> QED  BY <1>1, <1>4, <2>1 DEF Pending
<1>7. ServedKeepSockets'
  BY <1>1, <1>2, <1>4 DEF ServedKeepSockets, Busy
<1> QED  BY <1>3, <1>5, <1>6, <1>7

LEMMA PanicServer ==
  ASSUME ServerInv, NEW s \in Sockets, panic(s)
  PROVE  ServerInv'
<1> USE DEF ServerInv
<1>1. /\ loop' = "dead" /\ backlog' = << >> /\ UNCHANGED cur
      /\ sock' = [r \in Sockets |-> IF sock[r] \in {"waiting", "held"} THEN "closed" ELSE sock[r]]
      /\ serving' = [r \in Sockets |-> IF Busy(r) THEN "returned" ELSE serving[r]]
  BY DEF panic, Closed
<1>2. ServerTypeOK'
  BY <1>1 DEF ServerTypeOK
<1>3. Queued' /\ Pending'
  <2>1. \A r \in Sockets : Busy(r) => sock[r] = "held"
    BY DEF ServedKeepSockets
  <2> QED  BY <1>1, <2>1 DEF Queued, Pending, ServerTypeOK
<1>4. ServedKeepSockets'
  <2>1. \A r \in Sockets : sock'[r] # "waiting"
    BY <1>1 DEF ServerTypeOK
  <2>2. \A r \in Sockets : ~Busy(r)'
    BY <1>1, PartsAre DEF Busy
  <2> QED  BY <1>1, <2>1, <2>2 DEF ServedKeepSockets
<1> QED  BY <1>2, <1>3, <1>4

LEMMA CollectServer ==
  ASSUME ServerInv, NEW s \in Sockets, collect(s)
  PROVE  ServerInv'
<1> USE DEF ServerInv
<1>1. /\ sock[s] = "held" /\ serving[s] = "returned"
      /\ sock' = [sock EXCEPT ![s] = "closed"]
      /\ UNCHANGED <<loop, cur, backlog, serving>>
  BY DEF collect
<1>2. sock'[s] = "closed" /\ \A r \in Sockets \ {s} : sock'[r] = sock[r]
  BY <1>1 DEF ServerTypeOK
<1>3. ServerTypeOK'
  BY <1>1 DEF ServerTypeOK
<1>4. Queued'
  <2>1. \A i \in DOMAIN backlog : backlog[i] \in Sockets \ {s}
    BY <1>1 DEF Queued, ServerTypeOK
  <2> QED  BY <1>1, <1>2, <2>1 DEF Queued
<1>5. Pending'
  BY <1>1, <1>2 DEF Pending
<1>6. ServedKeepSockets'
  BY <1>1, <1>2, PartsAre DEF ServedKeepSockets, Busy
<1> QED  BY <1>3, <1>4, <1>5, <1>6

LEMMA ServerStep == ServerInv /\ [ServerNext]_vars => ServerInv'
<1> SUFFICES ASSUME ServerInv, [ServerNext]_vars
             PROVE  ServerInv'
  OBVIOUS
<1>1. CASE Serve
  BY <1>1, AcceptServer, AcceptFailsServer, GoServeServer DEF Serve
<1>2. CASE \E s \in Sockets : Connect(s) \/ goOn(s) \/ giveUp(s) \/ panic(s) \/ collect(s)
  BY <1>2, ConnectServer, GoOnServer, PanicServer, CollectServer
<1>3. CASE UNCHANGED vars
  BY <1>3 DEF vars, ServerInv, ServerTypeOK, Queued, Pending, ServedKeepSockets, Busy
<1> QED  BY <1>1, <1>2, <1>3 DEF ServerNext

-----------------------------------------------------------------------------

(***************************************************************************)
(* Nobody waits for a server that has returned, and no socket is closed    *)
(* that a goroutine still serves (server.go:57-77).                        *)
(***************************************************************************)
THEOREM ServedKeepSocketsAlways == ServerSpec => []ServedKeepSockets
<1>1. ServerInv => ServedKeepSockets
  BY DEF ServerInv
<1> QED  BY <1>1, InitServer, ServerStep, PTL DEF ServerSpec
=============================================================================
