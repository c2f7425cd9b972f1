------------------------------- MODULE Server -------------------------------
(***************************************************************************)
(* Serve (server.go) and the goroutines it starts (conn.go): one goroutine *)
(* accepts sockets, makes a Conn for each, and starts a goroutine that     *)
(* serves it.  Nobody waits for that goroutine.  Nobody closes the socket  *)
(* when it returns either: the runtime does, at some time after the Conn   *)
(* has become garbage.                                                     *)
(***************************************************************************)
EXTENDS Naturals, Sequences, FiniteSets, SequencesExt

CONSTANTS
  Sockets,   \* the connections peers may make
  MaxFiles   \* how many sockets the process may hold

ASSUME ServerAssumption == MaxFiles \in Nat

VARIABLES
  loop,      \* accept, newConn, returned, or dead with the process
  cur,       \* the socket it has accepted last
  backlog,   \* the sockets that wait to be accepted
  sock,      \* away, waiting, held, or closed
  serving    \* each goroutine: none, handshake, serveNew, pumpMessage, returned

vars == <<loop, cur, backlog, sock, serving>>

NoSocket == "none"

ServerInit ==
  /\ loop = "accept" /\ cur = NoSocket /\ backlog = << >>
  /\ sock = [s \in Sockets |-> "away"]
  /\ serving = [s \in Sockets |-> "none"]

Held == {s \in Sockets : sock[s] = "held"}

\* A peer connects while the listener is open.
Connect(s) ==
  /\ loop \in {"accept", "newConn"} /\ sock[s] = "away"
  /\ sock' = [sock EXCEPT ![s] = "waiting"]
  /\ backlog' = Append(backlog, s)
  /\ UNCHANGED <<loop, cur, serving>>

\* The listener goes, with those that wait.
Closed(which) == [s \in Sockets |-> IF sock[s] \in which THEN "closed" ELSE sock[s]]

-----------------------------------------------------------------------------
(* Serve *)

Accept ==
  /\ loop = "accept" /\ backlog # << >> /\ Cardinality(Held) < MaxFiles
  /\ loop' = "newConn" /\ cur' = Head(backlog) /\ backlog' = Tail(backlog)
  /\ sock' = [sock EXCEPT ![Head(backlog)] = "held"]
  /\ UNCHANGED serving

\* Faulty variant: the listener stays open.
acceptFailsOpen ==
  /\ loop = "accept"
  /\ loop' = "returned"
  /\ UNCHANGED <<cur, backlog, sock, serving>>

\* Any error, a shortage of descriptors too, ends Serve: defer l.Close().
acceptFails ==
  /\ loop = "accept"
  /\ loop' = "returned" /\ backlog' = << >>
  /\ sock' = Closed({"waiting"})
  /\ UNCHANGED <<cur, serving>>

\* Faulty variant: Serve serves the connection itself.
serveInline ==
  /\ loop = "newConn"
  /\ serving' = [serving EXCEPT ![cur] = IF @ = "none" THEN "handshake" ELSE @]
  /\ loop' = IF serving[cur] = "returned" THEN "accept" ELSE loop
  /\ UNCHANGED <<cur, backlog, sock>>

\* newConn, setState, the handlers, and go c.serve().
goServe ==
  /\ loop = "newConn"
  /\ serving' = [serving EXCEPT ![cur] = "handshake"]
  /\ loop' = "accept"
  /\ UNCHANGED <<cur, backlog, sock>>

-----------------------------------------------------------------------------
(* Conn.serve *)

Parts == <<"handshake", "serveNew", "pumpMessage">>
Busy(s) == serving[s] \in ToSet(Parts)

\* On to the next part.  Each may last for ever: no deadline is set.
goOn(s) ==
  /\ \E i \in 1..2 : serving[s] = Parts[i] /\ serving' = [serving EXCEPT ![s] = Parts[i + 1]]
  /\ UNCHANGED <<loop, cur, backlog, sock>>

\* An error: serve returns, and the socket stays.
giveUp(s) ==
  /\ Busy(s)
  /\ serving' = [serving EXCEPT ![s] = "returned"]
  /\ UNCHANGED <<loop, cur, backlog, sock>>

\* A panic in any goroutine ends the process.
panic(s) ==
  /\ Busy(s)
  /\ loop' = "dead" /\ backlog' = << >>
  /\ sock' = Closed({"waiting", "held"})
  /\ serving' = [r \in Sockets |-> IF Busy(r) THEN "returned" ELSE serving[r]]
  /\ UNCHANGED cur

collect(s) ==
  /\ sock[s] = "held" /\ serving[s] = "returned"
  /\ sock' = [sock EXCEPT ![s] = "closed"]
  /\ UNCHANGED <<loop, cur, backlog, serving>>

Serve == Accept \/ acceptFails \/ goServe

ServerNext ==
  \/ Serve
  \/ \E s \in Sockets : Connect(s) \/ goOn(s) \/ giveUp(s) \/ panic(s) \/ collect(s)

\* The goroutine of Serve is scheduled; peers, applications and the garbage
\* collector may do as they like.
ServerSpec == ServerInit /\ [][ServerNext]_vars /\ WF_vars(Serve)

-----------------------------------------------------------------------------
(* Properties *)

(***************************************************************************)
(* Whatever other peers do, and however long they take, a peer that has    *)
(* connected is served or turned away (server.go:62-76): handshakes that   *)
(* never end do not keep the loop from it.                                 *)
(***************************************************************************)
PeersAnswered ==
  \A s \in Sockets : sock[s] = "waiting" ~> (sock[s] = "closed" \/ serving[s] # "none")

(***************************************************************************)
(* When Serve has returned nobody waits, and the connections accepted      *)
(* before go on: none has been closed that its goroutine still serves.     *)
(***************************************************************************)
ServedKeepSockets ==
  /\ loop \in {"returned", "dead"} => \A s \in Sockets : sock[s] # "waiting"
  /\ \A s \in Sockets : Busy(s) => sock[s] = "held"
=============================================================================
