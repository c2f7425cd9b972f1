--------------------------- MODULE EncoderService ---------------------------
(***************************************************************************)
(* What the encoder cache of package amf promises its callers: goroutines  *)
(* encode values; the encoder of a type is made once, whoever needs it     *)
(* first, and serves everybody; a value is only ever encoded by the        *)
(* encoder of its own type, after it has been made; and every call         *)
(* returns.  TypeEncoderCache implements it.                               *)
(***************************************************************************)
CONSTANTS
  Goroutines,
  Types,
  NextTypes    \* for each type, those of the values a value of it may hold

VARIABLES
  made,        \* the types whose encoder exists
  encoding     \* the type of the value each goroutine is at; NoType if none

NoType == "no type"

serviceVars == <<made, encoding>>

ServiceInit == made = {} /\ encoding = [g \in Goroutines |-> NoType]

\* Marshal(v), with v of type t.
Call(g, t) ==
  /\ encoding[g] = NoType
  /\ encoding' = [encoding EXCEPT ![g] = t]
  /\ UNCHANGED made

Make(t) == t \notin made /\ made' = made \cup {t} /\ UNCHANGED encoding

\* On to a value that the one at hand holds.
Descend(g, t) ==
  /\ encoding[g] \in made /\ t \in NextTypes[encoding[g]]
  /\ encoding' = [encoding EXCEPT ![g] = t]
  /\ UNCHANGED made

Return(g) ==
  /\ encoding[g] \in made
  /\ encoding' = [encoding EXCEPT ![g] = NoType]
  /\ UNCHANGED made

ServiceNext ==
  \/ \E g \in Goroutines, t \in Types : Call(g, t) \/ Descend(g, t)
  \/ \E t \in Types : Make(t)
  \/ \E g \in Goroutines : Return(g)

\* Values are finite: whoever has called returns in the end.
Returns == \A g \in Goroutines : encoding[g] # NoType ~> encoding[g] = NoType

ServiceSteps == ServiceInit /\ [][ServiceNext]_serviceVars

ServiceSpec == ServiceSteps /\ Returns
=============================================================================
