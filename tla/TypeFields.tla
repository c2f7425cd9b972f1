----------------------------- MODULE TypeFields -----------------------------
(***************************************************************************)
(* typeFields (encode.go): which fields of a struct type are encoded, and  *)
(* under which name, when structs are embedded in structs.  It is a        *)
(* breadth-first search of the embedded structs, level by level, followed  *)
(* by a choice among the fields of the same name.                          *)
(*                                                                         *)
(* Struct types are given by their fields.  A name is a number, in the     *)
(* order of strings, and 0 is the empty one.                               *)
(***************************************************************************)
EXTENDS Naturals, Sequences, FiniteSets

CONSTANTS
  Graphs,  \* the families of struct types, each a function to their fields
  Top      \* the type whose fields are asked for

VARIABLES
  decl,       \* the struct types
  current,    \* the embedded structs to scan at this level, with their index
  next,       \* and at the next
  count,      \* how often each type was found for this level
  nextCount,  \* and for the next
  visited,    \* the types scanned
  fields,     \* the fields found
  stage       \* scan, or done

typeFieldsVars == <<decl, current, next, count, nextCount, visited, fields, stage>>

Structs == DOMAIN decl

\* reflect.StructField; typ is a struct type or "other".
StructField(name, tag, typ, anonymous, exported) ==
  [name |-> name, tag |-> tag, typ |-> typ, anonymous |-> anonymous, exported |-> exported]

StructFields(types) ==
  [name : Nat, tag : Nat, typ : types \cup {"other"}, anonymous : BOOLEAN, exported : BOOLEAN]

\* A program has finitely many types, and declares those it names.
ASSUME GraphsAssumption ==
  \A g \in Graphs :
    /\ IsFiniteSet(DOMAIN g) /\ Top \in DOMAIN g
    /\ g \in [DOMAIN g -> Seq(StructFields(DOMAIN g))]

\* The tag that leaves a field out.
Dash == 99

TypeFieldsInit ==
  /\ decl \in Graphs
  /\ current = << >> /\ next = <<[typ |-> Top, index |-> << >>]>>
  /\ count = [t \in Structs |-> 0] /\ nextCount = [t \in Structs |-> 0]
  /\ visited = {} /\ fields = << >> /\ stage = "scan"

\* The members of S in the order R, a set of pairs: each comes after as many
\* as are less.
Below(x, S, R) == {y \in S : <<y, x>> \in R}
InOrder(S, R) == [k \in 1..Cardinality(S) |-> CHOOSE x \in S : Cardinality(Below(x, S, R)) = k - 1]

-----------------------------------------------------------------------------
(* The search *)

Ignored(sf) == (~sf.exported /\ ~(sf.anonymous /\ sf.typ # "other")) \/ sf.tag = Dash

\* Encoded as one field, not for its own fields.
Recorded(sf) == sf.tag # 0 \/ ~sf.anonymous \/ sf.typ = "other"

\* The positions in t of the fields recorded, and of those to look into.
RecordedIn(t) == {i \in DOMAIN decl[t] : ~Ignored(decl[t][i]) /\ Recorded(decl[t][i])}
EmbeddedIn(t) == {i \in DOMAIN decl[t] : ~Ignored(decl[t][i]) /\ ~Recorded(decl[t][i])}

\* Those where t is embedded in s.
EmbeddedAs(t, s) == {i \in EmbeddedIn(s) : decl[s][i].typ = t}

\* The field at i of the struct f, and the struct there.
FieldAt(f, i) ==
  LET sf == decl[f.typ][i]
  IN  [name |-> IF sf.tag # 0 THEN sf.tag ELSE sf.name, tag |-> sf.tag # 0, index |-> Append(f.index, i)]
StructAt(f, i) == [typ |-> decl[f.typ][i].typ, index |-> Append(f.index, i)]

\* Positions in the order of the declaration.
Positions(S) == InOrder(S, {p \in S \X S : p[1] < p[2]})

\* A field twice for a struct found more than once: all that matters is that
\* it is not alone.
Found(f) ==
  LET at == Positions(RecordedIn(f.typ))
      once == [k \in DOMAIN at |-> FieldAt(f, at[k])]
  IN  IF count[f.typ] > 1 THEN [k \in 1..(2 * Len(once)) |-> once[(k + 1) \div 2]] ELSE once

\* Each embedded type is queued once, where it is found first.
Queued(f) ==
  LET Type(i) == decl[f.typ][i].typ
      at == Positions({i \in EmbeddedIn(f.typ) : nextCount[Type(i)] = 0
                         /\ \A j \in EmbeddedIn(f.typ) : j < i => Type(j) # Type(i)})
  IN  [k \in DOMAIN at |-> StructAt(f, at[k])]

scan ==
  /\ stage = "scan" /\ current # << >>
  /\ LET f == Head(current)
     IN  IF f.typ \in visited
         THEN UNCHANGED <<fields, next, nextCount, visited>>
         ELSE /\ visited' = visited \cup {f.typ}
              /\ fields' = fields \o Found(f)
              /\ next' = next \o Queued(f)
              /\ nextCount' = [t \in Structs |-> nextCount[t] + Cardinality(EmbeddedAs(t, f.typ))]
  /\ current' = Tail(current)
  /\ UNCHANGED <<decl, count, stage>>

\* Faulty variant: what was next stays so.
nextLevelKept ==
  /\ stage = "scan" /\ current = << >> /\ next # << >>
  /\ current' = next
  /\ count' = nextCount /\ nextCount' = [t \in Structs |-> 0]
  /\ UNCHANGED <<decl, next, visited, fields, stage>>

nextLevel ==
  /\ stage = "scan" /\ current = << >> /\ next # << >>
  /\ current' = next /\ next' = << >>
  /\ count' = nextCount /\ nextCount' = [t \in Structs |-> 0]
  /\ UNCHANGED <<decl, visited, fields, stage>>

-----------------------------------------------------------------------------
(* The choice *)

\* byIndex: in the order of the declarations.
IndexLess(x, y) ==
  \E k \in 1..Len(y) :
    /\ k <= Len(x) + 1 /\ \A j \in 1..(k - 1) : x[j] = y[j]
    /\ k > Len(x) \/ x[k] < y[k]

\* By name, then depth, then tags first, then index.
NameLess(x, y) ==
  IF x.name # y.name THEN x.name < y.name
  ELSE IF Len(x.index) # Len(y.index) THEN Len(x.index) < Len(y.index)
  ELSE IF x.tag # y.tag THEN x.tag
  ELSE IndexLess(x.index, y.index)

\* Faulty variant: tags count only if there is just one of them at any depth.
dominantFieldByTag(group) ==
  LET tagged == {i \in group : fields[i].tag}
  IN  IF Cardinality(tagged) = 1 THEN tagged
      ELSE IF tagged = {} /\ Cardinality(group) = 1 THEN group ELSE {}

\* Of the positions of the fields of one name: of those as deep as the first
\* in the order they are sorted in, the only one, or the only one with a tag;
\* none otherwise.
dominantField(group) ==
  LET first == CHOOSE i \in group : \A j \in group : ~NameLess(fields[j], fields[i])
      shallow == {i \in group : Len(fields[i].index) = Len(fields[first].index)}
      tagged == {i \in shallow : fields[i].tag}
  IN  IF Cardinality(tagged) = 1 THEN tagged
      ELSE IF tagged = {} /\ Cardinality(shallow) = 1 THEN shallow ELSE {}

Dominant ==
  LET Group(n) == {i \in DOMAIN fields : fields[i].name = n}
      Names == {fields[i].name : i \in DOMAIN fields}
  IN  {fields[i] : i \in UNION {dominantField(Group(n)) : n \in Names}}

choose ==
  /\ stage = "scan" /\ current = << >> /\ next = << >>
  /\ fields' = InOrder(Dominant, {p \in Dominant \X Dominant : IndexLess(p[1].index, p[2].index)})
  /\ stage' = "done"
  /\ UNCHANGED <<decl, current, next, count, nextCount, visited>>

TypeFieldsNext == scan \/ nextLevel \/ choose

TypeFieldsSpec ==
  TypeFieldsInit /\ [][TypeFieldsNext]_typeFieldsVars /\ WF_typeFieldsVars(TypeFieldsNext)

-----------------------------------------------------------------------------
(* What Go says of promoted fields *)

\* All the ways down n embedded structs, with the type they end at.
Down(W) == UNION {{StructAt(w, i) : i \in EmbeddedIn(w.typ)} : w \in W}
Ways[n \in Nat] == IF n = 0 THEN {[typ |-> Top, index |-> << >>]} ELSE Down(Ways[n - 1])

\* The fields at the ends of them.
AtDepth(n) == UNION {{FieldAt(w, i) : i \in RecordedIn(w.typ)} : w \in Ways[n]}

\* No way without a type twice is longer than there are types.
Depths == 0..Cardinality(Structs)

\* A name stands for the one field of that name at the least depth there is
\* one, or the one of them with a tag.
Shallowest(f, n) == f \in AtDepth(n) /\ \A m \in 0..(n - 1) : \A g \in AtDepth(m) : g.name # f.name
Rivals(f, n) == {g \in AtDepth(n) : g.name = f.name /\ g # f}
GoFields ==
  UNION {{f \in AtDepth(n) : Shallowest(f, n) /\ \A g \in Rivals(f, n) : f.tag /\ ~g.tag} : n \in Depths}

-----------------------------------------------------------------------------
(* Properties *)

\* A struct embedded by several ways of one length that embeds another.
SharedEmbedder ==
  \E n \in Depths : \E v, w \in Ways[n] : v # w /\ v.typ = w.typ /\ EmbeddedIn(v.typ) # {}

(***************************************************************************)
(* "Delete all fields that are hidden by the Go rules for embedded fields, *)
(* except that fields with JSON tags are promoted" (encode.go:753-754):    *)
(* what is encoded is what Go says, in the order of the declarations.      *)
(***************************************************************************)
GoRules ==
  stage = "done" =>
    /\ {fields[i] : i \in DOMAIN fields} = GoFields
    /\ \A i, j \in DOMAIN fields : i < j => IndexLess(fields[i].index, fields[j].index)

(***************************************************************************)
(* It is, but where the search counts the structs it queues                *)
(* (encode.go:728) once for a struct that embeds them several times over.  *)
(***************************************************************************)
GoRulesUnlessShared == stage = "done" /\ ~SharedEmbedder => GoRules

(***************************************************************************)
(* The search ends, with types that embed pointers to each other too.      *)
(***************************************************************************)
SearchEnds == <>(stage = "done")
=============================================================================
