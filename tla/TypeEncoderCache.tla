-------------------------- MODULE TypeEncoderCache --------------------------
(***************************************************************************)
(* The caches of package amf (encode.go): encoderCache, from types to      *)
(* encoders, and fieldCache, from struct types to the fields to encode.    *)
(* Both are shared by every goroutine that encodes or decodes.             *)
(*                                                                         *)
(* To make the encoder of a type is to ask for the encoders of its parts,  *)
(* and types may refer to themselves and to each other.  So typeEncoder    *)
(* first stores a placeholder, whose users wait on a WaitGroup when they   *)
(* encode, and then makes the encoder.  Every access to a cache is a step; *)
(* a goroutine that is making encoders has them on a stack.                *)
(***************************************************************************)
EXTENDS Naturals, Sequences, SequencesExt

CONSTANTS
  Goroutines,
  Types,
  Parts,       \* for each type, those newTypeEncoder asks typeEncoder for
  Structs,     \* the types whose parts are the fields of a struct
  Interfaces,  \* the types whose values hold a value of any type
  MaxDepth     \* bound on how deep values are nested

ASSUME TypesAssumption ==
  /\ Types # {}
  /\ Parts \in [Types -> Seq(Types)]
  /\ Structs \subseteq Types /\ Interfaces \subseteq Types
  /\ \A t \in Interfaces : Parts[t] = << >>
  /\ MaxDepth \in Nat

VARIABLES
  pc,            \* what each goroutine does next
  want,          \* the type it asks typeEncoder for
  stack,         \* the encoders, and lists of fields, it is making
  at,            \* the encoder it encodes a value with
  depth,         \* how deep that value is nested
  encoderCache,  \* NoEncoder, or the encoder of the type
  fieldCache,    \* NoFields, or the encoders of the fields of the type
  finished,      \* the encoders whose WaitGroup is done
  parts          \* the encoders each finished one holds

vars == <<pc, want, stack, at, depth, encoderCache, fieldCache, finished, parts>>

\* An encoder is known by its type and the goroutine that makes it; one that
\* is not final is the placeholder, which waits before it encodes.
Encoder(t, g, final) == [t |-> t, by |-> g, final |-> final]
Encoders == [t : Types, by : Goroutines, final : {"placeholder", "final"}]

\* Not in the cache.
NoEncoder == [t |-> "no type", by |-> "nobody", final |-> "none"]
NoFields == <<NoEncoder>>

Frame(kind, t) == [kind |-> kind, t |-> t, got |-> << >>]

Top(g) == stack[g][Len(stack[g])]
Push(g, f) == stack' = [stack EXCEPT ![g] = Append(@, f)]

CacheInit ==
  /\ pc = [g \in Goroutines |-> "idle"]
  /\ want = [g \in Goroutines |-> CHOOSE t \in Types : TRUE]
  /\ stack = [g \in Goroutines |-> << >>]
  /\ at = [g \in Goroutines |-> NoEncoder]
  /\ depth = [g \in Goroutines |-> 0]
  /\ encoderCache = [t \in Types |-> NoEncoder]
  /\ fieldCache = [t \in Types |-> NoFields]
  /\ finished = {}
  /\ parts = [t \in Types |-> [g \in Goroutines |-> << >>]]

Goto(g, s) == pc' = [pc EXCEPT ![g] = s]

-----------------------------------------------------------------------------
(* Calls from outside *)

\* Marshal: the encoder of the type of the value, then the value.
Marshal(g, t) ==
  /\ pc[g] = "idle"
  /\ want' = [want EXCEPT ![g] = t]
  /\ depth' = [depth EXCEPT ![g] = 0]
  /\ Goto(g, "load")
  /\ UNCHANGED <<stack, at, encoderCache, fieldCache, finished, parts>>

\* The decoder of an object asks for the fields of a struct, with
\* encoders and all; nothing happens when they are there.
Unmarshal(g, t) ==
  /\ pc[g] = "idle" /\ t \in Structs
  /\ fieldCache[t] = NoFields
  /\ Push(g, Frame("fields", t))
  /\ Goto(g, "build")
  /\ UNCHANGED <<want, at, depth, encoderCache, fieldCache, finished, parts>>

-----------------------------------------------------------------------------
(* typeEncoder *)

\* typeEncoder returns e: to the encoder on top of the stack, with the frames
\* below it as in rest, or else to valueEncoder, which encodes with it.
Returns(g, e, rest) ==
  IF rest = << >>
  THEN /\ at' = [at EXCEPT ![g] = e]
       /\ stack' = [stack EXCEPT ![g] = rest]
       /\ Goto(g, "encode")
  ELSE /\ stack' = [stack EXCEPT ![g] =
                      [rest EXCEPT ![Len(rest)].got = Append(@, e)]]
       /\ Goto(g, "build")
       /\ UNCHANGED at

\* Faulty variant: it waits for the encoder rather than take the placeholder.
loadWaiting(g) ==
  LET e == encoderCache[want[g]]
  IN  /\ pc[g] = "load"
      /\ e # NoEncoder => <<e.t, e.by>> \in finished
      /\ IF e # NoEncoder THEN Returns(g, e, stack[g]) ELSE Goto(g, "store") /\ UNCHANGED <<stack, at>>
      /\ UNCHANGED <<want, depth, encoderCache, fieldCache, finished, parts>>

\* encoderCache.Load
load(g) ==
  /\ pc[g] = "load"
  /\ IF encoderCache[want[g]] # NoEncoder
     THEN Returns(g, encoderCache[want[g]], stack[g])
     ELSE Goto(g, "store") /\ UNCHANGED <<stack, at>>
  /\ UNCHANGED <<want, depth, encoderCache, fieldCache, finished, parts>>

\* newTypeEncoder of a type: a struct asks for its fields first.
NewFrame(t) == Frame(IF t \in Structs THEN "struct" ELSE "encoder", t)

\* Faulty variant: the placeholder is stored whether there is one or not.
storePlaceholderAlways(g) ==
  /\ pc[g] = "store"
  /\ encoderCache' = [encoderCache EXCEPT ![want[g]] = Encoder(want[g], g, "placeholder")]
  /\ Push(g, NewFrame(want[g]))
  /\ Goto(g, "build")
  /\ UNCHANGED <<want, at, depth, fieldCache, finished, parts>>

\* encoderCache.LoadOrStore of the placeholder: the first to come makes the
\* encoder.
storePlaceholder(g) ==
  /\ pc[g] = "store"
  /\ IF encoderCache[want[g]] # NoEncoder
     THEN Returns(g, encoderCache[want[g]], stack[g]) /\ UNCHANGED encoderCache
     ELSE /\ encoderCache' = [encoderCache EXCEPT ![want[g]] = Encoder(want[g], g, "placeholder")]
          /\ Push(g, NewFrame(want[g]))
          /\ Goto(g, "build")
          /\ UNCHANGED at
  /\ UNCHANGED <<want, depth, fieldCache, finished, parts>>

-----------------------------------------------------------------------------
(* newTypeEncoder, and typeFields for a struct *)

Lacks(f) == f.kind # "struct" /\ Len(f.got) < Len(Parts[f.t])
Whole(f) == f.kind # "struct" /\ Len(f.got) >= Len(Parts[f.t])

\* The next part's encoder, by typeEncoder.
askPart(g) ==
  /\ pc[g] = "build" /\ Lacks(Top(g))
  /\ want' = [want EXCEPT ![g] = Parts[Top(g).t][Len(Top(g).got) + 1]]
  /\ Goto(g, "load")
  /\ UNCHANGED <<stack, at, depth, encoderCache, fieldCache, finished, parts>>

\* The encoder of a struct on top of s now has its fields.
WithFields(s, fields) ==
  [s EXCEPT ![Len(s)] = [kind |-> "encoder", t |-> @.t, got |-> fields]]

\* newStructEncoder: cachedTypeFields, from the cache or by typeFields.
loadFields(g) ==
  /\ pc[g] = "build" /\ Top(g).kind = "struct"
  /\ IF fieldCache[Top(g).t] # NoFields
     THEN stack' = [stack EXCEPT ![g] = WithFields(@, fieldCache[Top(g).t])]
     ELSE Push(g, Frame("fields", Top(g).t))
  /\ UNCHANGED <<pc, want, at, depth, encoderCache, fieldCache, finished, parts>>

\* Where cachedTypeFields returns to: a struct's encoder, or the decoder.
FieldsReturn(g, fields) ==
  IF Len(stack[g]) = 1
  THEN stack' = [stack EXCEPT ![g] = << >>] /\ Goto(g, "idle")
  ELSE stack' = [stack EXCEPT ![g] = WithFields(Front(@), fields)] /\ UNCHANGED pc

\* Faulty variant: everybody uses, and stores, the list of its own.
storeFieldsOwn(g) ==
  /\ pc[g] = "build" /\ Whole(Top(g)) /\ Top(g).kind = "fields"
  /\ fieldCache' = [fieldCache EXCEPT ![Top(g).t] = Top(g).got]
  /\ FieldsReturn(g, Top(g).got)
  /\ UNCHANGED <<want, at, depth, encoderCache, finished, parts>>

\* fieldCache.LoadOrStore of the list: the first one stored is everybody's.
storeFields(g) ==
  /\ pc[g] = "build" /\ Whole(Top(g)) /\ Top(g).kind = "fields"
  /\ fieldCache' = [fieldCache EXCEPT ![Top(g).t] = IF @ = NoFields THEN Top(g).got ELSE @]
  /\ FieldsReturn(g, fieldCache'[Top(g).t])
  /\ UNCHANGED <<want, at, depth, encoderCache, finished, parts>>

\* Faulty variant: the WaitGroup is left alone.
doneSilently(g) ==
  /\ pc[g] = "build" /\ Whole(Top(g)) /\ Top(g).kind = "encoder"
  /\ parts' = [parts EXCEPT ![Top(g).t][g] = Top(g).got]
  /\ Goto(g, "publish")
  /\ UNCHANGED <<want, stack, at, depth, encoderCache, fieldCache, finished>>

\* The encoder is made: f is set, and wg.Done() lets its users go on.
done(g) ==
  /\ pc[g] = "build" /\ Whole(Top(g)) /\ Top(g).kind = "encoder"
  /\ finished' = finished \cup {<<Top(g).t, g>>}
  /\ parts' = [parts EXCEPT ![Top(g).t][g] = Top(g).got]
  /\ Goto(g, "publish")
  /\ UNCHANGED <<want, stack, at, depth, encoderCache, fieldCache>>

\* encoderCache.Store of the encoder itself, which typeEncoder returns.
publish(g) ==
  LET e == Encoder(Top(g).t, g, "final")
  IN  /\ pc[g] = "publish"
      /\ encoderCache' = [encoderCache EXCEPT ![Top(g).t] = e]
      /\ Returns(g, e, Front(stack[g]))
      /\ UNCHANGED <<want, depth, fieldCache, finished, parts>>

-----------------------------------------------------------------------------
(* Encoding a value *)

\* What the encoder at hand may do: a placeholder waits for its WaitGroup.
Ready(e) == e.final = "final" \/ <<e.t, e.by>> \in finished

\* The value holds another: the encoder kept for that part encodes it, or,
\* in an interface, the one typeEncoder finds for its dynamic type.
encodePart(g) ==
  /\ pc[g] = "encode" /\ Ready(at[g]) /\ depth[g] < MaxDepth
  /\ depth' = [depth EXCEPT ![g] = @ + 1]
  /\ \/ /\ \E i \in 1..Len(parts[at[g].t][at[g].by]) :
             at' = [at EXCEPT ![g] = parts[@.t][@.by][i]]
        /\ UNCHANGED <<pc, want>>
     \/ /\ at[g].t \in Interfaces
        /\ \E t \in Types : want' = [want EXCEPT ![g] = t]
        /\ Goto(g, "load") /\ UNCHANGED at
  /\ UNCHANGED <<stack, encoderCache, fieldCache, finished, parts>>

\* Nothing more to encode: Marshal returns.
return(g) ==
  /\ pc[g] = "encode" /\ Ready(at[g])
  /\ Goto(g, "idle")
  /\ UNCHANGED <<want, stack, at, depth, encoderCache, fieldCache, finished, parts>>

-----------------------------------------------------------------------------

Step(g) ==
  \/ load(g) \/ storePlaceholder(g)
  \/ askPart(g) \/ loadFields(g) \/ storeFields(g) \/ done(g) \/ publish(g)
  \/ encodePart(g) \/ return(g)

CacheNext ==
  \E g \in Goroutines :
    Step(g) \/ \E t \in Types : Marshal(g, t) \/ Unmarshal(g, t)

CacheSpec == CacheInit /\ [][CacheNext]_vars

\* Every goroutine that has something to do is scheduled; nobody has to call.
FairCacheSpec == CacheSpec /\ \A g \in Goroutines : WF_vars(Step(g))

-----------------------------------------------------------------------------
(* Properties *)

Frames == [kind : {"struct", "encoder", "fields"}, t : Types, got : Seq(Encoders)]

\* Goroutine g is making the encoder of t.
Making(g, t) == \E i \in 1..Len(stack[g]) : stack[g][i].t = t /\ stack[g][i].kind # "fields"

CacheTypeOK ==
  /\ pc \in [Goroutines -> {"idle", "load", "store", "build", "publish", "encode"}]
  /\ want \in [Goroutines -> Types]
  /\ stack \in [Goroutines -> Seq(Frames)]
  /\ at \in [Goroutines -> Encoders \cup {NoEncoder}]
  /\ depth \in [Goroutines -> Nat]
  /\ encoderCache \in [Types -> Encoders \cup {NoEncoder}]
  /\ fieldCache \in [Types -> Seq(Encoders) \cup {NoFields}]
  /\ finished \subseteq Types \X Goroutines
  /\ parts \in [Types -> [Goroutines -> Seq(Encoders)]]

(***************************************************************************)
(* However the goroutines race, the encoder of a type is made by one of    *)
(* them, once: the placeholder of encode.go:227 keeps the others out, also *)
(* those that saw no encoder when they loaded.                             *)
(***************************************************************************)
MadeOnce ==
  \A t \in Types, g, h \in Goroutines :
    /\ Making(g, t) \/ <<t, g>> \in finished
    /\ Making(h, t) \/ <<t, h>> \in finished
    => g = h

(***************************************************************************)
(* Nobody waits in a circle: the placeholder a goroutine waits on          *)
(* (encode.go:228) is that of an encoder which another goroutine is making *)
(* at that moment, and who makes an encoder never waits, though types      *)
(* refer to themselves and to each other.                                  *)
(***************************************************************************)
Waiting(g) == pc[g] = "encode" /\ ~Ready(at[g])

WaitsOnMaker ==
  \A g \in Goroutines : Waiting(g) => Making(at[g].by, at[g].t) /\ pc[at[g].by] # "encode"

(***************************************************************************)
(* Everybody encodes a struct type with the same list of fields, the one   *)
(* in the cache, though several goroutines may have computed one.          *)
(***************************************************************************)
FieldsShared ==
  \A t \in Structs, g \in Goroutines :
    <<t, g>> \in finished => parts[t][g] = fieldCache[t]

(***************************************************************************)
(* The inductive invariant.  An encoder being made is the placeholder in   *)
(* the cache, one that is finished is in the cache by its maker's name,    *)
(* and every encoder that anybody can reach is one or the other.           *)
(***************************************************************************)
Below(lower, upper) ==
  IF upper.kind = "fields" THEN lower.kind = "struct" /\ lower.t = upper.t ELSE Lacks(lower)

StackShape ==
  \A g \in Goroutines :
    /\ pc[g] \in {"idle", "encode"} => stack[g] = << >>
    /\ pc[g] \in {"build", "publish"} => stack[g] # << >>
    /\ pc[g] = "publish" => Top(g).kind = "encoder" /\ <<Top(g).t, g>> \in finished
    /\ pc[g] \in {"load", "store"} /\ stack[g] # << >> => Lacks(Top(g))
    /\ \A i \in 1..(Len(stack[g]) - 1) : Below(stack[g][i], stack[g][i + 1])

MakersOwn ==
  \A g \in Goroutines : \A i \in 1..Len(stack[g]) :
    stack[g][i].kind # "fields" =>
      /\ encoderCache[stack[g][i].t] = Encoder(stack[g][i].t, g, "placeholder")
      /\ \A j \in 1..Len(stack[g]) :
           j # i /\ stack[g][j].kind # "fields" => stack[g][j].t # stack[g][i].t

FinishedOwn ==
  \A t \in Types, g \in Goroutines :
    <<t, g>> \in finished =>
      encoderCache[t] # NoEncoder /\ encoderCache[t].t = t /\ encoderCache[t].by = g

Sound(e) ==
  /\ <<e.t, e.by>> \in finished \/ Making(e.by, e.t)
  /\ e.final = "final" => <<e.t, e.by>> \in finished

CachesSound ==
  /\ \A t \in Types : encoderCache[t] # NoEncoder => encoderCache[t].t = t /\ Sound(encoderCache[t])
  /\ \A t \in Types : fieldCache[t] # NoFields =>
       Len(fieldCache[t]) >= Len(Parts[t]) /\ \A k \in 1..Len(fieldCache[t]) : Sound(fieldCache[t][k])

HeldSound ==
  /\ \A g \in Goroutines : \A i \in 1..Len(stack[g]) : \A k \in 1..Len(stack[g][i].got) :
       Sound(stack[g][i].got[k])
  /\ \A t \in Types, g \in Goroutines : \A k \in 1..Len(parts[t][g]) : Sound(parts[t][g][k])
  /\ \A g \in Goroutines : pc[g] = "encode" => at[g] \in Encoders /\ Sound(at[g])

FieldsInv ==
  /\ FieldsShared
  /\ \A g \in Goroutines : \A i \in 1..Len(stack[g]) :
       stack[g][i].kind = "encoder" /\ stack[g][i].t \in Structs =>
         stack[g][i].got = fieldCache[stack[g][i].t] /\ fieldCache[stack[g][i].t] # NoFields
  /\ \A t \in Structs, g \in Goroutines : <<t, g>> \in finished => fieldCache[t] # NoFields

CacheInv ==
  /\ CacheTypeOK /\ StackShape /\ MakersOwn /\ FinishedOwn
  /\ CachesSound /\ HeldSound /\ FieldsInv

(***************************************************************************)
(* The caches implement EncoderService: the encoders made are those that   *)
(* are finished, and a goroutine is at the type whose encoder it holds or  *)
(* is asking for to encode with.                                           *)
(***************************************************************************)
\* The type whose encoder a call to typeEncoder, with its nested calls, is for.
Wanted(g) == IF stack[g] = << >> THEN want[g] ELSE stack[g][1].t

Decoding(g) == stack[g] # << >> /\ stack[g][1].kind = "fields"

Made == {t \in Types : \E g \in Goroutines : <<t, g>> \in finished}

TypeAt(g) ==
  IF pc[g] = "idle" \/ Decoding(g) THEN "no type"
  ELSE IF pc[g] = "encode" THEN at[g].t ELSE Wanted(g)

\* What a value of a type may hold.
Holds == [t \in Types |->
  IF t \in Interfaces THEN Types ELSE {Parts[t][i] : i \in DOMAIN Parts[t]}]

Service == INSTANCE EncoderService WITH
  NextTypes <- Holds, made <- Made, encoding <- [g \in Goroutines |-> TypeAt(g)]

ImplementsService == Service!ServiceSpec
=============================================================================
