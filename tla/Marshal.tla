------------------------------ MODULE Marshal ------------------------------
(***************************************************************************)
(* Marshal (encode.go): any number of goroutines encode values, each with  *)
(* an encodeState from a pool, whose buffer the encoders of the value's    *)
(* type write to, and each returns a copy of the buffer or an error.       *)
(*                                                                         *)
(* The encoders call each other down the value.  Here a goroutine keeps a  *)
(* list of what is still to be written, tokens and values; an encoder      *)
(* replaces a value at the head of it by the tokens and values it is made  *)
(* of, in the order the code writes them.                                  *)
(***************************************************************************)
EXTENDS AmfValues, SequencesExt

CONSTANTS
  Goroutines,
  EncodeStates,
  Inputs,          \* the values encoded, <<type, value>>
  Names,           \* map keys, in the order of strings
  LongStringSize,  \* 0xffff
  StackLimit       \* how deep encoders may call each other in a goroutine

ASSUME MarshalAssumption ==
  /\ Names \in Seq(Seq(STRING)) /\ LongStringSize \in Nat /\ StackLimit \in Nat

VARIABLES
  pc,       \* idle, encode, put, or overflow
  input,    \* the value being encoded, and after that the one encoded last
  state,    \* the encodeState in use
  todo,     \* what is still to be written
  buf,      \* what each encodeState holds
  pool,     \* the encodeStates in encodeStatePool
  copies,   \* the memory of the last copy each goroutine made
  result,   \* what Marshal returned last: an error, or a slice
  written   \* the tokens written for the value (a history)

vars == <<pc, input, state, todo, buf, pool, copies, result, written>>

-----------------------------------------------------------------------------
(* The encoders: what a value of type t is replaced by, d calls deep.  *)

Value(t, v, d) == [k |-> "value", t |-> t, v |-> v, d |-> d]
Panic == [k |-> "panic"]

encodeNull == <<Marker("Null")>>

\* The length of a name is cut to 16 bits.
encodeObjectName(s) == <<U16(Len(s) % (LongStringSize + 1))>> \o Bytes(s)

encodeString(s) ==
  (IF Len(s) > LongStringSize THEN <<Marker("LongString"), U32(Len(s))>>
   ELSE <<Marker("String"), U16(Len(s))>>) \o Bytes(s)

ObjectEnd == encodeObjectName(<< >>) \o <<Marker("ObjectEnd")>>

isEmptyValue(v) ==
  v \in {Nil, Truth(FALSE), Num(0), Text(<< >>), Elems(<< >>), Entries(<< >>)}

\* MarshalAMF's bytes go to the buffer's spare room; what is written from
\* there is its empty slice.
marshalerEncoder(v) ==
  CASE v = Nil -> Bytes(<<"n", "u", "l", "l">>)
    [] v = Fails -> <<Panic>>
    [] OTHER -> << >>

\* float64(v.Int()) and float64(v.Uint()) are the nearest there is.
intEncoder(v) == <<Marker("Number"), F64(Rounded(v.n, Significand))>>
floatEncoder(v) == <<Marker("Number"), F64(v.n)>>
boolEncoder(v) == <<Marker("Boolean"), U8(IF v.b THEN 1 ELSE 0)>>

interfaceEncoder(v, d) ==
  IF v = Nil THEN encodeNull ELSE <<Value(v.t, v.v, d)>>

\* A field below a nil embedded pointer is left out, and one that is empty
\* if its tag says so.
structEncoder(t, v, d) ==
  LET Member(f, fv) ==
        IF fv = Absent \/ (f.omitEmpty /\ isEmptyValue(fv)) THEN << >>
        ELSE encodeObjectName(f.name) \o <<Value(f.typ, fv, d)>>
  IN  <<Marker("Object")>>
        \o FlattenSeq([i \in DOMAIN t.fields |-> Member(t.fields[i], v.f[i])])
        \o ObjectEnd

\* In the order of the keys.
mapEncoder(t, v, d) ==
  IF v = Nil THEN encodeNull
  ELSE LET Member(s) ==
             IF s \notin DOMAIN v.m THEN << >> ELSE encodeObjectName(s) \o <<Value(t.elem, v.m[s], d)>>
       IN  <<Marker("Object")>> \o FlattenSeq([i \in DOMAIN Names |-> Member(Names[i])]) \o ObjectEnd

\* IsNil is not for arrays: it panics.
arrayEncoder(t, v, d) ==
  CASE t.k = "array" -> <<Panic>>
    [] t.k # "array" /\ v.e = << >> -> <<Marker("Undefined")>>
    [] OTHER -> <<Marker("StrictArray"), U32(Len(v.e))>>
                  \o [i \in DOMAIN v.e |-> Value(t.elem, v.e[i], d)]

sliceEncoder(t, v, d) == IF v = Nil THEN encodeNull ELSE arrayEncoder(t, v, d)

ptrEncoder(t, v, d) ==
  IF v = Nil THEN encodeNull
  ELSE IF v = Loop THEN <<Value(t, v, d)>> ELSE <<Value(t.elem, v.to, d)>>

unsupportedTypeEncoder == <<Panic>>

newTypeEncoder(t, v, d) ==
  CASE t.k = "custom" -> marshalerEncoder(v)
    [] t.k = "string" -> encodeString(v.s)
    [] t.k = "bool" -> boolEncoder(v)
    [] t.k \in {"int", "uint"} -> intEncoder(v)
    [] t.k = "float" -> floatEncoder(v)
    [] t.k = "any" -> interfaceEncoder(v, d)
    [] t.k = "struct" -> structEncoder(t, v, d)
    [] t.k = "map" -> mapEncoder(t, v, d)
    [] t.k = "slice" -> sliceEncoder(t, v, d)
    [] t.k = "array" -> arrayEncoder(t, v, d)
    [] t.k \in {"ptr", "endless"} -> ptrEncoder(t, v, d)
    [] OTHER -> unsupportedTypeEncoder

-----------------------------------------------------------------------------
(* What a value is made of *)

\* The values, with their types, that are encoded with x.
PartsOf(x) ==
  LET t == x[1]
      v == x[2]
      Kept == {i \in DOMAIN t.fields : v.f[i] # Absent /\ ~(t.fields[i].omitEmpty /\ isEmptyValue(v.f[i]))}
  IN  IF v = Nil THEN {} ELSE IF v = Loop THEN {x} ELSE
      CASE t.k = "any" -> {<<v.t, v.v>>}
        [] t.k = "ptr" -> {<<t.elem, v.to>>}
        [] t.k = "slice" -> {<<t.elem, v.e[i]>> : i \in DOMAIN v.e}
        [] t.k = "map" -> {<<t.elem, v.m[s]>> : s \in DOMAIN v.m}
        [] t.k = "struct" -> {<<t.fields[i].typ, v.f[i]>> : i \in Kept}
        [] OTHER -> {}

\* And those in them, n deep.
PartsOfAll(W) == UNION {PartsOf(x) : x \in W}
PartsIn(x, n) ==
  LET parts[m \in Nat] == IF m = 0 THEN {x} ELSE PartsOfAll(parts[m - 1])
  IN  parts[n]

\* Of a type without an encoder, an array, whose encoder panics, or with a
\* method that fails.
Refuses(x) == x[1].k \in {"chan", "array"} \/ (x[1].k = "custom" /\ x[2] = Fails)

\* A part of x is refused.
Refused(x) == \E n \in 0..StackLimit : \E y \in PartsIn(x, n) : Refuses(y)

\* The numbers of a type.
IsNumber(t, v) ==
  CASE t.k = "int" -> v.n \in {2 * i : i \in -(2 ^ (t.bits - 1))..(2 ^ (t.bits - 1) - 1)}
    [] t.k = "uint" -> v.n \in {2 * i : i \in 0..(2 ^ t.bits - 1)}
    [] t.k = "float" -> v.n = Rounded(v.n, t.bits)

\* The value is of the type.
OfType(x) ==
  LET t == x[1]
      v == x[2]
      IsSeq(s) == s \in Seq(Range(s))
  IN  /\ x = <<t, v>>
      /\ t.k \in {"bool", "int", "uint", "float", "string", "any", "custom", "chan", "ptr", "slice", "array", "map",
                  "struct", "endless"}
      /\ v # Absent /\ (v = Loop => t.k = "endless") /\ (t.k = "endless" => v \in {Nil, Loop})
      /\ (t.k = "chan" => v = Channel) /\ (t.k \in {"int", "uint", "float"} => IsNumber(t, v))
      /\ t.k = "string" => IsSeq(v.s)
      /\ t.k = "slice" /\ v # Nil => IsSeq(v.e)
      /\ t.k = "map" /\ v # Nil => DOMAIN v.m \subseteq Range(Names)
      /\ t.k = "struct" => v # Nil /\ IsSeq(t.fields) /\ \A i \in DOMAIN t.fields : IsSeq(t.fields[i].name)

ASSUME InputsAssumption ==
  \A in \in Inputs : \A n \in 0..StackLimit : \A x \in PartsIn(in, n) : OfType(x)

-----------------------------------------------------------------------------
(* Marshal *)

NoState == "none"

\* What Marshal returns: nil and an error, or a slice of the memory named.
Returned(of, which) == [of |-> of, which |-> which]
NoResult == Returned("none", "none")
Error == Returned("error", "none")

\* The bytes of the slice a goroutine has.
ResultBytes(g) ==
  IF result[g].of = "state" THEN buf[result[g].which] ELSE copies[g]

MarshalInit ==
  /\ pc = [g \in Goroutines |-> "idle"]
  /\ input = [g \in Goroutines |-> <<Interface, Nil>>]
  /\ state = [g \in Goroutines |-> NoState]
  /\ todo = [g \in Goroutines |-> << >>]
  /\ buf = [e \in EncodeStates |-> << >>]
  /\ pool = {}
  /\ copies = [g \in Goroutines |-> << >>]
  /\ result = [g \in Goroutines |-> NoResult]
  /\ written = [g \in Goroutines |-> << >>]

\* A stack overflow cannot be recovered from: it ends the process.
Running == \A g \in Goroutines : pc[g] # "overflow"

InUse == {state[g] : g \in Goroutines}

\* From the pool, reset, or a new one.
newEncodeState(g) ==
  \E e \in EncodeStates \ InUse :
    /\ state' = [state EXCEPT ![g] = e]
    /\ pool' = pool \ {e}
    /\ buf' = [buf EXCEPT ![e] = << >>]

Call(g, in) ==
  /\ Running /\ pc[g] = "idle"
  /\ newEncodeState(g)
  /\ input' = [input EXCEPT ![g] = in]
  /\ todo' = [todo EXCEPT ![g] = <<Value(in[1], in[2], 1)>>]
  /\ written' = [written EXCEPT ![g] = << >>]
  /\ result' = [result EXCEPT ![g] = NoResult]
  /\ pc' = [pc EXCEPT ![g] = "encode"]
  /\ UNCHANGED copies

Rest(g) == Tail(todo[g])

\* typeEncoder's encoder, called for the value at the head.
encode(g) ==
  /\ Running /\ pc[g] = "encode" /\ todo[g] # << >>
  /\ Head(todo[g]).k = "value"
  /\ LET it == Head(todo[g])
     IN  IF it.d > StackLimit
         THEN pc' = [pc EXCEPT ![g] = "overflow"] /\ UNCHANGED todo
         ELSE /\ todo' = [todo EXCEPT ![g] = newTypeEncoder(it.t, it.v, it.d + 1) \o Rest(g)]
              /\ UNCHANGED pc
  /\ UNCHANGED <<input, state, buf, pool, copies, result, written>>

Tokens == {"marker", "f64", "u8", "u16", "u32", "byte"}

Write(g) ==
  /\ Running /\ pc[g] = "encode" /\ todo[g] # << >>
  /\ Head(todo[g]).k \in Tokens
  /\ buf' = [buf EXCEPT ![state[g]] = Append(@, Head(todo[g]))]
  /\ written' = [written EXCEPT ![g] = Append(@, Head(todo[g]))]
  /\ todo' = [todo EXCEPT ![g] = Rest(g)]
  /\ UNCHANGED <<pc, input, state, pool, copies, result>>

\* Faulty variant: what an encoder cannot encode is passed over.
recoverAndGoOn(g) ==
  /\ Running /\ pc[g] = "encode" /\ todo[g] # << >>
  /\ Head(todo[g]) = Panic
  /\ todo' = [todo EXCEPT ![g] = Rest(g)]
  /\ UNCHANGED <<pc, input, state, buf, pool, copies, result, written>>

\* An encoder panics: marshal recovers, and returns it as its error.
recover(g) ==
  /\ Running /\ pc[g] = "encode" /\ todo[g] # << >>
  /\ Head(todo[g]) = Panic
  /\ todo' = [todo EXCEPT ![g] = << >>]
  /\ result' = [result EXCEPT ![g] = Error]
  /\ pc' = [pc EXCEPT ![g] = "put"]
  /\ UNCHANGED <<input, state, buf, pool, copies, written>>

\* Faulty variant: the bytes of the encodeState itself are returned.
returnBytes(g) ==
  /\ result' = [result EXCEPT ![g] = Returned("state", state[g])]
  /\ UNCHANGED copies

\* append([]byte(nil), e.Bytes()...)
returnCopy(g) ==
  /\ copies' = [copies EXCEPT ![g] = buf[state[g]]]
  /\ result' = [result EXCEPT ![g] = Returned("copy", g)]

finish(g) ==
  /\ Running /\ pc[g] = "encode" /\ todo[g] = << >>
  /\ returnCopy(g)
  /\ pc' = [pc EXCEPT ![g] = "put"]
  /\ UNCHANGED <<input, state, todo, buf, pool, written>>

\* defer encodeStatePool.Put(e), after an error too.
Put(g) ==
  /\ Running /\ pc[g] = "put"
  /\ pool' = pool \cup {state[g]}
  /\ state' = [state EXCEPT ![g] = NoState]
  /\ pc' = [pc EXCEPT ![g] = "idle"]
  /\ UNCHANGED <<input, todo, buf, copies, result, written>>

Step(g) == encode(g) \/ Write(g) \/ recover(g) \/ finish(g) \/ Put(g)

MarshalNext ==
  \E g \in Goroutines : Step(g) \/ \E in \in Inputs : Call(g, in)

MarshalSpec == MarshalInit /\ [][MarshalNext]_vars

-----------------------------------------------------------------------------
(* Properties *)

(***************************************************************************)
(* What Marshal returned to a goroutine is what the encoders wrote for its *)
(* value, and stays so whatever others encode with the same encodeState    *)
(* (encode.go:72-83, 567-578), also after an encoding that failed half-way *)
(* and left its bytes in it.                                               *)
(***************************************************************************)
ResultsOwn ==
  \A g \in Goroutines :
    result[g].of \in {"copy", "state"} => ResultBytes(g) = written[g]
(***************************************************************************)
(* Nothing is half encoded: Marshal returns a result for a value if and    *)
(* only if every part of it has an encoder that succeeds, wherever in the  *)
(* value the other parts are, and an error otherwise (encode.go:90-113).   *)
(***************************************************************************)
NothingHalfEncoded ==
  \A g \in Goroutines :
    /\ result[g].of = "copy" => ~Refused(input[g])
    /\ result[g] = Error => Refused(input[g])
=============================================================================
