------------------------------ MODULE AmfCodec ------------------------------
(***************************************************************************)
(* Marshal and Unmarshal together: a goroutine encodes a value, and what   *)
(* it gets, or what is left of it after a cut, is decoded into a fresh     *)
(* variable of some type.                                                  *)
(***************************************************************************)
EXTENDS Marshal, AmfDecoder

CONSTANTS
  Shared,   \* bound: the values of Inputs that goroutines encode at the same time
  Targets,  \* the types to decode into, by the value encoded
  Foreign   \* AMF of other programs, <<AMF, type to decode into>>

ASSUME CodecAssumption == Inputs \subseteq DOMAIN Targets /\ Shared \subseteq Inputs

VARIABLES
  origin,   \* the value decoded last, with its type, and what Marshal gave for it
  amf,      \* the data decoded
  whole,    \* whether it is all that Marshal gave, a part of it, or foreign
  target,   \* the type it was decoded into
  outcome   \* how that went

codecVars == <<vars, origin, amf, whole, target, outcome>>

CodecInit ==
  /\ MarshalInit
  /\ origin = [in |-> <<Interface, Nil>>, amf |-> << >>]
  /\ amf = << >> /\ whole = "none" /\ target = Interface /\ outcome = Failed("none", InitState(<< >>))

\* By Unmarshal, or by DecodeWithReader.
Decode(data, how, t) ==
  /\ amf' = data /\ whole' = how /\ target' = t
  /\ \E d \in {InitState(data), ReaderState(data)} : outcome' = unmarshal(d, t, ZeroOf(t))
  /\ UNCHANGED vars

DecodeResult(g) ==
  /\ pc[g] = "idle" /\ result[g].of = "copy"
  /\ origin' = [in |-> input[g], amf |-> ResultBytes(g)]
  /\ \E t \in Targets[input[g]], n \in 0..Len(ResultBytes(g)) :
       Decode(SubSeq(ResultBytes(g), 1, n), IF n = Len(ResultBytes(g)) THEN "whole" ELSE "part", t)

DecodeForeign ==
  /\ \A g \in Goroutines : pc[g] = "idle" /\ result[g] = NoResult
  /\ \E f \in Foreign : Decode(f[1], "foreign", f[2])
  /\ UNCHANGED origin

Called(g) == pc[g] # "idle" \/ result[g] # NoResult

\* What is encoded together with what others encode, or have encoded.
Choice(g) ==
  LET others == {h \in Goroutines \ {g} : Called(h)}
  IN  IF others = {} THEN Inputs ELSE IF \A h \in others : input[h] \in Shared THEN Shared ELSE {}

\* Each goroutine encodes one value, and one result is decoded, in some way.
CodecNext ==
  /\ whole = "none"
  /\ \/ \E g \in Goroutines : DecodeResult(g)
     \/ DecodeForeign
     \/ /\ \E g \in Goroutines :
             Step(g) \/ (~Called(g) /\ \E in \in Choice(g) : Call(g, in))
        /\ UNCHANGED <<origin, amf, whole, target, outcome>>

CodecSpec == CodecInit /\ [][CodecNext]_codecVars

-----------------------------------------------------------------------------
(* What a value means, whatever its type *)

RECURSIVE Meaning(_, _)
Meaning(t, v) ==
  CASE v \in {Nil, Absent} -> [means |-> "nothing"]
    [] t.k \in {"int", "uint", "float"} -> [number |-> v.n, as |-> t]
    [] t.k = "bool" -> [truth |-> v.b]
    [] t.k = "string" -> [text |-> v.s]
    [] t.k = "any" -> Meaning(v.t, v.v)
    [] t.k = "ptr" -> Meaning(t.elem, v.to)
    [] t.k \in {"slice", "array"} ->
         IF v.e = << >> THEN [means |-> "nothing"]
         ELSE [list |-> [i \in DOMAIN v.e |-> Meaning(t.elem, v.e[i])]]
    [] t.k = "map" -> [members |-> [s \in DOMAIN v.m |-> Meaning(t.elem, v.m[s])]]
    [] t.k = "struct" ->
         LET Kept == {i \in DOMAIN t.fields :
                        v.f[i] # Absent /\ ~(t.fields[i].omitEmpty /\ isEmptyValue(v.f[i]))}
             At(s) == CHOOSE i \in Kept : t.fields[i].name = s
         IN  [members |-> [s \in {t.fields[i].name : i \in Kept} |->
                             Meaning(t.fields[At(s)].typ, v.f[At(s)])]]

\* n is a float with a significand of so many bits; n is a number of type t.
IsFloat(n, bits) ==
  LET m == IF n < 0 THEN -n ELSE n
  IN  \E e \in 0..Wide : m % (2 ^ e) = 0 /\ m \div (2 ^ e) <= 2 ^ bits

Fits(n, t) ==
  CASE t.k = "float" -> IsFloat(n, t.bits)
    [] t.k = "int" -> n % 2 = 0 /\ n \div 2 \in -(2 ^ (t.bits - 1))..(2 ^ (t.bits - 1) - 1)
    [] t.k = "uint" -> n % 2 = 0 /\ n \div 2 \in 0..(2 ^ t.bits - 1)

\* Two values mean the same, but for numbers that do not fit in the float64
\* they go through, or in the type they end in.
RECURSIVE SameMeaning(_, _)
SameMeaning(x, y) ==
  LET Both(key) == key \in DOMAIN x /\ key \in DOMAIN y
      SameIn(f, h) == DOMAIN f = DOMAIN h /\ \A i \in DOMAIN f : SameMeaning(f[i], h[i])
  IN  CASE Both("number") -> Fits(x.number, Float64) /\ Fits(x.number, y.as) => x.number = y.number
        [] Both("list") -> SameIn(x.list, y.list)
        [] Both("members") -> SameIn(x.members, y.members)
        [] OTHER -> x = y

-----------------------------------------------------------------------------
(* What is known not to be decoded *)

\* A part of the value encoded is such.
HasPart(Such(_)) == \E n \in 0..StackLimit : \E x \in PartsIn(origin.in, n) : Such(x)

\* With a MarshalAMF, the bytes of which are lost.
Marshals(x) == x[1].k = "custom"

\* A map with an empty key, which is taken for the end of the object.
EmptyKey(x) == x[1].k = "map" /\ x[2] # Nil /\ << >> \in DOMAIN x[2].m

\* A map with a key whose length is cut.
LongKey(x) == x[1].k = "map" /\ x[2] # Nil /\ \E s \in DOMAIN x[2].m : Len(s) > LongStringSize

\* A struct with an embedded pointer to an unexported struct.
Unsettable(x) ==
  /\ x[1].k = "struct"
  /\ \E i \in DOMAIN x[1].fields : x[1].fields[i].embedded = "unexported" /\ x[2].f[i] # Absent

\* Every token that Marshal wrote is one that Unmarshal looks for.
Sound == whole = "foreign" \/ ~HasPart(LAMBDA x : Marshals(x) \/ LongKey(x))

\* A type, or one in it, that has an UnmarshalAMF.
RECURSIVE Unmarshals(_)
Unmarshals(t) ==
  CASE t.k = "custom" -> TRUE
    [] t.k \in {"ptr", "slice", "array", "map"} -> Unmarshals(t.elem)
    [] t.k = "struct" -> \E i \in DOMAIN t.fields : Unmarshals(t.fields[i].typ)
    [] OTHER -> FALSE

\* Nil pointers to what cannot be nil itself.
RECURSIVE HasNilPointer(_, _)
HasNilPointer(t, v) ==
  CASE t.k = "ptr" /\ v = Nil -> t.elem.k \notin {"slice", "map", "any", "chan"}
    [] t.k = "ptr" /\ v # Nil -> HasNilPointer(t.elem, v.to)
    [] t.k = "struct" -> \E i \in DOMAIN t.fields :
         /\ ~(t.fields[i].omitEmpty /\ v.f[i] = Nil)
         /\ v.f[i] # Absent /\ HasNilPointer(t.fields[i].typ, v.f[i])
    [] t.k = "slice" /\ v # Nil -> \E i \in DOMAIN v.e : HasNilPointer(t.elem, v.e[i])
    [] t.k = "map" /\ v # Nil -> \E s \in DOMAIN v.m : HasNilPointer(t.elem, v.m[s])
    [] OTHER -> FALSE

EndsWithEmptyString == amf # << >> /\ amf[Len(amf)] = U16(0)

\* No error, as far as can be said.
Taken == outcome.res = "ok" \/ (outcome.res = "misread" /\ ~outcome.d.saved)

-----------------------------------------------------------------------------
(* Properties *)

(***************************************************************************)
(* A value that is decoded without an error means what the value encoded   *)
(* meant: in its own type, in an interface, in a map for a struct and in a *)
(* struct for a map (amf_test.go:101-243), through sorted keys, folded     *)
(* names, fields left out, embedded and empty, and long strings.  Numbers  *)
(* are the same only if float64 holds them and the target does: others are *)
(* rounded, cut or wrapped without an error (encode.go:312, 316,           *)
(* decode.go:201-205).  Left out is what MarshalAMF gives, whose bytes are *)
(* lost (encode.go:290), objects with a key of 65536 bytes or more         *)
(* (encode.go:143), and targets with an UnmarshalAMF (decode.go:794).      *)
(***************************************************************************)
NothingLost ==
  whole = "whole" /\ Taken /\ Sound /\ ~Unmarshals(target)
    => /\ outcome.res = "ok"
       /\ SameMeaning(Meaning(origin.in[1], origin.in[2]), Meaning(target, outcome.v))

(***************************************************************************)
(* Who decodes a value without an error has read all of it and no more,    *)
(* whoever has encoded it: the handlers of commands read one value after   *)
(* the other with DecodeWithReader (server.go:408-419).  Not so with an    *)
(* UnmarshalAMF: a target that has one leaves the value where it was, and  *)
(* is given what begins where it ends (decode.go:794).                     *)
(***************************************************************************)
ConsumesValue ==
  whole \in {"whole", "foreign"} /\ Taken /\ Sound =>
    /\ ~Unmarshals(target) => outcome.res = "ok" /\ outcome.d.in = << >>
    /\ target = Custom => outcome.d.in = amf /\ outcome.v = Given(<< >>)

(***************************************************************************)
(* All that Marshal gives for values of these types can be decoded, but    *)
(* for: nil pointers, whose null is decoded into what they would point to  *)
(* (decode.go:150, 560); an empty string at the end, which is read as the  *)
(* end of the input (decode.go:305); maps with an empty key, taken for the *)
(* end of the object (decode.go:439-453), or with one of 65536 bytes or    *)
(* more, whose length is cut (encode.go:143); what has a MarshalAMF        *)
(* (encode.go:290); an embedded pointer to an unexported struct, in a      *)
(* target of the same type (decode.go:482); and what the target has an     *)
(* UnmarshalAMF for (decode.go:794).                                       *)
(***************************************************************************)
RefusesOnlyKnown ==
  whole = "whole" /\ outcome.res # "ok" =>
    \/ HasNilPointer(origin.in[1], origin.in[2]) \/ EndsWithEmptyString
    \/ HasPart(EmptyKey) \/ HasPart(LongKey) \/ HasPart(Marshals)
    \/ target = origin.in[1] /\ HasPart(Unsettable)
    \/ Unmarshals(target)

(***************************************************************************)
(* Data that breaks off is not taken for a value, unless it breaks off in  *)
(* the middle of a string that ends it: that is filled up with zeros       *)
(* (decode.go:273, 305, 743); or the target has an UnmarshalAMF.           *)
(***************************************************************************)
CutNoticed ==
  whole = "part" /\ Taken /\ Sound /\ ~Unmarshals(target)
    => amf[Len(amf)].k = "byte" /\ origin.amf[Len(amf) + 1].k = "byte"

(***************************************************************************)
(* "If v is invalid, the value is discarded" (decode.go:789): members no   *)
(* field is for are passed over.                                           *)
(***************************************************************************)
UnknownDiscarded == whole # "none" => outcome.res # "panic"
=============================================================================
