----------------------------- MODULE MCAmfCodec -----------------------------
(* Types, values and foreign data for TLC. *)
EXTENDS AmfCodec

Empty == << >>
Long == <<"c", "b", "a", "b">>
MCNames == << Empty, <<"A">>, <<"a">>, <<"b">>, <<"b", "B">>, <<"c">>, Long >>
MCUpper == [c \in {"a", "b", "c"} |-> CASE c = "a" -> "A" [] c = "b" -> "B" [] OTHER -> "C"]

Int64 == Integer(Wide)
Uint64 == Unsigned(Wide)

\* type S struct { A int; a string; *E; N []S2 `,omitempty` } where
\* type E struct { b bool; c *string }, in a form with tags for names.
S2 == StructOf(<<Field(<<"b", "B">>, Str, FALSE, "no")>>)
S == StructOf(<<Field(<<"A">>, Int64, FALSE, "no"), Field(<<"a">>, Str, TRUE, "no"),
                Field(<<"b">>, Bool, FALSE, "E"), Field(<<"c">>, PtrTo(Str), FALSE, "E"),
                Field(<<"b", "B">>, SliceOf(S2), TRUE, "no")>>)

Texts == {Text(<< >>), Text(<<"b">>), Text(<<"a", "b", "c">>)}
SVals == {Fields(<<Num(2), s, b, IF b = Absent THEN Absent ELSE p, l>>) :
            s \in Texts, b \in {Absent, Truth(TRUE)}, p \in {Nil, Ptr(Text(<<"b">>)), Ptr(Text(<< >>))},
            l \in {Nil, Elems(<<Fields(<<Text(<<"b">>)>>), Fields(<<Text(<< >>)>>)>>)}}

AnyMap == MapOf(Interface)
AnySlice == SliceOf(Interface)
Anys == {Nil, Holding(Int64, Num(4)), Holding(Str, Text(<<"a">>)), Holding(AnyMap, Nil),
         Holding(AnySlice, Elems(<< >>)), Holding(SliceOf(Bool), Elems(<<Truth(FALSE)>>)),
         Holding(PtrTo(Int64), Ptr(Num(6))), Holding(PtrTo(Int64), Nil)}
AnyMaps == {Entries([s \in {<<"A">>, <<"c">>} |-> IF s = <<"A">> THEN x ELSE y]) : x \in Anys, y \in Anys}
             \cup {Nil, Entries(<< >>)}
AnySlices == {Elems(<<x, y>>) : x \in Anys, y \in Anys} \cup {Nil, Elems(<<Holding(Str, Text(<< >>))>>)}

\* A map for the struct of two fields whose names differ by case.
Two == StructOf(<<Field(<<"A">>, Int64, FALSE, "no"), Field(<<"a">>, Int64, FALSE, "no")>>)
TwoMap == <<MapOf(Int64), Entries([s \in {<<"A">>, <<"a">>} |-> Num(IF s = <<"A">> THEN 2 ELSE 4)])>>

\* All numbers of all widths, those a float64 or a narrower type does not hold
\* among them, and some in a list and a map.
NumberTypes == {Int64, Integer(3), Uint64, Unsigned(3), Float64, Float(2)}
Numbers == UNION {{<<t, Num(n)>> : n \in {m \in -32..62 : IsNumber(t, Num(m))}} : t \in NumberTypes}
ListOfNumbers == <<SliceOf(Int64), Elems(<<Num(4), Num(18), Num(30)>>)>>
MapOfNumbers == <<MapOf(Float64), Entries([s \in {<<"a">>, <<"b">>} |-> Num(IF s = <<"a">> THEN 1 ELSE 4)])>>

\* Targets with the type of b in question, and an embedded *e.
With(t) == StructOf(<<Field(<<"A">>, Str, FALSE, "unexported"), Field(<<"B">>, t, FALSE, "no")>>)

\* What is not decoded: keys too short and too long, a MarshalAMF, alone or with
\* others, and an embedded pointer that cannot be set, unless it is nil.
Pair(r, x, s, y) == Entries([n \in {r, s} |-> IF n = r THEN x ELSE y])
Given1 == Gives(<<Marker("Number"), F64(2)>>)
KnownInputs == {
  <<MapOf(Int64), Pair(Empty, Num(2), <<"a">>, Num(4))>>, <<MapOf(Str), Pair(Empty, Text(<<"b">>), Empty, Nil)>>,
  <<AnySlice, Elems(<<Holding(AnyMap, Pair(Empty, Nil, Empty, Nil))>>)>>,
  <<MapOf(Int64), Pair(Long, Num(2), <<"A">>, Num(4))>>, <<MapOf(Bool), Pair(Long, Truth(TRUE), Long, Nil)>>,
  <<Custom, Nil>>, <<Custom, Given1>>, <<MapOf(Custom), Pair(<<"A">>, Given1, <<"b">>, Nil)>>,
  <<AnySlice, Elems(<<Holding(Custom, Given1), Holding(Int64, Num(2))>>)>>,
  <<AnyMap, Pair(<<"A">>, Holding(Custom, Given1), <<"c">>, Holding(Int64, Num(4)))>>,
  <<With(Int64), Fields(<<Text(<<"b">>), Num(2)>>)>>, <<With(Int64), Fields(<<Absent, Num(2)>>)>>,
  <<With(Custom), Fields(<<Absent, Given1>>)>> }

DecodedInputs ==
  Numbers \cup {ListOfNumbers, MapOfNumbers} \cup KnownInputs \cup {<<S, v>> : v \in SVals}
    \cup {<<AnyMap, v>> : v \in AnyMaps} \cup {<<AnySlice, v>> : v \in AnySlices}
    \cup {<<Str, v>> : v \in Texts} \cup {TwoMap}
    \cup {<<PtrTo(AnySlice), Nil>>, <<PtrTo(S2), Nil>>}

\* Values that two goroutines encode: []any{1, make(chan int)}, which fails
\* half-way, map[string]any{"b": nil, "A": true}, and "b".
SharedInputs == {
  <<AnySlice, Elems(<<Holding(Int64, Num(2)), Holding(Chan, Channel)>>)>>,
  <<AnyMap, Entries([s \in {<<"b">>, <<"A">>} |->
      IF s = <<"b">> THEN Nil ELSE Holding(Bool, Truth(TRUE))])>>,
  <<Str, Text(<<"b">>)>> }

\* Values with an encoding of their own, or none.
OddInputs == {<<Custom, Fails>>,
              <<ArrayOf(1, Int64), Elems(<<Num(2)>>)>>,
              <<StructOf(<<Field(<<"A">>, Int64, FALSE, "no"), Field(<<"b">>, Chan, FALSE, "no")>>),
                Fields(<<Num(2), Channel>>)>>,
              <<MapOf(PtrTo(Custom)), Entries([s \in {<<"A">>, <<"b">>} |-> IF s = <<"A">> THEN Nil ELSE Ptr(Fails)])>>,
              <<Endless, Loop>>, <<Chan, Channel>>}

MCInputs == DecodedInputs \cup SharedInputs \cup OddInputs

\* Types with an UnmarshalAMF in them, for some.
Customs(in) ==
  CASE in[1] \in {Str, With(Int64), With(Custom)} \/ in \in KnownInputs -> {Custom, MapOf(Custom), With(Custom)}
    [] in \in {TwoMap, MapOfNumbers} -> {Custom, MapOf(Custom)}
    [] in = ListOfNumbers -> {SliceOf(Custom), PtrTo(Custom)}
    [] OTHER -> {}

Others(in) ==
  CASE in \in Numbers -> NumberTypes
    [] in = ListOfNumbers -> {SliceOf(t) : t \in NumberTypes} \cup {ArrayOf(3, Int64)}
    [] in = MapOfNumbers -> {MapOf(t) : t \in NumberTypes}
    [] in = TwoMap -> {Two, AnyMap}
    [] in[1] \in {S, With(Int64)} -> {AnyMap}
    [] OTHER -> {}

(* The values of two goroutines are not decoded. *)
MCTargets == [in \in MCInputs |->
  IF in \in DecodedInputs THEN {in[1], Interface} \cup Customs(in) \cup Others(in) ELSE {}]

(* What others send. *)
Object(s, v) == <<Marker("Object"), U16(Len(s))>> \o Bytes(s) \o v \o <<U16(0), Marker("ObjectEnd")>>
List(v) == <<Marker("StrictArray"), U32(1)>> \o v
ForeignValues == {
  <<Marker("Number"), F64(1)>>, <<Marker("String"), U16(1), Byte("a")>>, <<Marker("Null")>>,
  <<Marker("Undefined")>>, <<Marker("Date"), F64(1), U16(0)>>, <<Marker("Unsupported")>>,
  <<Marker("ECMAArray"), U32(0), U16(0), Marker("ObjectEnd")>>,
  <<Marker("XMLDocument"), U32(1), Byte("a")>>, <<Marker("Reference"), U16(0)>> }
ForeignNested == {Object(<<"b">>, List(v)) : v \in ForeignValues} \cup {Object(<<"b">>, Object(<<"A">>, v)) : v \in ForeignValues}

MCForeign ==
  {<<v, t>> : v \in ForeignValues, t \in {Int64, Custom}}
    \cup {<<Object(<<"b">>, v), With(t)>> : v \in ForeignValues, t \in {Int64, Str, S2, AnyMap, Interface, Chan, Custom}}
    \cup {<<v, t>> : v \in ForeignNested,
                     t \in {Interface, MapOf(AnySlice), With(ArrayOf(2, Interface)), With(SliceOf(Int64)), With(AnyMap)}}

\* A member for which the struct has no field.
UnknownMember == {<<Object(<<"c">>, <<Marker("Number"), F64(1)>>), With(Int64)>>}
NoInputs == {}

\* As on amd64: the bits of an int64, if there is one, and else of the least.
NoSuchInteger(i) == IF i \in -16..15 THEN i ELSE -16
NoTargets == << >>

=============================================================================
