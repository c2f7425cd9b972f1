----------------------------- MODULE AmfDecoder -----------------------------
(***************************************************************************)
(* Unmarshal (decode.go): AMF is decoded into a Go value of a given type,  *)
(* guided by the type, or without one into an interface.  The operators    *)
(* are recursive as the code is.  Each takes the decodeState d and gives   *)
(* an outcome: ok with a value, err for an error returned, panic for one   *)
(* that is thrown, which nothing in package amf recovers, and context for  *)
(* the panic of addErrorContext when it is to return an error.             *)
(*                                                                         *)
(* After a value that does not fit its target, or that is left to          *)
(* UnmarshalAMF, and after what Marshal garbles, the code may read on in   *)
(* the middle of a value.  Where that breaks up a token the outcome is     *)
(* misread: an error or a panic if an error is saved, which Unmarshal      *)
(* returns at the end, and otherwise anything, success included.           *)
(***************************************************************************)
EXTENDS AmfValues, SequencesExt

CONSTANTS
  Upper,         \* the upper-case letters, by their lower-case ones
  OutOfRange(_)  \* what a build makes of a number that the integer type has not

\* The Value for what is to be discarded.
Invalid == [k |-> "invalid"]

RECURSIVE ZeroOf(_)
ZeroOf(t) ==
  CASE t.k = "bool" -> Truth(FALSE)
    [] t.k \in {"int", "uint", "float"} -> Num(0)
    [] t.k = "string" -> Text(<< >>)
    [] t.k = "array" -> Elems([i \in 1..t.n |-> ZeroOf(t.elem)])
    [] t.k = "struct" -> Fields([i \in DOMAIN t.fields |->
         IF t.fields[i].embedded = "no" THEN ZeroOf(t.fields[i].typ) ELSE Absent])
    [] OTHER -> Nil

\* decodeState: the input, what is left of it, whether an error is saved, and
\* whether errorContext names the field of a struct.
InitState(amf) == [data |-> amf, in |-> amf, saved |-> FALSE, named |-> FALSE]

\* DecodeWithReader has no data but what is in the reader.
ReaderState(amf) == [InitState(amf) EXCEPT !.data = << >>]

Ok(v, d) == [res |-> "ok", v |-> v, d |-> d]
Failed(res, d) == [res |-> res, v |-> Nil, d |-> d]
Then(r, F(_)) == IF r.res = "ok" THEN F(r) ELSE r

\* Errors of the functions for an interface are thrown.
Thrown(r) == IF r.res = "err" THEN [r EXCEPT !.res = "panic"] ELSE r

\* addErrorContext asks its own err, a nil pointer that it has just declared,
\* whether it is an UnmarshalTypeError: it is, and is written to.
addErrorContext(d) == IF d.named THEN Failed("context", d) ELSE Failed("err", d)

\* saveError of the first error, after which v is the value and decoding goes on.
saveError(v, d) ==
  IF d.named /\ ~d.saved THEN addErrorContext(d) ELSE Ok(v, [d EXCEPT !.saved = TRUE])

-----------------------------------------------------------------------------
(* Reading *)

\* The next token, which is to be of kind k.
Take(k, d) ==
  IF d.in = << >> THEN Failed("err", d)
  ELSE IF Head(d.in).k # k THEN Failed("misread", d)
  ELSE Ok(Head(d.in), [d EXCEPT !.in = Tail(@)])

\* bytes.Reader's Read of n bytes: it fails at the end of the input, if n is
\* zero too, and is content with what is there; the rest stays zero.
ReadBytes(n, d) ==
  LET k == IF n < Len(d.in) THEN n ELSE Len(d.in)
  IN  IF d.in = << >> THEN Failed("err", d)
      ELSE IF \E i \in 1..k : d.in[i].k # "byte" THEN Failed("misread", d)
      ELSE Ok([i \in 1..n |-> IF i <= k THEN d.in[i].c ELSE "0"],
              [d EXCEPT !.in = SubSeq(@, k + 1, Len(@))])

objectName(d) ==
  Then(Take("u16", d), LAMBDA r :
    IF r.v.n = 0 THEN Ok(<< >>, r.d) ELSE ReadBytes(r.v.n, r.d))

\* Faulty variant: the end of the input ends an object too.
ObjectEndLenient(v, d) ==
  LET r == Take("marker", d)
  IN  IF d.in = << >> \/ (r.res = "ok" /\ r.v.m = "ObjectEnd") THEN Ok(v, r.d)
      ELSE Failed(IF r.res = "misread" THEN "misread" ELSE "panic", r.d)

ObjectEndMarker(v, d) ==
  LET r == Take("marker", d)
  IN  IF r.res = "ok" /\ r.v.m = "ObjectEnd" THEN Ok(v, r.d)
      ELSE Failed(IF r.res = "misread" THEN "misread" ELSE "panic", r.d)

-----------------------------------------------------------------------------
(* Values that are not made of others *)

\* v goes to a target of one of the kinds, or to an interface.
Store(t, kinds, as, v, d) ==
  IF t.k \in kinds THEN Ok(v, d)
  ELSE IF t.k = "any" THEN Ok(Holding(as, v), d)
  ELSE Failed(IF t = Invalid THEN "panic" ELSE "err", d)

\* int64(f) and uint64(f): the fraction is cut off; out of range, any integer.
ToInteger(n, Range64) ==
  LET i == IF n < 0 THEN -((-n) \div 2) ELSE n \div 2
  IN  IF i \in Range64 THEN i ELSE OutOfRange(i)

\* SetInt and SetUint keep the low bits, SetFloat the nearest float.
Converted(t, n) ==
  LET sign == 2 ^ (t.bits - 1)
      wide == 2 ^ (Wide - 1)
  IN  CASE t.k = "int" -> 2 * (((ToInteger(n, -wide..(wide - 1)) + sign) % (2 * sign)) - sign)
        [] t.k = "uint" -> 2 * (ToInteger(n, 0..(2 * wide - 1)) % (2 * sign))
        [] t.k = "float" -> Rounded(n, t.bits)
        [] OTHER -> n

\* None of this is an error.  The type Number is left out.
float64(t, d) ==
  Then(Take("f64", d), LAMBDA r :
    Store(t, {"int", "uint", "float"}, Float64, Num(Converted(t, r.v.n)), r.d))

bool(t, d) ==
  Then(Take("u8", d), LAMBDA r : Store(t, {"bool"}, Bool, Truth(r.v.n # 0), r.d))

\* Text for a slice of bytes is base64, and for an integer, digits; none of
\* the texts here is.
string(t, d) ==
  Then(Take("u16", d), LAMBDA r :
    Then(ReadBytes(r.v.n, r.d), LAMBDA s : Store(t, {"string"}, Str, Text(s.v), s.d)))

longString(t, d) ==
  Then(Take("u32", d), LAMBDA r :
    Then(ReadBytes(r.v.n, r.d), LAMBDA s : Store(t, {"string"}, Str, Text(s.v), s.d)))

\* Faulty variant: not for maps.
nullNarrow(t, old, d) ==
  CASE t.k \in {"slice", "any"} \/ (t.k = "chan" /\ old = Nil) -> Ok(Nil, d)
    [] t.k = "chan" /\ old # Nil -> Failed("err", d)
    [] OTHER -> Failed("panic", d)

\* IsNil is asked first, which panics for what cannot be nil.  A channel or a
\* function that is nil stays so, and is not set to nil otherwise.
null(t, old, d) ==
  CASE t.k \in {"slice", "map", "any"} \/ (t.k = "chan" /\ old = Nil) -> Ok(Nil, d)
    [] t.k = "chan" /\ old # Nil -> Failed("err", d)
    [] OTHER -> Failed("panic", d)

\* Faulty variant: without the zone.
dateZoneless(old, d) == Then(Take("f64", d), LAMBDA r : Ok(old, r.d))

\* The time, and its zone, which may be missing when there is a target.
date(old, d) ==
  Then(Take("f64", d), LAMBDA r :
    LET s == Take("u16", r.d) IN Ok(old, IF s.res = "ok" THEN s.d ELSE r.d))

dateInterface(d) ==
  Thrown(Then(Take("f64", d), LAMBDA r :
    Then(Take("u16", r.d), LAMBDA s : Ok(Nil, s.d))))

-----------------------------------------------------------------------------
(* Fields *)

foldName(s) == [i \in DOMAIN s |-> IF s[i] \in DOMAIN Upper THEN Upper[s[i]] ELSE s[i]]

\* Faulty variant: the exact name is not preferred.
FieldForFolded(t, name) ==
  LET Folded == {i \in DOMAIN t.fields : foldName(t.fields[i].name) = foldName(name)}
  IN  IF Folded # {} THEN CHOOSE i \in Folded : \A j \in Folded : i <= j ELSE 0

\* The field for a name: the one of this very name, or else the first that
\* differs from it by the case of letters alone; 0 if there is none.
FieldFor(t, name) ==
  LET Exact == {i \in DOMAIN t.fields : t.fields[i].name = name}
      Folded == {i \in DOMAIN t.fields : foldName(t.fields[i].name) = foldName(name)}
      First(S) == CHOOSE i \in S : \A j \in S : i <= j
  IN  IF Exact # {} THEN First(Exact) ELSE IF Folded # {} THEN First(Folded) ELSE 0

\* The embedded pointer on the way to field i gets a struct, if it has none.
Allocated(t, v, i) ==
  Fields([j \in DOMAIN v.f |->
    IF v.f[j] = Absent /\ t.fields[j].embedded = t.fields[i].embedded
    THEN ZeroOf(t.fields[j].typ) ELSE v.f[j]])

-----------------------------------------------------------------------------
(* Values made of others *)

RECURSIVE value(_, _, _), Members(_, _, _), Elements(_, _, _, _, _)
RECURSIVE valueInterface(_), objectInterface(_, _), arrayInterface(_, _, _)

objectInterface(m, d) ==
  Then(Thrown(objectName(d)), LAMBDA on :
    IF on.v = << >> THEN Thrown(ObjectEndMarker(Entries(m), on.d))
    ELSE Then(valueInterface(on.d), LAMBDA r :
           objectInterface([s \in DOMAIN m \cup {on.v} |-> IF s = on.v THEN r.v ELSE m[s]], r.d)))

arrayInterface(n, e, d) ==
  IF n = 0 THEN Ok(Elems(e), d)
  ELSE Then(valueInterface(d), LAMBDA r : arrayInterface(n - 1, Append(e, r.v), r.d))

\* In an interface: numbers, strings, maps and slices of such.
valueInterface(d) ==
  Then(Thrown(Take("marker", d)), LAMBDA m :
    CASE m.v.m = "Number" -> Thrown(float64(Interface, m.d))
      [] m.v.m = "Boolean" -> Thrown(bool(Interface, m.d))
      [] m.v.m = "String" -> Thrown(string(Interface, m.d))
      [] m.v.m \in {"LongString", "XMLDocument"} -> Thrown(longString(Interface, m.d))
      [] m.v.m = "Object" ->
           Then(objectInterface(<< >>, m.d), LAMBDA r : Ok(Holding(MapOf(Interface), r.v), r.d))
      [] m.v.m = "ECMAArray" ->
           Then(Thrown(Take("u32", m.d)), LAMBDA n :
             Then(objectInterface(<< >>, n.d), LAMBDA r : Ok(Holding(MapOf(Interface), r.v), r.d)))
      [] m.v.m = "StrictArray" ->
           Then(Thrown(Take("u32", m.d)), LAMBDA n :
             Then(arrayInterface(n.v.n, << >>, n.d), LAMBDA r : Ok(Holding(SliceOf(Interface), r.v), r.d)))
      [] m.v.m \in {"Null", "Undefined", "Unsupported"} -> Ok(Nil, m.d)
      [] m.v.m = "Date" -> dateInterface(m.d)
      [] OTHER -> Failed("panic", m.d))

\* The members of an object, into a map or a struct.
Members(t, v, d) ==
  Then(objectName(d), LAMBDA on :
    LET i == IF t.k = "struct" THEN FieldFor(t, on.v) ELSE 0
        Into(T, old, e, Put(_)) ==
          Then(value(T, old, [e EXCEPT !.named = @ \/ i > 0]), LAMBDA r :
            Members(t, Put(r.v), [r.d EXCEPT !.named = d.named]))
    IN  CASE on.v = << >> -> ObjectEndMarker(v, on.d)
          [] on.v # << >> /\ t.k = "map" ->
               Into(t.elem, ZeroOf(t.elem), on.d, LAMBDA x :
                 Entries([s \in DOMAIN v.m \cup {on.v} |-> IF s = on.v THEN x ELSE v.m[s]]))
          [] on.v # << >> /\ t.k = "struct" /\ i = 0 ->
               Into(Invalid, Nil, on.d, LAMBDA x : v)
          \* An embedded pointer to an unexported struct cannot be set.
          [] on.v # << >> /\ i > 0 /\ v.f[i] = Absent /\ t.fields[i].embedded = "unexported" ->
               Then(saveError(v, on.d), LAMBDA r : Into(Invalid, Nil, r.d, LAMBDA x : v))
          [] OTHER ->
               LET w == Allocated(t, v, i)
               IN  Into(t.fields[i].typ, w.f[i], on.d, LAMBDA x : Fields([w.f EXCEPT ![i] = x])))

object(t, old, d) ==
  CASE t = Invalid -> Failed("panic", d)
    [] t.k = "any" ->
         Then(objectInterface(<< >>, d), LAMBDA r : Ok(Holding(MapOf(Interface), r.v), r.d))
    [] t.k = "map" -> Members(t, IF old = Nil THEN Entries(<< >>) ELSE old, d)
    [] t.k = "struct" -> Members(t, old, d)
    [] OTHER -> saveError(old, d)

ecmaArray(t, old, d) == Then(Take("u32", d), LAMBDA n : object(t, old, n.d))

\* Elements i to n, over those the target has.
Elements(t, e, i, n, d) ==
  IF i > n
  THEN Ok(Elems([j \in 1..(IF t.k = "array" THEN t.n ELSE n) |->
                   IF j <= n THEN e[j] ELSE ZeroOf(t.elem)]), d)
  ELSE IF t.k = "array" /\ i > t.n
  THEN Then(value(Invalid, Nil, d), LAMBDA r : Elements(t, e, i + 1, n, r.d))
  ELSE Then(value(t.elem, IF i <= Len(e) THEN e[i] ELSE ZeroOf(t.elem), d), LAMBDA r :
         Elements(t, [j \in 1..(IF i > Len(e) THEN i ELSE Len(e)) |-> IF j = i THEN r.v ELSE e[j]],
                  i + 1, n, r.d))

strictArray(t, old, d) ==
  Then(Take("u32", d), LAMBDA n :
    CASE t = Invalid -> Failed("panic", n.d)
      [] t.k = "any" ->
           Then(arrayInterface(n.v.n, << >>, n.d), LAMBDA r : Ok(Holding(SliceOf(Interface), r.v), r.d))
      [] t.k \in {"slice", "array"} -> Elements(t, IF old = Nil THEN << >> ELSE old.e, 1, n.v.n, n.d)
      [] OTHER -> saveError(old, n.d))

\* By the marker.
Marked(t, old, d) ==
  LET r == Take("marker", d)
      m == r.v.m
  IN  IF r.res # "ok" THEN r
      ELSE CASE m = "Number" -> float64(t, r.d)
             [] m = "Boolean" -> bool(t, r.d)
             [] m = "String" -> string(t, r.d)
             [] m \in {"LongString", "XMLDocument"} -> longString(t, r.d)
             [] m = "Object" -> object(t, old, r.d)
             [] m = "ECMAArray" -> ecmaArray(t, old, r.d)
             [] m = "StrictArray" -> strictArray(t, old, r.d)
             [] m = "Null" -> null(t, old, r.d)
             [] m \in {"Undefined", "Unsupported"} -> Ok(old, r.d)
             [] m = "Date" -> date(old, r.d)
             [] OTHER -> Failed("err", r.d)

\* indirect goes through pointers, makes those that are nil, and hands over
\* to UnmarshalAMF, with what it takes for the rest of the input.
value(t, old, d) ==
  CASE t.k = "custom" ->
         IF Len(d.in) > Len(d.data) THEN Failed("panic", d)
         ELSE Ok(Given(SubSeq(d.data, Len(d.in) + 1, Len(d.data))), d)
    [] t.k = "ptr" ->
         Then(value(t.elem, IF old = Nil THEN ZeroOf(t.elem) ELSE old.to, d), LAMBDA r : Ok(Ptr(r.v), r.d))
    [] t.k = "any" /\ old.k = "holding" /\ old.t.k = "ptr" /\ old.v # Nil ->
         Then(value(old.t, old.v, d), LAMBDA r : Ok(Holding(old.t, r.v), r.d))
    [] OTHER -> Marked(t, old, d)

\* A saved error is the result when there is no other.
unmarshal(d, t, old) ==
  LET r == value(t, old, d)
  IN  CASE r.res = "ok" /\ r.d.saved -> Failed("err", r.d)
        [] r.res = "err" -> addErrorContext(r.d)
        [] OTHER -> r
=============================================================================
