----------------------------- MODULE AmfValues -----------------------------
(***************************************************************************)
(* The Go types and values package amf is given, as reflect shows them,    *)
(* and the AMF they become.  A value is known together with its type.      *)
(* Encoded data is a sequence of tokens, not of bytes: a marker, a number, *)
(* a length, or one byte of a string.  A name is the sequence of its bytes.*)
(***************************************************************************)
EXTENDS Integers, Sequences

CONSTANTS
  Significand,  \* bits of a float64's significand, 53 in Go
  Wide          \* bits of an int64 and a uint64

ASSUME NumbersAssumption == Significand \in Nat \ {0} /\ Wide \in Nat \ {0}

\* Types.  A type with a MarshalAMF or UnmarshalAMF method is Custom.
Bool == [k |-> "bool"]
Integer(bits) == [k |-> "int", bits |-> bits]
Unsigned(bits) == [k |-> "uint", bits |-> bits]
Float(bits) == [k |-> "float", bits |-> bits]
Float64 == Float(Significand)
Str == [k |-> "string"]
Interface == [k |-> "any"]
Custom == [k |-> "custom"]
Chan == [k |-> "chan"]  \* or a function
PtrTo(t) == [k |-> "ptr", elem |-> t]
SliceOf(t) == [k |-> "slice", elem |-> t]
ArrayOf(n, t) == [k |-> "array", n |-> n, elem |-> t]
MapOf(t) == [k |-> "map", elem |-> t]
StructOf(fields) == [k |-> "struct", fields |-> fields]

\* type P *P: a type of pointers to itself.
Endless == [k |-> "endless"]

\* A field as typeFields lists it.  embedded says whether it is promoted
\* through an embedded pointer, to an exported struct type or another.
Field(name, t, omitEmpty, embedded) ==
  [name |-> name, typ |-> t, omitEmpty |-> omitEmpty, embedded |-> embedded]

\* Values.  Nil is that of pointers, slices, maps and interfaces.
Nil == [k |-> "nil"]
Truth(b) == [k |-> "truth", b |-> b]
Channel == [k |-> "channel"]

\* A number, counted in halves: all fractions are such.
Num(n) == [k |-> "num", n |-> n]
Text(s) == [k |-> "text", s |-> s]
Ptr(v) == [k |-> "pointer", to |-> v]
Holding(t, v) == [k |-> "holding", t |-> t, v |-> v]
Elems(e) == [k |-> "elems", e |-> e]
Entries(m) == [k |-> "entries", m |-> m]
Fields(f) == [k |-> "fields", f |-> f]

\* var p P; p = &p.
Loop == [k |-> "loop"]

\* A promoted field whose embedded pointer is nil.
Absent == [k |-> "absent"]

\* A Custom value whose method gives the AMF, or fails; and one whose
\* UnmarshalAMF was given the AMF.
Gives(amf) == [k |-> "gives", amf |-> amf]
Fails == [k |-> "fails"]
Given(amf) == [k |-> "given", amf |-> amf]

\* The float with a significand of so many bits that is nearest to n: of two
\* as near the one whose last bit is 0.  Exponents have no bound here.
Rounded(n, bits) ==
  LET m == IF n < 0 THEN -n ELSE n
      s == 2 ^ (CHOOSE e \in 0..m : m <= 2 ^ (bits + e) /\ (e = 0 \/ m > 2 ^ (bits + e - 1)))
      up == 2 * (m % s) > s \/ (2 * (m % s) = s /\ (m \div s) % 2 = 1)
      r == s * (m \div s + (IF up THEN 1 ELSE 0))
  IN  IF n < 0 THEN -r ELSE r

\* Tokens.
Marker(m) == [k |-> "marker", m |-> m]
F64(n) == [k |-> "f64", n |-> n]
U8(n) == [k |-> "u8", n |-> n]
U16(n) == [k |-> "u16", n |-> n]
U32(n) == [k |-> "u32", n |-> n]
Byte(c) == [k |-> "byte", c |-> c]
Bytes(s) == [i \in DOMAIN s |-> Byte(s[i])]
=============================================================================
