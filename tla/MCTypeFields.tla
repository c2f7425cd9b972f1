---------------------------- MODULE MCTypeFields ----------------------------
(* Families of struct types for TLC. *)
EXTENDS TypeFields

\* Fields called 1 and 2, fields called 3 to 5 with a tag that says 1 or 2, and
\* embedded structs; then fields left out by their tag or for being unexported,
\* and an embedded field that is no struct.
Plain(n) == StructField(n, 0, "other", FALSE, TRUE)
Tagged(name, tag) == StructField(name, tag, "other", FALSE, TRUE)
Embed(n, t) == StructField(n, 0, t, TRUE, n # 6)
Others == {StructField(1, Dash, "other", FALSE, TRUE), StructField(2, 0, "other", FALSE, FALSE),
           StructField(2, 1, "other", TRUE, FALSE), StructField(2, 0, "other", TRUE, TRUE)}

\* Lists of fields with names of their own.
Lists(S, n) ==
  {l \in UNION {[1..k -> S] : k \in 0..n} : \A i, j \in DOMAIN l : i # j => l[i].name # l[j].name}

ToA == Embed(6, "A")
ToB == Embed(7, "B")
ToC == Embed(8, "C")
ToD == Embed(9, "D")

MCGraphs ==
  {[s \in {"T", "A", "B", "C"} |->
      CASE s = "T" -> t [] s = "A" -> a [] s = "B" -> b [] OTHER -> c] :
    t \in {<<ToA, ToB>>, <<ToB, Tagged(3, 2), ToA>>, <<StructField(6, 1, "A", TRUE, TRUE), ToB>>,
           <<ToA, ToB, ToC>>},
    a \in Lists({Plain(1), Tagged(3, 1), Embed(5, "T"), ToB, ToC}, 2),
    b \in Lists({Plain(1), Tagged(4, 2), ToC, ToA}, 2),
    c \in Lists({Plain(1), Plain(2), Tagged(5, 1)}, 2)}
  \cup
  {[s \in {"T", "A"} |-> IF s = "T" THEN <<ToA, h>> ELSE a] :
    h \in Others, a \in Lists({Plain(1), Plain(2), Tagged(3, 2)} \cup Others, 3)}
  \cup
  {[s \in {"T", "A", "B", "C", "D"} |->
      CASE s = "T" -> <<ToA, ToB>> [] s = "A" -> a [] s = "B" -> b [] s = "C" -> c [] OTHER -> <<Plain(1)>>] :
    a \in Lists({Plain(2), ToC, ToD}, 2), b \in Lists({Plain(1), ToC}, 2), c \in Lists({Tagged(3, 1), ToD}, 2)}
=============================================================================
