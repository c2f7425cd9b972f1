----------------------- MODULE TypeEncoderCacheProofs -----------------------
(***************************************************************************)
(* The encoder cache, proved for any number of goroutines and for every    *)
(* graph of types: CacheInv is inductive, and what it says of the encoders *)
(* that can be reached gives MadeOnce, WaitsOnMaker and FieldsShared.      *)
(*                                                                         *)
(* And that every step of the cache is a step of EncoderService, or none.  *)
(* CacheInv says who makes which encoder; MatchInv takes in addition that  *)
(* an encoder is the one asked for, at every level of every stack.         *)
(***************************************************************************)
EXTENDS TypeEncoderCache, SequenceTheorems, TLAPS

-----------------------------------------------------------------------------
(* The stack of a goroutine *)

LEMMA FrontOfSeq ==
  ASSUME NEW S, NEW s \in Seq(S), s # << >>
  PROVE  /\ Len(s) \in Nat \ {0}
         /\ Front(s) \in Seq(S) /\ Len(Front(s)) = Len(s) - 1
         /\ \A i \in 1..(Len(s) - 1) : Front(s)[i] = s[i]
<1>1. Len(s) \in Nat \ {0}
  BY EmptySeq
<1>2. \A i \in 1..(Len(s) - 1) : s[i] \in S
  BY <1>1, ElementOfSeq
<1>3. /\ SubSeq(s, 1, Len(s) - 1) \in Seq(S)
      /\ Len(SubSeq(s, 1, Len(s) - 1)) = IF 1 <= Len(s) - 1 THEN Len(s) - 1 - 1 + 1 ELSE 0
      /\ \A i \in 1..(Len(s) - 1 - 1 + 1) : SubSeq(s, 1, Len(s) - 1)[i] = s[1 + i - 1]
  <2>1. 1 \in Int /\ Len(s) - 1 \in Int
    BY <1>1
  <2> QED  BY <1>2, <2>1, SubSeqProperties
<1>4. SubSeq(s, 1, Len(s) - 1) = Front(s)
  BY DEF Front
<1> HIDE DEF Front
<1> QED  BY <1>1, <1>3, <1>4

LEMMA FrameTypes ==
  ASSUME CacheTypeOK, NEW g \in Goroutines
  PROVE  /\ stack[g] \in Seq(Frames) /\ Len(stack[g]) \in Nat
         /\ stack[g] # << >> <=> Len(stack[g]) >= 1
         /\ \A i \in 1..Len(stack[g]) :
              /\ stack[g][i] \in Frames /\ stack[g][i].t \in Types
              /\ stack[g][i].kind \in {"struct", "encoder", "fields"}
              /\ stack[g][i].got \in Seq(Encoders) /\ Len(stack[g][i].got) \in Nat
<1>1. stack[g] \in Seq(Frames)
  BY DEF CacheTypeOK
<1>2. Len(stack[g]) \in Nat
  BY <1>1, LenProperties
<1>3. stack[g] # << >> <=> Len(stack[g]) >= 1
  BY <1>1, <1>2, EmptySeq
<1>4. ASSUME NEW i \in 1..Len(stack[g])
      PROVE  /\ stack[g][i] \in Frames /\ stack[g][i].t \in Types
             /\ stack[g][i].kind \in {"struct", "encoder", "fields"}
             /\ stack[g][i].got \in Seq(Encoders) /\ Len(stack[g][i].got) \in Nat
  <2>1. stack[g][i] \in Frames
    BY <1>1, ElementOfSeq
  <2>2. stack[g][i].got \in Seq(Encoders)
    BY <2>1 DEF Frames
  <2>3. Len(stack[g][i].got) \in Nat
    BY <2>2, LenProperties
  <2> QED  BY <2>1, <2>2, <2>3 DEF Frames
<1> QED  BY <1>1, <1>2, <1>3, <1>4

LEMMA NewFrameType ==
  ASSUME NEW t \in Types, NEW kind \in {"struct", "encoder", "fields"}
  PROVE  Frame(kind, t) \in Frames
<1>1. << >> \in Seq(Encoders)
  BY EmptySeq
<1> QED  BY <1>1 DEF Frame, Frames

LEMMA EncoderIs ==
  ASSUME NEW t, NEW g, NEW final
  PROVE  /\ Encoder(t, g, final).t = t /\ Encoder(t, g, final).by = g
         /\ Encoder(t, g, final).final = final
         /\ final # "none" => Encoder(t, g, final) # NoEncoder
<1>1. /\ Encoder(t, g, final).t = t /\ Encoder(t, g, final).by = g
      /\ Encoder(t, g, final).final = final /\ NoEncoder.final = "none"
  BY DEF Encoder, NoEncoder
<1> QED  BY <1>1

LEMMA PartsTypes ==
  ASSUME NEW t \in Types
  PROVE  Parts[t] \in Seq(Types) /\ Len(Parts[t]) \in Nat
         /\ \A i \in 1..Len(Parts[t]) : Parts[t][i] \in Types
BY TypesAssumption, LenProperties, ElementOfSeq

\* A frame pushed on the stack of g.
Pushed(g, f) ==
  /\ stack' \in [Goroutines -> Seq(Frames)]
  /\ \A h \in Goroutines \ {g} : stack'[h] = stack[h]
  /\ Len(stack'[g]) = Len(stack[g]) + 1
  /\ \A i \in 1..Len(stack[g]) : stack'[g][i] = stack[g][i]
  /\ stack'[g][Len(stack[g]) + 1] = f

LEMMA PushIs ==
  ASSUME CacheTypeOK, NEW g \in Goroutines, NEW f \in Frames, Push(g, f)
  PROVE  Pushed(g, f)
<1>1. stack \in [Goroutines -> Seq(Frames)] /\ stack[g] \in Seq(Frames)
  BY DEF CacheTypeOK
<1>2. /\ Append(stack[g], f) \in Seq(Frames)
      /\ Len(Append(stack[g], f)) = Len(stack[g]) + 1
      /\ \A i \in 1..Len(stack[g]) : Append(stack[g], f)[i] = stack[g][i]
      /\ Append(stack[g], f)[Len(stack[g]) + 1] = f
  BY <1>1, AppendProperties
<1>3. stack' = [stack EXCEPT ![g] = Append(stack[g], f)]
  BY DEF Push
<1>4. stack'[g] = Append(stack[g], f) /\ \A h \in Goroutines \ {g} : stack'[h] = stack[h]
  BY <1>1, <1>3
<1>5. stack' \in [Goroutines -> Seq(Frames)]
  BY <1>1, <1>2, <1>3
<1> QED  BY <1>2, <1>4, <1>5 DEF Pushed

\* The stack of g becomes that of s, with another frame f on top.
Topped(g, s, f) ==
  /\ stack' \in [Goroutines -> Seq(Frames)]
  /\ \A h \in Goroutines \ {g} : stack'[h] = stack[h]
  /\ Len(stack'[g]) = Len(s)
  /\ \A i \in 1..(Len(s) - 1) : stack'[g][i] = s[i]
  /\ stack'[g][Len(s)] = f

LEMMA ToppedIs ==
  ASSUME CacheTypeOK, NEW g \in Goroutines, NEW s \in Seq(Frames), s # << >>,
         NEW f \in Frames, stack' = [stack EXCEPT ![g] = [s EXCEPT ![Len(s)] = f]]
  PROVE  Topped(g, s, f)
<1>1. stack \in [Goroutines -> Seq(Frames)]
  BY DEF CacheTypeOK
<1>2. Len(s) \in Nat \ {0}
  BY EmptySeq
<1>3. Len(s) \in 1..Len(s)
  BY <1>2
<1>4. /\ [s EXCEPT ![Len(s)] = f] \in Seq(Frames)
      /\ Len([s EXCEPT ![Len(s)] = f]) = Len(s)
      /\ \A j \in 1..Len(s) : [s EXCEPT ![Len(s)] = f][j] = IF j = Len(s) THEN f ELSE s[j]
  BY <1>3, ExceptSeq
<1>5. stack'[g] = [s EXCEPT ![Len(s)] = f] /\ \A h \in Goroutines \ {g} : stack'[h] = stack[h]
  BY <1>1
<1>6. stack' \in [Goroutines -> Seq(Frames)]
  BY <1>1, <1>4
<1>7. \A j \in 1..(Len(s) - 1) : j \in 1..Len(s) /\ j # Len(s)
  BY <1>2
<1>8. stack'[g][Len(s)] = f /\ \A j \in 1..(Len(s) - 1) : stack'[g][j] = s[j]
  BY <1>3, <1>4, <1>5, <1>7
<1> QED  BY <1>4, <1>5, <1>6, <1>8 DEF Topped

-----------------------------------------------------------------------------
(* What each step does to the stack *)

\* Frame f and encoder e on top of what it has got.
Gets(h, f, e) ==
  /\ h.t = f.t /\ h.kind = f.kind
  /\ Len(f.got) \in Nat /\ Len(h.got) = Len(f.got) + 1
  /\ \A k \in 1..Len(f.got) : h.got[k] = f.got[k]
  /\ h.got[Len(f.got) + 1] = e

\* typeEncoder returns e with the frames rest left on the stack of g.
LEMMA ReturnsIs ==
  ASSUME CacheTypeOK, NEW g \in Goroutines, NEW e \in Encoders,
         NEW rest \in Seq(Frames), Returns(g, e, rest)
  PROVE  \/ /\ rest = << >> /\ stack' = [stack EXCEPT ![g] = << >>]
            /\ at' = [at EXCEPT ![g] = e] /\ pc' = [pc EXCEPT ![g] = "encode"]
         \/ /\ rest # << >> /\ Len(rest) >= 1 /\ Len(rest) \in Nat
            /\ UNCHANGED at /\ pc' = [pc EXCEPT ![g] = "build"]
            /\ \E h \in Frames :
                 /\ Gets(h, rest[Len(rest)], e)
                 /\ Topped(g, rest, h)
<1>1. CASE rest = << >>
  BY <1>1 DEF Returns, Goto
<1>2. CASE rest # << >>
  <2> DEFINE f == rest[Len(rest)]
             h == [f EXCEPT !.got = Append(f.got, e)]
  <2>1. Len(rest) \in Nat \ {0} /\ Len(rest) \in 1..Len(rest)
    BY <1>2, EmptySeq
  <2>2. f \in Frames
    BY <2>1, ElementOfSeq
  <2>3. f.got \in Seq(Encoders) /\ Len(f.got) \in Nat
    <3>1. f.got \in Seq(Encoders)
      BY <2>2 DEF Frames
    <3> QED  BY <3>1, LenProperties
  <2>4. /\ Append(f.got, e) \in Seq(Encoders)
        /\ Len(Append(f.got, e)) = Len(f.got) + 1
        /\ \A k \in 1..Len(f.got) : Append(f.got, e)[k] = f.got[k]
        /\ Append(f.got, e)[Len(f.got) + 1] = e
    BY <2>3, AppendProperties
  <2>5. h \in Frames /\ h.t = f.t /\ h.kind = f.kind /\ h.got = Append(f.got, e)
    BY <2>2, <2>4 DEF Frames
  <2>6. /\ stack' = [stack EXCEPT ![g] = [rest EXCEPT ![Len(rest)] = h]]
        /\ pc' = [pc EXCEPT ![g] = "build"] /\ UNCHANGED at
    <3>1. stack' = [stack EXCEPT ![g] = [rest EXCEPT ![Len(rest)].got = Append(f.got, e)]]
          /\ pc' = [pc EXCEPT ![g] = "build"] /\ UNCHANGED at
      BY <1>2 DEF Returns, Goto
    <3> QED  BY <3>1
  <2>7. Topped(g, rest, h)
    <3> HIDE DEF h
    <3> QED  BY <1>2, <2>5, <2>6, ToppedIs
  <2>8. Gets(h, f, e)
    BY <2>3, <2>4, <2>5 DEF Gets
  <2> HIDE DEF h
  <2> QED  BY <1>2, <2>1, <2>5, <2>6, <2>7, <2>8
<1> QED  BY <1>1, <1>2
-----------------------------------------------------------------------------
(* Soundness of encoders from one state to the next *)

MakingNext(g, t) ==
  \E i \in 1..Len(stack'[g]) : stack'[g][i].t = t /\ stack'[g][i].kind # "fields"

SoundNext(e) ==
  /\ <<e.t, e.by>> \in finished' \/ MakingNext(e.by, e.t)
  /\ e.final = "final" => <<e.t, e.by>> \in finished'

\* Whoever was making an encoder still is, or has finished it.
MakingKept ==
  /\ finished \subseteq finished'
  /\ \A g \in Goroutines, t \in Types :
       Making(g, t) => MakingNext(g, t) \/ <<t, g>> \in finished'

LEMMA SoundKept ==
  ASSUME MakingKept
  PROVE  \A e \in Encoders : Sound(e) => SoundNext(e)
<1> SUFFICES ASSUME NEW e \in Encoders, Sound(e) PROVE SoundNext(e)
  OBVIOUS
<1>1. e.by \in Goroutines /\ e.t \in Types
  BY DEF Encoders
<1> QED  BY <1>1 DEF MakingKept, Sound, SoundNext

\* The first keep frames of g stay, and at most one more is on top of them.
Restacked(g, keep) ==
  /\ stack' \in [Goroutines -> Seq(Frames)]
  /\ \A h \in Goroutines \ {g} : stack'[h] = stack[h]
  /\ keep \in Nat /\ keep <= Len(stack[g])
  /\ Len(stack'[g]) = keep \/ Len(stack'[g]) = keep + 1
  /\ \A i \in 1..keep : stack'[g][i] = stack[g][i]

NewTop(g, keep) == stack'[g][keep + 1]
HasNewTop(g, keep) == Len(stack'[g]) = keep + 1

LEMMA RestackedMaking ==
  ASSUME CacheTypeOK, NEW g \in Goroutines, NEW keep, Restacked(g, keep),
         finished \subseteq finished',
         \A i \in (keep + 1)..Len(stack[g]) : stack[g][i].kind # "fields" =>
           \/ <<stack[g][i].t, g>> \in finished'
           \/ /\ HasNewTop(g, keep) /\ NewTop(g, keep).t = stack[g][i].t
              /\ NewTop(g, keep).kind # "fields"
  PROVE  MakingKept
<1> SUFFICES ASSUME NEW h \in Goroutines, NEW t \in Types, Making(h, t)
             PROVE  MakingNext(h, t) \/ <<t, h>> \in finished'
  BY DEF MakingKept
<1>1. CASE h # g
  BY <1>1 DEF Restacked, Making, MakingNext
<1>2. CASE h = g
  <2>1. PICK i \in 1..Len(stack[g]) : stack[g][i].t = t /\ stack[g][i].kind # "fields"
    BY <1>2 DEF Making
  <2>2. Len(stack[g]) \in Nat
    BY FrameTypes
  <2>3. CASE i <= keep
    <3>1. i \in 1..Len(stack'[g]) /\ stack'[g][i] = stack[g][i]
      BY <2>2, <2>3 DEF Restacked
    <3> QED  BY <1>2, <2>1, <3>1 DEF MakingNext
  <2>4. CASE i > keep
    <3>1. i \in (keep + 1)..Len(stack[g])
      BY <2>2, <2>4 DEF Restacked
    <3>2. HasNewTop(g, keep) => keep + 1 \in 1..Len(stack'[g])
      BY DEF HasNewTop, Restacked
    <3> QED  BY <1>2, <2>1, <3>1, <3>2 DEF MakingNext, NewTop
  <2>5. keep \in Nat
    BY DEF Restacked
  <2> QED  BY <2>2, <2>3, <2>4, <2>5
<1> QED  BY <1>1, <1>2

\* The encoders in the frames that stay remain sound.
LEMMA RestackedHeld ==
  ASSUME CacheInv, NEW g \in Goroutines, NEW keep, Restacked(g, keep), MakingKept,
         HasNewTop(g, keep) =>
           \A k \in 1..Len(NewTop(g, keep).got) : SoundNext(NewTop(g, keep).got[k])
  PROVE  \A h \in Goroutines : \A i \in 1..Len(stack'[h]) : \A k \in 1..Len(stack'[h][i].got) :
           SoundNext(stack'[h][i].got[k])
<1> SUFFICES ASSUME NEW h \in Goroutines, NEW i \in 1..Len(stack'[h]),
                    NEW k \in 1..Len(stack'[h][i].got)
             PROVE  SoundNext(stack'[h][i].got[k])
  OBVIOUS
<1>1. ASSUME stack'[h][i] = stack[h][i], i \in 1..Len(stack[h])
      PROVE  SoundNext(stack'[h][i].got[k])
  <2>1. k \in 1..Len(stack[h][i].got) /\ stack[h][i].got \in Seq(Encoders)
    BY <1>1, FrameTypes DEF CacheInv
  <2>2. stack[h][i].got[k] \in Encoders
    BY <2>1, ElementOfSeq
  <2>3. Sound(stack[h][i].got[k])
    BY <1>1, <2>1 DEF CacheInv, HeldSound
  <2> QED  BY <1>1, <2>2, <2>3, SoundKept
<1>2. CASE h # g
  BY <1>1, <1>2 DEF Restacked
<1>3. CASE h = g
  <2>1. i <= keep \/ (HasNewTop(g, keep) /\ i = keep + 1)
    BY <1>3 DEF Restacked, HasNewTop
  <2>2. CASE i <= keep
    <3>1. Len(stack[g]) \in Nat
      BY FrameTypes DEF CacheInv
    <3>2. i \in 1..keep /\ i \in 1..Len(stack[g])
      BY <1>3, <2>2, <3>1 DEF Restacked
    <3> QED  BY <1>1, <1>3, <3>2 DEF Restacked
  <2>3. CASE HasNewTop(g, keep) /\ i = keep + 1
    BY <1>3, <2>3 DEF NewTop
  <2> QED  BY <2>1, <2>2, <2>3
<1> QED  BY <1>2, <1>3

\* Those in the caches, while these are as they were but for new sound ones.
LEMMA CachesStaySound ==
  ASSUME CacheInv, MakingKept,
         \A t \in Types : encoderCache'[t] # encoderCache[t] =>
           encoderCache'[t].t = t /\ SoundNext(encoderCache'[t]),
         \A t \in Types : fieldCache'[t] # fieldCache[t] =>
           /\ Len(fieldCache'[t]) >= Len(Parts[t])
           /\ \A k \in 1..Len(fieldCache'[t]) : SoundNext(fieldCache'[t][k])
  PROVE  CachesSound'
<1>1. ASSUME NEW t \in Types, encoderCache'[t] # NoEncoder
      PROVE  encoderCache'[t].t = t /\ SoundNext(encoderCache'[t])
  <2>1. CASE encoderCache'[t] = encoderCache[t]
    <3>1. encoderCache[t] \in Encoders
      BY <1>1, <2>1 DEF CacheInv, CacheTypeOK
    <3>2. encoderCache[t].t = t /\ Sound(encoderCache[t])
      BY <1>1, <2>1 DEF CacheInv, CachesSound
    <3>3. SoundNext(encoderCache[t])
      BY <3>1, <3>2, SoundKept
    <3> QED  BY <2>1, <3>2, <3>3
  <2> QED  BY <2>1
<1>2. ASSUME NEW t \in Types, fieldCache'[t] # NoFields
      PROVE  /\ Len(fieldCache'[t]) >= Len(Parts[t])
             /\ \A k \in 1..Len(fieldCache'[t]) : SoundNext(fieldCache'[t][k])
  <2>1. CASE fieldCache'[t] = fieldCache[t]
    <3>1. fieldCache[t] \in Seq(Encoders)
      BY <1>2, <2>1 DEF CacheInv, CacheTypeOK
    <3>2. \A k \in 1..Len(fieldCache[t]) : fieldCache[t][k] \in Encoders /\ Sound(fieldCache[t][k])
      BY <1>2, <2>1, <3>1, ElementOfSeq DEF CacheInv, CachesSound
    <3>3. \A k \in 1..Len(fieldCache[t]) : SoundNext(fieldCache[t][k])
      BY <3>2, SoundKept
    <3> QED  BY <1>2, <2>1, <3>3 DEF CacheInv, CachesSound
  <2> QED  BY <2>1
<1> QED  BY <1>1, <1>2 DEF CachesSound, Sound, SoundNext, Making, MakingNext

\* And so on for those held by encoders and by those that encode.
LEMMA HeldStaySound ==
  ASSUME CacheInv, MakingKept,
         \A h \in Goroutines : \A i \in 1..Len(stack'[h]) : \A k \in 1..Len(stack'[h][i].got) :
           SoundNext(stack'[h][i].got[k]),
         \A t \in Types, g \in Goroutines :
           \/ parts'[t][g] = parts[t][g]
           \/ \A k \in 1..Len(parts'[t][g]) : SoundNext(parts'[t][g][k]),
         \A g \in Goroutines : pc'[g] = "encode" =>
           \/ pc[g] = "encode" /\ at'[g] = at[g]
           \/ at'[g] \in Encoders /\ SoundNext(at'[g])
  PROVE  HeldSound'
<1>1. ASSUME NEW t \in Types, NEW g \in Goroutines, NEW k \in 1..Len(parts'[t][g])
      PROVE  SoundNext(parts'[t][g][k])
  <2>1. CASE parts'[t][g] = parts[t][g]
    <3>1. parts[t][g] \in Seq(Encoders)
      BY DEF CacheInv, CacheTypeOK
    <3>2. parts[t][g][k] \in Encoders /\ Sound(parts[t][g][k])
      BY <2>1, <3>1, <1>1, ElementOfSeq DEF CacheInv, HeldSound
    <3> QED  BY <2>1, <3>2, SoundKept
  <2> QED  BY <2>1
<1>2. ASSUME NEW g \in Goroutines, pc'[g] = "encode"
      PROVE  at'[g] \in Encoders /\ SoundNext(at'[g])
  <2>1. CASE pc[g] = "encode" /\ at'[g] = at[g]
    <3>1. at[g] \in Encoders /\ Sound(at[g])
      BY <2>1 DEF CacheInv, HeldSound
    <3> QED  BY <2>1, <3>1, SoundKept
  <2> QED  BY <1>2, <2>1
<1> QED  BY <1>1, <1>2 DEF HeldSound, Sound, SoundNext, Making, MakingNext
\* Makers keep their placeholders.
LEMMA RestackedMakers ==
  ASSUME CacheInv, NEW g \in Goroutines, NEW keep, Restacked(g, keep),
         \A h \in Goroutines \ {g} : \A i \in 1..Len(stack[h]) :
           stack[h][i].kind # "fields" => encoderCache'[stack[h][i].t] = encoderCache[stack[h][i].t],
         \A i \in 1..keep :
           stack[g][i].kind # "fields" => encoderCache'[stack[g][i].t] = encoderCache[stack[g][i].t],
         HasNewTop(g, keep) /\ NewTop(g, keep).kind # "fields" =>
           /\ encoderCache'[NewTop(g, keep).t] = Encoder(NewTop(g, keep).t, g, "placeholder")
           /\ \A i \in 1..keep :
                stack[g][i].kind # "fields" => stack[g][i].t # NewTop(g, keep).t
  PROVE  MakersOwn'
<1>0. Len(stack[g]) \in Nat /\ \A i \in 1..keep : i \in 1..Len(stack[g])
  BY FrameTypes DEF CacheInv, Restacked
<1> SUFFICES ASSUME NEW h \in Goroutines, NEW i \in 1..Len(stack'[h]), stack'[h][i].kind # "fields"
             PROVE  /\ encoderCache'[stack'[h][i].t] = Encoder(stack'[h][i].t, h, "placeholder")
                    /\ \A j \in 1..Len(stack'[h]) :
                         j # i /\ stack'[h][j].kind # "fields" => stack'[h][j].t # stack'[h][i].t
  BY DEF MakersOwn, Encoder
<1>1. CASE h # g
  BY <1>1 DEF Restacked, CacheInv, MakersOwn
<1>2. CASE h = g
  <2>1. \A j \in 1..Len(stack'[g]) :
          j \in 1..keep \/ (HasNewTop(g, keep) /\ j = keep + 1 /\ stack'[g][j] = NewTop(g, keep))
    BY DEF Restacked, HasNewTop, NewTop
  <2>2. \A j \in 1..keep : stack'[g][j] = stack[g][j]
    BY DEF Restacked
  <2>3. CASE i \in 1..keep
    <3>1. /\ encoderCache[stack[g][i].t] = Encoder(stack[g][i].t, g, "placeholder")
          /\ stack[g][i].kind # "fields" /\ stack'[g][i] = stack[g][i]
      BY <1>0, <1>2, <2>2, <2>3 DEF CacheInv, MakersOwn
    <3>2. ASSUME NEW j \in 1..Len(stack'[g]), j # i, stack'[g][j].kind # "fields"
          PROVE  stack'[g][j].t # stack'[g][i].t
      <4>1. CASE j \in 1..keep
        BY <1>0, <2>2, <2>3, <3>1, <3>2, <4>1 DEF CacheInv, MakersOwn
      <4>2. CASE HasNewTop(g, keep) /\ j = keep + 1 /\ stack'[g][j] = NewTop(g, keep)
        BY <2>3, <3>1, <3>2, <4>2
      <4> QED  BY <2>1, <4>1, <4>2
    <3> QED  BY <1>2, <2>3, <3>1, <3>2
  <2>4. CASE HasNewTop(g, keep) /\ i = keep + 1 /\ stack'[g][i] = NewTop(g, keep)
    <3>1. ASSUME NEW j \in 1..Len(stack'[g]), j # i, stack'[g][j].kind # "fields"
          PROVE  stack'[g][j].t # stack'[g][i].t
      <4>1. j \in 1..keep
        BY <2>1, <2>4, <3>1
      <4> QED  BY <1>2, <2>2, <2>4, <3>1, <4>1
    <3> QED  BY <1>2, <2>4, <3>1
  <2> QED  BY <1>2, <2>1, <2>3, <2>4
<1> QED  BY <1>1, <1>2

\* A list of fields, once in the cache, stays there and is everybody's.
LEMMA RestackedFields ==
  ASSUME CacheInv, NEW g \in Goroutines, NEW keep, Restacked(g, keep),
         \A t \in Types : fieldCache[t] # NoFields => fieldCache'[t] = fieldCache[t],
         HasNewTop(g, keep) /\ NewTop(g, keep).kind = "encoder" /\ NewTop(g, keep).t \in Structs =>
           /\ NewTop(g, keep).got = fieldCache'[NewTop(g, keep).t]
           /\ fieldCache'[NewTop(g, keep).t] # NoFields,
         \A t \in Structs, h \in Goroutines : <<t, h>> \in finished' =>
           \/ <<t, h>> \in finished /\ parts'[t][h] = parts[t][h]
           \/ fieldCache'[t] # NoFields /\ parts'[t][h] = fieldCache'[t]
  PROVE  FieldsInv'
<1>0. Len(stack[g]) \in Nat /\ \A i \in 1..keep : i \in 1..Len(stack[g])
  BY FrameTypes DEF CacheInv, Restacked
<1>1. ASSUME NEW t \in Structs, NEW h \in Goroutines, <<t, h>> \in finished'
      PROVE  fieldCache'[t] # NoFields /\ parts'[t][h] = fieldCache'[t]
  <2>1. t \in Types
    BY TypesAssumption
  <2>2. CASE <<t, h>> \in finished /\ parts'[t][h] = parts[t][h]
    BY <2>1, <2>2 DEF CacheInv, FieldsInv, FieldsShared
  <2> QED  BY <1>1, <2>2
<1>2. ASSUME NEW h \in Goroutines, NEW i \in 1..Len(stack'[h]),
             stack'[h][i].kind = "encoder", stack'[h][i].t \in Structs
      PROVE  /\ stack'[h][i].got = fieldCache'[stack'[h][i].t]
             /\ fieldCache'[stack'[h][i].t] # NoFields
  <2>1. ASSUME stack'[h][i] = stack[h][i], i \in 1..Len(stack[h])
        PROVE  /\ stack'[h][i].got = fieldCache'[stack'[h][i].t]
               /\ fieldCache'[stack'[h][i].t] # NoFields
    <3>1. stack[h][i].t \in Types
      BY <2>1, FrameTypes DEF CacheInv
    <3> QED  BY <1>2, <2>1, <3>1 DEF CacheInv, FieldsInv
  <2>2. CASE h # g
    BY <2>1, <2>2 DEF Restacked
  <2>3. CASE h = g
    <3>1. i \in 1..keep \/ (HasNewTop(g, keep) /\ i = keep + 1 /\ stack'[g][i] = NewTop(g, keep))
      BY <2>3 DEF Restacked, HasNewTop, NewTop
    <3>2. CASE i \in 1..keep
      BY <1>0, <2>1, <2>3, <3>2 DEF Restacked
    <3>3. CASE HasNewTop(g, keep) /\ i = keep + 1 /\ stack'[g][i] = NewTop(g, keep)
      BY <1>2, <2>3, <3>3
    <3> QED  BY <3>1, <3>2, <3>3
  <2> QED  BY <2>2, <2>3
<1> QED  BY <1>1, <1>2 DEF FieldsInv, FieldsShared

\* The shape of the stacks.
LEMMA RestackedShape ==
  ASSUME CacheInv, NEW g \in Goroutines, NEW keep, Restacked(g, keep),
         finished \subseteq finished',
         \A h \in Goroutines \ {g} : pc'[h] = pc[h],
         HasNewTop(g, keep) /\ keep >= 1 => Below(stack[g][keep], NewTop(g, keep)),
         /\ pc'[g] \in {"idle", "encode"} => stack'[g] = << >>
         /\ pc'[g] \in {"build", "publish"} => stack'[g] # << >>
         /\ pc'[g] = "publish" => Top(g)'.kind = "encoder" /\ <<Top(g)'.t, g>> \in finished'
         /\ pc'[g] \in {"load", "store"} /\ stack'[g] # << >> => Lacks(Top(g))'
  PROVE  StackShape'
<1> SUFFICES ASSUME NEW h \in Goroutines
             PROVE  /\ pc'[h] \in {"idle", "encode"} => stack'[h] = << >>
                    /\ pc'[h] \in {"build", "publish"} => stack'[h] # << >>
                    /\ pc'[h] = "publish" => Top(h)'.kind = "encoder" /\ <<Top(h)'.t, h>> \in finished'
                    /\ pc'[h] \in {"load", "store"} /\ stack'[h] # << >> => Lacks(Top(h))'
                    /\ \A i \in 1..(Len(stack'[h]) - 1) : Below(stack'[h][i], stack'[h][i + 1])
  BY DEF StackShape, Top, Lacks, Below
<1>1. CASE h = g
  <2>1. ASSUME NEW i \in 1..(Len(stack'[g]) - 1)
        PROVE  Below(stack'[g][i], stack'[g][i + 1])
    <3>1. Len(stack[g]) \in Nat /\ keep \in Nat /\ keep <= Len(stack[g])
      BY FrameTypes DEF CacheInv, Restacked
    <3>2. i \in 1..keep /\ stack'[g][i] = stack[g][i]
      BY <3>1 DEF Restacked
    <3>3. CASE i + 1 <= keep
      <4>1. stack'[g][i + 1] = stack[g][i + 1] /\ i \in 1..(Len(stack[g]) - 1)
        BY <3>1, <3>3 DEF Restacked
      <4> QED  BY <3>2, <4>1 DEF CacheInv, StackShape
    <3>4. CASE i = keep
      <4>1. HasNewTop(g, keep) /\ stack'[g][i + 1] = NewTop(g, keep) /\ keep >= 1
        BY <3>1, <3>4 DEF Restacked, HasNewTop, NewTop
      <4> QED  BY <3>2, <3>4, <4>1
    <3> QED  BY <3>1, <3>2, <3>3, <3>4
  <2> QED  BY <1>1, <2>1
<1>2. CASE h # g
  <2>1. stack'[h] = stack[h] /\ pc'[h] = pc[h]
    BY <1>2 DEF Restacked
  <2> QED  BY <2>1 DEF CacheInv, StackShape, Top, Lacks
<1> QED  BY <1>1, <1>2

-----------------------------------------------------------------------------
(* The ways a step changes the stack of its goroutine *)

LEMMA NonEmpty ==
  ASSUME NEW S, NEW s \in Seq(S)
  PROVE  Len(s) \in Nat /\ (s # << >> <=> Len(s) >= 1)
BY EmptySeq, LenProperties

LEMMA SameStack ==
  ASSUME CacheInv, NEW g \in Goroutines, UNCHANGED stack
  PROVE  /\ Restacked(g, Len(stack[g])) /\ ~HasNewTop(g, Len(stack[g]))
         /\ Top(g)' = Top(g)
         /\ finished \subseteq finished' => MakingKept
<1>1. Restacked(g, Len(stack[g])) /\ ~HasNewTop(g, Len(stack[g])) /\ Top(g)' = Top(g)
  BY SMTT(30), FrameTypes DEF CacheInv, CacheTypeOK, Restacked, HasNewTop, Top
<1>2. \A i \in (Len(stack[g]) + 1)..Len(stack[g]) : FALSE
  BY FrameTypes DEF CacheInv
<1> QED  BY <1>1, <1>2, RestackedMaking DEF CacheInv

LEMMA PushStack ==
  ASSUME CacheInv, NEW g \in Goroutines, NEW f \in Frames, Push(g, f)
  PROVE  /\ Restacked(g, Len(stack[g])) /\ HasNewTop(g, Len(stack[g]))
         /\ NewTop(g, Len(stack[g])) = f /\ Top(g)' = f /\ stack'[g] # << >>
         /\ finished \subseteq finished' => MakingKept
<1>1. Pushed(g, f) /\ Len(stack[g]) \in Nat
  BY PushIs, FrameTypes DEF CacheInv
<1>2. /\ Restacked(g, Len(stack[g])) /\ HasNewTop(g, Len(stack[g]))
      /\ NewTop(g, Len(stack[g])) = f /\ Top(g)' = f
  BY <1>1 DEF Pushed, Restacked, HasNewTop, NewTop, Top
<1>3. stack'[g] # << >>
  BY <1>1, NonEmpty DEF Pushed
<1>4. \A i \in (Len(stack[g]) + 1)..Len(stack[g]) : FALSE
  BY <1>1
<1> QED  BY <1>2, <1>3, <1>4, RestackedMaking DEF CacheInv

\* Another frame in the place of that of index n.
LEMMA TopStack ==
  ASSUME CacheInv, NEW g \in Goroutines, NEW s \in Seq(Frames), NEW f \in Frames, Topped(g, s, f),
         Len(s) >= 1, Len(s) <= Len(stack[g]),
         \A i \in 1..Len(s) : s[i] = stack[g][i]
  PROVE  /\ Len(s) \in Nat /\ Restacked(g, Len(s) - 1) /\ HasNewTop(g, Len(s) - 1)
         /\ NewTop(g, Len(s) - 1) = f /\ Top(g)' = f /\ stack'[g] # << >>
<1>1. Len(s) \in Nat
  BY LenProperties
<1>2. Len(stack[g]) \in Nat
  BY FrameTypes DEF CacheInv
<1>3. \A i \in 1..(Len(s) - 1) : stack'[g][i] = stack[g][i]
  BY <1>1 DEF Topped
<1>4. Restacked(g, Len(s) - 1) /\ HasNewTop(g, Len(s) - 1)
  BY <1>1, <1>2, <1>3 DEF Topped, Restacked, HasNewTop
<1>5. NewTop(g, Len(s) - 1) = f /\ Top(g)' = f
  <2>1. Len(s) - 1 + 1 = Len(s)
    BY <1>1
  <2> QED  BY <2>1 DEF Topped, NewTop, Top
<1>6. stack'[g] # << >>
  BY <1>1, NonEmpty DEF Topped
<1> QED  BY <1>1, <1>4, <1>5, <1>6

LEMMA ClearStack ==
  ASSUME CacheInv, NEW g \in Goroutines, stack' = [stack EXCEPT ![g] = << >>]
  PROVE  Restacked(g, 0) /\ ~HasNewTop(g, 0) /\ stack'[g] = << >>
<1>1. stack \in [Goroutines -> Seq(Frames)] /\ Len(stack[g]) \in Nat
  BY FrameTypes DEF CacheInv, CacheTypeOK
<1>2. << >> \in Seq(Frames) /\ Len(<< >>) = 0
  BY EmptySeq
<1>3. stack'[g] = << >> /\ stack' \in [Goroutines -> Seq(Frames)]
      /\ \A h \in Goroutines \ {g} : stack'[h] = stack[h]
  BY <1>1, <1>2
<1> QED  BY <1>1, <1>2, <1>3 DEF Restacked, HasNewTop
-----------------------------------------------------------------------------
(* Each step preserves CacheInv *)

LEMMA CacheInitInv == CacheInit => CacheInv
<1> SUFFICES ASSUME CacheInit PROVE CacheInv
  OBVIOUS
<1>0. \A g \in Goroutines : stack[g] = << >>
  BY DEF CacheInit
<1>1. CacheTypeOK
  <2>1. want \in [Goroutines -> Types]
    <3>1. (CHOOSE t \in Types : TRUE) \in Types
      BY TypesAssumption
    <3> QED  BY <3>1 DEF CacheInit
  <2>2. << >> \in Seq(Frames) /\ << >> \in Seq(Encoders)
    BY EmptySeq
  <2> QED  BY <2>1, <2>2 DEF CacheInit, CacheTypeOK
<1>2. Len(<< >>) = 0
  OBVIOUS
<1>3. StackShape
  BY <1>0, <1>2 DEF CacheInit, StackShape
<1>4. MakersOwn /\ FinishedOwn /\ CachesSound /\ FieldsInv
  BY <1>0, <1>2 DEF CacheInit, MakersOwn, FinishedOwn, CachesSound, FieldsInv, FieldsShared
<1>5. HeldSound
  BY <1>0, <1>2 DEF CacheInit, HeldSound
<1> QED  BY <1>1, <1>3, <1>4, <1>5 DEF CacheInv

\* Steps that change nothing but what one goroutine is about to do.
LEMMA LocalStep ==
  ASSUME CacheInv, NEW g \in Goroutines, CacheTypeOK',
         UNCHANGED <<stack, encoderCache, fieldCache, finished, parts>>,
         \A h \in Goroutines \ {g} : pc'[h] = pc[h] /\ at'[h] = at[h],
         pc'[g] = "encode" => at'[g] \in Encoders /\ Sound(at'[g]),
         /\ pc'[g] \in {"idle", "encode"} => stack[g] = << >>
         /\ pc'[g] \in {"build", "publish"} => stack[g] # << >>
         /\ pc'[g] = "publish" => Top(g).kind = "encoder" /\ <<Top(g).t, g>> \in finished
         /\ pc'[g] \in {"load", "store"} /\ stack[g] # << >> => Lacks(Top(g))
  PROVE  CacheInv'
<1>0. /\ UNCHANGED stack /\ finished \subseteq finished'
      /\ \A t \in Types : encoderCache'[t] = encoderCache[t] /\ fieldCache'[t] = fieldCache[t]
      /\ \A t \in Types, h \in Goroutines : parts'[t][h] = parts[t][h]
  OBVIOUS
<1>1. /\ Restacked(g, Len(stack[g])) /\ ~HasNewTop(g, Len(stack[g]))
      /\ Top(g)' = Top(g) /\ MakingKept
  BY <1>0, SameStack
<1>2. StackShape'
  BY <1>1, RestackedShape DEF Lacks
<1>3. MakersOwn'
  BY <1>1, RestackedMakers
<1>4. FinishedOwn'
  BY DEF CacheInv, FinishedOwn
<1>5. CachesSound'
  BY <1>0, <1>1, CachesStaySound
<1>6. HeldSound'
  <2>1. \A h \in Goroutines : \A i \in 1..Len(stack'[h]) : \A k \in 1..Len(stack'[h][i].got) :
          SoundNext(stack'[h][i].got[k])
    BY <1>1, RestackedHeld
  <2>2. pc'[g] = "encode" => at'[g] \in Encoders /\ SoundNext(at'[g])
    BY <1>1, SoundKept
  <2> QED  BY <1>1, <2>1, <2>2, HeldStaySound
<1>7. FieldsInv'
  BY <1>1, RestackedFields DEF CacheInv, FieldsInv, FieldsShared
<1> QED  BY <1>2, <1>3, <1>4, <1>5, <1>6, <1>7 DEF CacheInv

LEMMA MarshalInv ==
  ASSUME CacheInv, NEW g \in Goroutines, NEW t \in Types, Marshal(g, t)
  PROVE  CacheInv'
<1>1. CacheTypeOK'
  BY DEF CacheInv, CacheTypeOK, Marshal, Goto
<1>2. stack[g] = << >>
  BY DEF CacheInv, StackShape, Marshal
<1>3. /\ UNCHANGED <<stack, encoderCache, fieldCache, finished, parts>> /\ pc'[g] = "load"
      /\ \A h \in Goroutines \ {g} : pc'[h] = pc[h] /\ at'[h] = at[h]
  BY DEF CacheInv, CacheTypeOK, Marshal, Goto
<1> QED  BY <1>1, <1>2, <1>3, LocalStep

LEMMA TopFrame ==
  ASSUME CacheInv, NEW g \in Goroutines, pc[g] \in {"build", "publish"}
  PROVE  /\ stack[g] # << >> /\ Len(stack[g]) \in 1..Len(stack[g]) /\ Len(stack[g]) \in Nat
         /\ Len(stack[g]) >= 1
         /\ Top(g) \in Frames /\ Top(g).t \in Types /\ Top(g) = stack[g][Len(stack[g])]
         /\ Top(g).kind \in {"struct", "encoder", "fields"}
         /\ Top(g).got \in Seq(Encoders) /\ Len(Top(g).got) \in Nat
<1>1. stack[g] # << >>
  BY DEF CacheInv, StackShape
<1>2. Len(stack[g]) >= 1 /\ Len(stack[g]) \in Nat
  BY <1>1, FrameTypes DEF CacheInv
<1>3. Len(stack[g]) \in 1..Len(stack[g])
  BY <1>2
<1> QED  BY <1>1, <1>2, <1>3, FrameTypes DEF CacheInv, Top

LEMMA AskPartInv ==
  ASSUME CacheInv, NEW g \in Goroutines, askPart(g)
  PROVE  CacheInv'
<1>1. pc[g] = "build" /\ Lacks(Top(g))
  BY DEF askPart
<1>2. Parts[Top(g).t][Len(Top(g).got) + 1] \in Types
  <2>1. Top(g).t \in Types /\ Len(Top(g).got) \in Nat
    BY <1>1, TopFrame
  <2>2. Len(Top(g).got) + 1 \in 1..Len(Parts[Top(g).t])
    BY <1>1, <2>1, PartsTypes DEF Lacks
  <2> QED  BY <2>1, <2>2, PartsTypes
<1>3. CacheTypeOK'
  BY <1>2 DEF CacheInv, CacheTypeOK, askPart, Goto
<1>4. /\ UNCHANGED <<stack, encoderCache, fieldCache, finished, parts>> /\ pc'[g] = "load"
      /\ \A h \in Goroutines \ {g} : pc'[h] = pc[h] /\ at'[h] = at[h]
  BY DEF CacheInv, CacheTypeOK, askPart, Goto
<1> QED  BY <1>1, <1>3, <1>4, LocalStep

LEMMA EncodePartInv ==
  ASSUME CacheInv, NEW g \in Goroutines, encodePart(g)
  PROVE  CacheInv'
<1>1. pc[g] = "encode" /\ stack[g] = << >> /\ at[g] \in Encoders
  BY DEF CacheInv, StackShape, HeldSound, encodePart
<1>2. /\ UNCHANGED <<stack, encoderCache, fieldCache, finished, parts>>
      /\ \A h \in Goroutines \ {g} : pc'[h] = pc[h] /\ at'[h] = at[h]
      /\ depth' \in [Goroutines -> Nat]
  BY DEF CacheInv, CacheTypeOK, encodePart, Goto
<1>3. CASE /\ \E i \in 1..Len(parts[at[g].t][at[g].by]) :
                at' = [at EXCEPT ![g] = parts[@.t][@.by][i]]
           /\ UNCHANGED <<pc, want>>
  <2>1. PICK i \in 1..Len(parts[at[g].t][at[g].by]) :
          at' = [at EXCEPT ![g] = parts[at[g].t][at[g].by][i]]
    BY <1>3
  <2>2. at[g].t \in Types /\ at[g].by \in Goroutines
    BY <1>1 DEF Encoders
  <2>3. parts[at[g].t][at[g].by] \in Seq(Encoders)
    BY <2>2 DEF CacheInv, CacheTypeOK
  <2>4. parts[at[g].t][at[g].by][i] \in Encoders
    BY <2>3, ElementOfSeq
  <2>5. Sound(parts[at[g].t][at[g].by][i])
    BY <2>2 DEF CacheInv, HeldSound
  <2>6. at'[g] = parts[at[g].t][at[g].by][i]
    BY <2>1 DEF CacheInv, CacheTypeOK
  <2>7. CacheTypeOK'
    BY <1>2, <1>3, <2>1, <2>4 DEF CacheInv, CacheTypeOK
  <2> QED  BY <1>1, <1>2, <1>3, <2>4, <2>5, <2>6, <2>7, LocalStep
<1>4. CASE /\ at[g].t \in Interfaces
           /\ \E t \in Types : want' = [want EXCEPT ![g] = t]
           /\ Goto(g, "load") /\ UNCHANGED at
  <2>1. CacheTypeOK' /\ pc'[g] = "load"
    BY SMTT(30), <1>2, <1>4 DEF CacheInv, CacheTypeOK, Goto
  <2> QED  BY <1>1, <1>2, <2>1, LocalStep
<1> QED  BY <1>3, <1>4 DEF encodePart

LEMMA ReturnInv ==
  ASSUME CacheInv, NEW g \in Goroutines, return(g)
  PROVE  CacheInv'
<1>1. stack[g] = << >>
  BY DEF CacheInv, StackShape, return
<1>2. /\ UNCHANGED <<stack, encoderCache, fieldCache, finished, parts>> /\ pc'[g] = "idle"
      /\ \A h \in Goroutines \ {g} : pc'[h] = pc[h] /\ at'[h] = at[h]
      /\ CacheTypeOK'
  BY DEF CacheInv, CacheTypeOK, return, Goto
<1> QED  BY <1>1, <1>2, LocalStep

LEMMA UnmarshalInv ==
  ASSUME CacheInv, NEW g \in Goroutines, NEW t \in Types, Unmarshal(g, t)
  PROVE  CacheInv'
<1> DEFINE f == Frame("fields", t)
<1>1. f \in Frames /\ f.kind = "fields" /\ f.t = t /\ f.got = << >>
  BY NewFrameType DEF Frame
<1>2. stack[g] = << >> /\ Len(stack[g]) = 0
  <2>1. stack[g] = << >>
    BY DEF CacheInv, StackShape, Unmarshal
  <2> QED  BY <2>1
<1> HIDE DEF f
<1>3. Push(g, f) /\ pc'[g] = "build"
      /\ UNCHANGED <<want, at, depth, encoderCache, fieldCache, finished, parts>>
      /\ \A h \in Goroutines \ {g} : pc'[h] = pc[h]
      /\ \A u \in Types : encoderCache'[u] = encoderCache[u] /\ fieldCache'[u] = fieldCache[u]
  BY DEF CacheInv, CacheTypeOK, Unmarshal, Goto, f
<1>4. /\ Restacked(g, 0) /\ HasNewTop(g, 0) /\ NewTop(g, 0) = f
      /\ Top(g)' = f /\ stack'[g] # << >> /\ MakingKept
  BY <1>1, <1>2, <1>3, PushStack
<1>5. CacheTypeOK'
  BY <1>3, <1>4 DEF CacheInv, CacheTypeOK, Unmarshal, Goto, Restacked
<1>6. StackShape'
  <2>1. ~(0 >= 1) /\ finished \subseteq finished'
    BY <1>3
  <2> QED  BY <1>3, <1>4, <2>1, RestackedShape
<1>7. MakersOwn'
  BY <1>1, <1>3, <1>4, RestackedMakers
<1>8. FinishedOwn'
  BY <1>3 DEF CacheInv, FinishedOwn
<1>9. CachesSound'
  BY <1>3, <1>4, CachesStaySound
<1>10. HeldSound'
  <2>1. \A k \in 1..Len(f.got) : SoundNext(f.got[k])
    BY <1>1
  <2>2. \A h \in Goroutines : \A i \in 1..Len(stack'[h]) : \A k \in 1..Len(stack'[h][i].got) :
          SoundNext(stack'[h][i].got[k])
    BY <1>4, <2>1, RestackedHeld
  <2>3. \A h \in Goroutines : pc'[h] = "encode" => pc[h] = "encode" /\ at'[h] = at[h]
    BY <1>3
  <2> QED  BY <1>3, <1>4, <2>2, <2>3, HeldStaySound
<1>11. FieldsInv'
  BY <1>1, <1>3, <1>4, RestackedFields DEF CacheInv, FieldsInv, FieldsShared
<1> QED  BY <1>5, <1>6, <1>7, <1>8, <1>9, <1>10, <1>11 DEF CacheInv
(***************************************************************************)
(* The frame on top of s, the lower part of the stack of g, is replaced by *)
(* h: an encoder, or a list of fields, has been returned to it.  The       *)
(* frames above, if any, are gone; the caches may have changed too.        *)
(***************************************************************************)
LEMMA Retop ==
  ASSUME CacheInv, NEW g \in Goroutines, NEW s \in Seq(Frames), NEW h \in Frames,
         CacheTypeOK', Topped(g, s, h),
         Len(s) >= 1, Len(s) <= Len(stack[g]), \A i \in 1..Len(s) : s[i] = stack[g][i],
         h.t = s[Len(s)].t, h.kind = "fields" <=> s[Len(s)].kind = "fields",
         UNCHANGED <<finished, parts, at>>, pc'[g] = "build",
         \A q \in Goroutines \ {g} : pc'[q] = pc[q],
         \A i \in (Len(s) + 1)..Len(stack[g]) :
           stack[g][i].kind # "fields" => <<stack[g][i].t, g>> \in finished,
         MakingKept => \A k \in 1..Len(h.got) : SoundNext(h.got[k]),
         \A t \in Types : encoderCache'[t] # encoderCache[t] =>
           /\ encoderCache'[t] # NoEncoder /\ encoderCache'[t].t = t /\ encoderCache'[t].by = g
           /\ <<t, g>> \in finished
           /\ MakingKept => SoundNext(encoderCache'[t])
           /\ \A i \in 1..Len(s) : stack[g][i].kind # "fields" => stack[g][i].t # t,
         \A t \in Types : fieldCache'[t] # fieldCache[t] =>
           /\ fieldCache[t] = NoFields
           /\ Len(fieldCache'[t]) >= Len(Parts[t])
           /\ MakingKept => \A k \in 1..Len(fieldCache'[t]) : SoundNext(fieldCache'[t][k]),
         h.kind = "encoder" /\ h.t \in Structs =>
           h.got = fieldCache'[h.t] /\ fieldCache'[h.t] # NoFields
  PROVE  CacheInv'
<1> DEFINE keep == Len(s) - 1
<1>1. /\ Len(s) \in Nat /\ Restacked(g, keep) /\ HasNewTop(g, keep)
      /\ NewTop(g, keep) = h /\ stack'[g] # << >> /\ keep + 1 = Len(s)
  BY TopStack
<1>2. keep \in Nat /\ Len(stack[g]) \in Nat
  BY <1>1, FrameTypes DEF CacheInv
<1> HIDE DEF keep
<1>3. keep + 1 \in 1..Len(stack[g]) /\ stack[g][keep + 1] = s[Len(s)]
  BY <1>1, <1>2
<1>4. MakingKept
  <2>1. ASSUME NEW i \in (keep + 1)..Len(stack[g]), stack[g][i].kind # "fields"
        PROVE  \/ <<stack[g][i].t, g>> \in finished'
               \/ NewTop(g, keep).t = stack[g][i].t /\ NewTop(g, keep).kind # "fields"
    <3>1. CASE i = keep + 1
      BY <1>1, <1>3, <2>1, <3>1
    <3>2. CASE i # keep + 1
      <4>1. i \in (Len(s) + 1)..Len(stack[g])
        BY <1>1, <1>2, <3>2
      <4> QED  BY <2>1, <4>1
    <3> QED  BY <3>1, <3>2
  <2> QED  BY <1>1, <2>1, RestackedMaking DEF CacheInv
<1>5. StackShape'
  <2>1. ASSUME keep >= 1 PROVE Below(stack[g][keep], h)
    <3>1. keep \in 1..(Len(stack[g]) - 1)
      BY <1>2, <1>3, <2>1
    <3>2. Below(stack[g][keep], stack[g][keep + 1])
      BY <3>1 DEF CacheInv, StackShape
    <3> QED  BY <1>3, <3>2 DEF Below
  <2> QED  BY <1>1, <2>1, RestackedShape
<1>6. MakersOwn'
  <2>1. ASSUME NEW q \in Goroutines \ {g}, NEW i \in 1..Len(stack[q]), stack[q][i].kind # "fields"
        PROVE  encoderCache'[stack[q][i].t] = encoderCache[stack[q][i].t]
    <3>0. encoderCache[stack[q][i].t] = Encoder(stack[q][i].t, q, "placeholder")
      BY <2>1 DEF CacheInv, MakersOwn
    <3>1. encoderCache[stack[q][i].t].by = q /\ stack[q][i].t \in Types
      <4>1. encoderCache[stack[q][i].t].by = q
        BY <3>0 DEF Encoder
      <4> QED  BY <4>1, FrameTypes DEF CacheInv
    <3>2. <<stack[q][i].t, g>> \notin finished
      BY <3>1 DEF CacheInv, FinishedOwn
    <3> QED  BY <3>1, <3>2
  <2>2. ASSUME NEW i \in 1..Len(s), stack[g][i].kind # "fields"
        PROVE  /\ encoderCache'[stack[g][i].t] = encoderCache[stack[g][i].t]
               /\ encoderCache[stack[g][i].t] = Encoder(stack[g][i].t, g, "placeholder")
               /\ \A j \in 1..Len(stack[g]) :
                    j # i /\ stack[g][j].kind # "fields" => stack[g][j].t # stack[g][i].t
    <3>1. i \in 1..Len(stack[g])
      BY <1>1, <1>2
    <3>2. stack[g][i].t \in Types
      BY <3>1, FrameTypes DEF CacheInv
    <3> QED  BY <2>2, <3>1, <3>2 DEF CacheInv, MakersOwn
  <2>3. \A i \in 1..keep : i \in 1..Len(s) /\ i \in 1..Len(stack[g]) /\ i # keep + 1
    BY <1>1, <1>2
  <2>4. ASSUME h.kind # "fields"
        PROVE  /\ encoderCache'[h.t] = Encoder(h.t, g, "placeholder")
               /\ \A i \in 1..keep : stack[g][i].kind # "fields" => stack[g][i].t # h.t
    <3>1. keep + 1 \in 1..Len(s) /\ stack[g][keep + 1].kind # "fields" /\ stack[g][keep + 1].t = h.t
      BY <1>1, <1>2, <1>3, <2>4
    <3> QED  BY <2>2, <2>3, <3>1
  <2> QED  BY <1>1, <2>1, <2>2, <2>3, <2>4, RestackedMakers
<1>7. FinishedOwn'
  <2> SUFFICES ASSUME NEW t \in Types, NEW q \in Goroutines, <<t, q>> \in finished
               PROVE  /\ encoderCache'[t] # NoEncoder
                      /\ encoderCache'[t].t = t /\ encoderCache'[t].by = q
    BY DEF FinishedOwn
  <2>1. encoderCache[t] # NoEncoder /\ encoderCache[t].t = t /\ encoderCache[t].by = q
    BY DEF CacheInv, FinishedOwn
  <2>2. CASE encoderCache'[t] # encoderCache[t]
    BY <2>1, <2>2 DEF CacheInv, FinishedOwn
  <2> QED  BY <2>1, <2>2
<1>8. CachesSound'
  BY <1>4, CachesStaySound
<1>9. HeldSound'
  <2>1. \A q \in Goroutines : \A i \in 1..Len(stack'[q]) : \A k \in 1..Len(stack'[q][i].got) :
          SoundNext(stack'[q][i].got[k])
    BY <1>1, <1>4, RestackedHeld
  <2>2. \A q \in Goroutines : pc'[q] = "encode" => pc[q] = "encode" /\ at'[q] = at[q]
    OBVIOUS
  <2>3. \A t \in Types, q \in Goroutines : parts'[t][q] = parts[t][q]
    OBVIOUS
  <2> QED  BY <1>4, <2>1, <2>2, <2>3, HeldStaySound
<1>10. FieldsInv'
  <2>1. \A t \in Types : fieldCache[t] # NoFields => fieldCache'[t] = fieldCache[t]
    OBVIOUS
  <2>2. \A t \in Structs, q \in Goroutines : <<t, q>> \in finished' =>
          <<t, q>> \in finished /\ parts'[t][q] = parts[t][q]
    OBVIOUS
  <2> QED  BY <1>1, <2>1, <2>2, RestackedFields
<1> QED  BY <1>5, <1>6, <1>7, <1>8, <1>9, <1>10 DEF CacheInv

\* A frame on top that lacks a part is not that of a struct's encoder.
LEMMA LacksNotStruct ==
  ASSUME CacheInv, NEW g \in Goroutines, NEW i \in 1..Len(stack[g]), Lacks(stack[g][i])
  PROVE  ~(stack[g][i].kind = "encoder" /\ stack[g][i].t \in Structs)
<1> SUFFICES ASSUME stack[g][i].kind = "encoder", stack[g][i].t \in Structs
             PROVE  FALSE
  OBVIOUS
<1>1. stack[g][i].got = fieldCache[stack[g][i].t] /\ fieldCache[stack[g][i].t] # NoFields
  BY DEF CacheInv, FieldsInv
<1>2. stack[g][i].t \in Types /\ Len(stack[g][i].got) \in Nat
  BY FrameTypes DEF CacheInv
<1>3. Len(fieldCache[stack[g][i].t]) >= Len(Parts[stack[g][i].t])
  BY <1>1, <1>2 DEF CacheInv, CachesSound
<1> QED  BY <1>1, <1>2, <1>3, PartsTypes DEF Lacks

(***************************************************************************)
(* typeEncoder returns the encoder in the cache.                           *)
(***************************************************************************)
LEMMA CachedReturns ==
  ASSUME CacheInv, NEW g \in Goroutines, pc[g] \in {"load", "store"},
         encoderCache[want[g]] # NoEncoder, Returns(g, encoderCache[want[g]], stack[g]),
         UNCHANGED <<want, depth, encoderCache, fieldCache, finished, parts>>
  PROVE  CacheInv'
<1> DEFINE e == encoderCache[want[g]]
<1>1. want[g] \in Types /\ e \in Encoders /\ Sound(e)
  BY DEF CacheInv, CacheTypeOK, CachesSound
<1>2. stack[g] \in Seq(Frames) /\ Len(stack[g]) \in Nat
  BY FrameTypes DEF CacheInv
<1>3. CASE stack[g] = << >>
  <2>1. /\ stack' = [stack EXCEPT ![g] = << >>] /\ at' = [at EXCEPT ![g] = e]
        /\ pc' = [pc EXCEPT ![g] = "encode"]
    BY <1>3 DEF Returns, Goto
  <2>2. CacheTypeOK' /\ UNCHANGED stack /\ pc'[g] = "encode" /\ at'[g] = e
        /\ \A q \in Goroutines \ {g} : pc'[q] = pc[q] /\ at'[q] = at[q]
    BY <1>1, <1>3, <2>1 DEF CacheInv, CacheTypeOK
  <2> HIDE DEF e
  <2> QED  BY <1>1, <1>3, <2>2, LocalStep
<1>4. CASE stack[g] # << >>
  <2> HIDE DEF e
  <2>0. Returns(g, e, stack[g])
    BY DEF e
  <2>1. PICK h \in Frames :
          /\ Gets(h, stack[g][Len(stack[g])], e)
          /\ Topped(g, stack[g], h)
    BY <1>1, <1>2, <1>4, <2>0, ReturnsIs DEF CacheInv
  <2>2. /\ Len(stack[g]) >= 1 /\ UNCHANGED at /\ pc' = [pc EXCEPT ![g] = "build"]
    BY <1>1, <1>2, <1>4, <2>0, ReturnsIs DEF CacheInv
  <2> DEFINE f == stack[g][Len(stack[g])]
  <2>3. Len(stack[g]) \in 1..Len(stack[g])
    BY <1>2, <2>2
  <2>4. Lacks(f)
    BY <1>4 DEF CacheInv, StackShape, Top
  <2>5. ~(h.kind = "encoder" /\ h.t \in Structs)
    BY <2>1, <2>3, <2>4, LacksNotStruct DEF Gets
  <2>6. ASSUME MakingKept, NEW k \in 1..Len(h.got) PROVE SoundNext(h.got[k])
    <3>1. k \in 1..Len(f.got) \/ k = Len(f.got) + 1
      BY <2>1 DEF Gets
    <3>2. CASE k \in 1..Len(f.got)
      <4>1. f.got[k] \in Encoders
        BY <2>3, <3>2, FrameTypes, ElementOfSeq DEF CacheInv
      <4>2. Sound(f.got[k])
        BY <2>3, <3>2 DEF CacheInv, HeldSound
      <4> QED  BY <2>1, <2>6, <3>2, <4>1, <4>2, SoundKept DEF Gets
    <3>3. CASE k = Len(f.got) + 1
      <4>1. SoundNext(e)
        BY <1>1, <2>6, SoundKept
      <4> QED  BY <2>1, <3>3, <4>1 DEF Gets
    <3> QED  BY <3>1, <3>2, <3>3
  <2>7. CacheTypeOK'
    BY <2>1, <2>2 DEF CacheInv, CacheTypeOK, Topped
  <2>8. /\ pc'[g] = "build" /\ \A q \in Goroutines \ {g} : pc'[q] = pc[q]
        /\ UNCHANGED <<finished, parts, at>>
        /\ \A t \in Types : encoderCache'[t] = encoderCache[t] /\ fieldCache'[t] = fieldCache[t]
    BY <2>2 DEF CacheInv, CacheTypeOK
  <2>9. \A i \in (Len(stack[g]) + 1)..Len(stack[g]) : FALSE
    BY <1>2
  <2>10. h.t = f.t /\ (h.kind = "fields" <=> f.kind = "fields")
    BY <2>1 DEF Gets
  <2> QED  BY <1>2, <2>1, <2>2, <2>5, <2>6, <2>7, <2>8, <2>9, <2>10, Retop
<1> QED  BY <1>3, <1>4
LEMMA LoadInv ==
  ASSUME CacheInv, NEW g \in Goroutines, load(g)
  PROVE  CacheInv'
<1>1. CASE encoderCache[want[g]] # NoEncoder
  BY <1>1, CachedReturns DEF load
<1>2. CASE encoderCache[want[g]] = NoEncoder
  <2>1. /\ pc[g] = "load" /\ pc' = [pc EXCEPT ![g] = "store"]
        /\ UNCHANGED <<want, stack, at, depth, encoderCache, fieldCache, finished, parts>>
    BY <1>2 DEF load, Goto
  <2>2. CacheTypeOK' /\ pc'[g] = "store"
        /\ \A q \in Goroutines \ {g} : pc'[q] = pc[q] /\ at'[q] = at[q]
    BY <2>1 DEF CacheInv, CacheTypeOK
  <2>3. stack[g] # << >> => Lacks(Top(g))
    BY <2>1 DEF CacheInv, StackShape
  <2> QED  BY <2>1, <2>2, <2>3, LocalStep
<1> QED  BY <1>1, <1>2

(***************************************************************************)
(* A new frame f without encoders is pushed; a placeholder for its type    *)
(* may have been stored where there was none.                              *)
(***************************************************************************)
LEMMA PushInv ==
  ASSUME CacheInv, NEW g \in Goroutines, NEW f \in Frames, CacheTypeOK',
         Push(g, f), f.got = << >>, pc'[g] = "build",
         \A q \in Goroutines \ {g} : pc'[q] = pc[q],
         UNCHANGED <<at, fieldCache, finished, parts>>,
         stack[g] # << >> => Below(Top(g), f),
         f.kind = "encoder" => f.t \notin Structs,
         \/ f.kind = "fields" /\ UNCHANGED encoderCache
         \/ /\ f.kind # "fields" /\ encoderCache[f.t] = NoEncoder
            /\ encoderCache' = [encoderCache EXCEPT ![f.t] = Encoder(f.t, g, "placeholder")]
  PROVE  CacheInv'
<1> DEFINE keep == Len(stack[g])
<1>1. /\ Restacked(g, keep) /\ HasNewTop(g, keep) /\ NewTop(g, keep) = f
      /\ stack'[g] # << >> /\ MakingKept /\ keep \in Nat /\ f.t \in Types
  BY PushStack, FrameTypes DEF CacheInv, Frames
<1>2. \A t \in Types : encoderCache'[t] # encoderCache[t] =>
        /\ t = f.t /\ encoderCache[t] = NoEncoder /\ f.kind # "fields"
        /\ encoderCache'[t] = Encoder(t, g, "placeholder")
  BY <1>1 DEF CacheInv, CacheTypeOK
<1>3. StackShape'
  <2>1. keep >= 1 => Below(stack[g][keep], f)
    BY FrameTypes DEF CacheInv, Top
  <2> HIDE DEF keep
  <2> QED  BY <1>1, <2>1, RestackedShape
<1>4. \A q \in Goroutines : \A i \in 1..Len(stack[q]) : stack[q][i].kind # "fields" =>
        /\ encoderCache[stack[q][i].t] # NoEncoder
        /\ encoderCache'[stack[q][i].t] = encoderCache[stack[q][i].t]
  <2> SUFFICES ASSUME NEW q \in Goroutines, NEW i \in 1..Len(stack[q]), stack[q][i].kind # "fields"
               PROVE  /\ encoderCache[stack[q][i].t] # NoEncoder
                      /\ encoderCache'[stack[q][i].t] = encoderCache[stack[q][i].t]
    OBVIOUS
  <2>1. encoderCache[stack[q][i].t] = Encoder(stack[q][i].t, q, "placeholder")
    BY DEF CacheInv, MakersOwn
  <2>2. stack[q][i].t \in Types
    BY FrameTypes DEF CacheInv
  <2>3. encoderCache[stack[q][i].t] # NoEncoder
    <3>1. "placeholder" # "none"
      OBVIOUS
    <3> QED  BY <2>1, <3>1, EncoderIs
  <2> QED  BY <1>2, <2>2, <2>3
<1>5. MakersOwn'
  <2>1. f.kind # "fields" =>
          /\ encoderCache[f.t] = NoEncoder
          /\ encoderCache'[f.t] = Encoder(f.t, g, "placeholder")
    BY <1>1 DEF CacheInv, CacheTypeOK
  <2> QED  BY <1>1, <1>4, <2>1, RestackedMakers
<1>6. FinishedOwn'
  <2> SUFFICES ASSUME NEW t \in Types, NEW q \in Goroutines, <<t, q>> \in finished
               PROVE  /\ encoderCache'[t] # NoEncoder
                      /\ encoderCache'[t].t = t /\ encoderCache'[t].by = q
    BY DEF FinishedOwn
  <2>1. encoderCache[t] # NoEncoder /\ encoderCache[t].t = t /\ encoderCache[t].by = q
    BY DEF CacheInv, FinishedOwn
  <2> QED  BY <1>2, <2>1
<1>7. CachesSound'
  <2>1. ASSUME NEW t \in Types, encoderCache'[t] # encoderCache[t]
        PROVE  encoderCache'[t].t = t /\ SoundNext(encoderCache'[t])
    <3>1. encoderCache'[t].t = t /\ encoderCache'[t].by = g /\ encoderCache'[t].final = "placeholder"
      <4>1. encoderCache'[t] = Encoder(t, g, "placeholder")
        BY <1>2, <2>1
      <4> QED  BY <4>1, EncoderIs
    <3>2. MakingNext(g, t)
      <4>1. keep + 1 \in 1..Len(stack'[g]) /\ stack'[g][keep + 1] = f
        BY <1>1 DEF HasNewTop, NewTop
      <4> QED  BY <1>2, <2>1, <4>1 DEF MakingNext
    <3> QED  BY <3>1, <3>2 DEF SoundNext
  <2>2. \A t \in Types : fieldCache'[t] = fieldCache[t]
    OBVIOUS
  <2> QED  BY <1>1, <2>1, <2>2, CachesStaySound
<1>8. HeldSound'
  <2>1. \A k \in 1..Len(f.got) : SoundNext(f.got[k])
    <3>1. Len(<< >>) = 0
      OBVIOUS
    <3> QED  BY <3>1
  <2>2. \A q \in Goroutines : \A i \in 1..Len(stack'[q]) : \A k \in 1..Len(stack'[q][i].got) :
          SoundNext(stack'[q][i].got[k])
    BY <1>1, <2>1, RestackedHeld
  <2>3. \A q \in Goroutines : pc'[q] = "encode" => pc[q] = "encode" /\ at'[q] = at[q]
    OBVIOUS
  <2>4. \A t \in Types, q \in Goroutines : parts'[t][q] = parts[t][q]
    OBVIOUS
  <2> QED  BY <1>1, <2>2, <2>3, <2>4, HeldStaySound
<1>9. FieldsInv'
  <2>1. \A t \in Types : fieldCache'[t] = fieldCache[t]
    OBVIOUS
  <2>2. \A t \in Structs, q \in Goroutines : <<t, q>> \in finished' =>
          <<t, q>> \in finished /\ parts'[t][q] = parts[t][q]
    OBVIOUS
  <2> QED  BY <1>1, <2>1, <2>2, RestackedFields
<1> QED  BY <1>3, <1>5, <1>6, <1>7, <1>8, <1>9 DEF CacheInv

LEMMA StorePlaceholderInv ==
  ASSUME CacheInv, NEW g \in Goroutines, storePlaceholder(g)
  PROVE  CacheInv'
<1>1. CASE encoderCache[want[g]] # NoEncoder
  BY <1>1, CachedReturns DEF storePlaceholder
<1>2. CASE encoderCache[want[g]] = NoEncoder
  <2>1. PICK f : f = NewFrame(want[g])
    OBVIOUS
  <2>2. want[g] \in Types
    BY DEF CacheInv, CacheTypeOK
  <2>3. /\ f \in Frames /\ f.got = << >> /\ f.t = want[g] /\ f.kind # "fields"
        /\ f.kind = "encoder" => f.t \notin Structs
    BY <2>1, <2>2, NewFrameType DEF NewFrame, Frame
  <2>4. /\ pc[g] = "store" /\ Push(g, f) /\ pc' = [pc EXCEPT ![g] = "build"]
        /\ encoderCache' = [encoderCache EXCEPT ![f.t] = Encoder(f.t, g, "placeholder")]
        /\ UNCHANGED <<want, at, depth, fieldCache, finished, parts>>
    BY <1>2, <2>1, <2>3 DEF storePlaceholder, Goto
  <2>5. Pushed(g, f)
    BY <2>3, <2>4, PushIs DEF CacheInv
  <2>6. Encoder(f.t, g, "placeholder") \in Encoders
    BY <2>2, <2>3 DEF Encoder, Encoders
  <2>7. CacheTypeOK' /\ pc'[g] = "build" /\ \A q \in Goroutines \ {g} : pc'[q] = pc[q]
    BY <2>4, <2>5, <2>6 DEF CacheInv, CacheTypeOK, Pushed
  <2>8. stack[g] # << >> => Below(Top(g), f)
    BY <2>3, <2>4 DEF CacheInv, StackShape, Below
  <2>9. encoderCache[f.t] = NoEncoder
    BY <1>2, <2>3
  <2> QED  BY <2>3, <2>4, <2>7, <2>8, <2>9, PushInv
<1> QED  BY <1>1, <1>2

LEMMA LoadFieldsInv ==
  ASSUME CacheInv, NEW g \in Goroutines, loadFields(g)
  PROVE  CacheInv'
<1>1. /\ pc[g] = "build" /\ Top(g).kind = "struct"
      /\ UNCHANGED <<pc, want, at, depth, encoderCache, fieldCache, finished, parts>>
  BY DEF loadFields
<1>2. /\ stack[g] # << >> /\ Len(stack[g]) \in 1..Len(stack[g]) /\ Len(stack[g]) \in Nat
      /\ stack[g] \in Seq(Frames) /\ Len(stack[g]) >= 1
      /\ Top(g) \in Frames /\ Top(g).t \in Types /\ Top(g) = stack[g][Len(stack[g])]
  BY <1>1, TopFrame, FrameTypes DEF CacheInv
<1>3. CASE fieldCache[Top(g).t] # NoFields
  <2>1. PICK t \in Types : t = Top(g).t
    BY <1>2
  <2>2. PICK h : h = [kind |-> "encoder", t |-> t, got |-> fieldCache[t]]
    OBVIOUS
  <2>3. fieldCache[t] \in Seq(Encoders) /\ fieldCache[t] # NoFields
    BY <1>3, <2>1 DEF CacheInv, CacheTypeOK
  <2>4. h \in Frames /\ h.t = t /\ h.kind = "encoder" /\ h.got = fieldCache[t]
    BY <2>2, <2>3 DEF Frames
  <2>5. stack' = [stack EXCEPT ![g] = [stack[g] EXCEPT ![Len(stack[g])] = h]]
    <3>1. stack' = [stack EXCEPT ![g] = WithFields(stack[g], fieldCache[t])]
      BY <1>3, <2>1 DEF loadFields
    <3>2. WithFields(stack[g], fieldCache[t]) = [stack[g] EXCEPT ![Len(stack[g])] = h]
      BY <1>2, <2>1, <2>2 DEF WithFields
    <3> QED  BY <3>1, <3>2
  <2>6. Topped(g, stack[g], h)
    BY <1>2, <2>4, <2>5, ToppedIs DEF CacheInv
  <2>7. CacheTypeOK'
    BY <1>1, <2>6 DEF CacheInv, CacheTypeOK, Topped
  <2>8. MakingKept => \A k \in 1..Len(h.got) : SoundNext(h.got[k])
    <3>1. \A k \in 1..Len(fieldCache[t]) : fieldCache[t][k] \in Encoders /\ Sound(fieldCache[t][k])
      BY <2>3, ElementOfSeq DEF CacheInv, CachesSound
    <3> QED  BY <2>4, <3>1, SoundKept
  <2>9. /\ \A q \in Types : encoderCache'[q] = encoderCache[q] /\ fieldCache'[q] = fieldCache[q]
        /\ \A q \in Goroutines \ {g} : pc'[q] = pc[q]
        /\ pc'[g] = "build" /\ UNCHANGED <<finished, parts, at>>
    BY <1>1
  <2>10. \A i \in (Len(stack[g]) + 1)..Len(stack[g]) : FALSE
    BY <1>2
  <2>11. h.t = stack[g][Len(stack[g])].t /\ (h.kind = "fields" <=> stack[g][Len(stack[g])].kind = "fields")
    BY <1>1, <1>2, <2>1, <2>4
  <2>12. h.got = fieldCache'[h.t] /\ fieldCache'[h.t] # NoFields
    BY <1>1, <2>3, <2>4
  <2> QED  BY SMTT(30), <1>2, <2>4, <2>6, <2>7, <2>8, <2>9, <2>10, <2>11, <2>12, Retop
<1>4. CASE fieldCache[Top(g).t] = NoFields
  <2>1. PICK f : f = Frame("fields", Top(g).t)
    OBVIOUS
  <2>2. f \in Frames /\ f.got = << >> /\ f.t = Top(g).t /\ f.kind = "fields"
    BY <1>2, <2>1, NewFrameType DEF Frame
  <2>3. Push(g, f) /\ Pushed(g, f)
    BY <1>4, <2>1, <2>2, PushIs DEF CacheInv, loadFields
  <2>4. CacheTypeOK'
    BY <1>1, <2>3 DEF CacheInv, CacheTypeOK, Pushed
  <2>5. Below(Top(g), f)
    BY <1>1, <2>2 DEF Below
  <2> QED  BY <1>1, <2>2, <2>3, <2>4, <2>5, PushInv
<1> QED  BY <1>3, <1>4
\* A goroutine is done with all it was making: its stack is empty.
LEMMA ClearInv ==
  ASSUME CacheInv, NEW g \in Goroutines, CacheTypeOK',
         stack' = [stack EXCEPT ![g] = << >>],
         UNCHANGED <<finished, parts>>,
         \A q \in Goroutines \ {g} : pc'[q] = pc[q] /\ at'[q] = at[q],
         pc'[g] \in {"idle", "encode"},
         pc'[g] = "encode" => at'[g] \in Encoders /\ Sound(at'[g]),
         \A i \in 1..Len(stack[g]) :
           stack[g][i].kind # "fields" => <<stack[g][i].t, g>> \in finished,
         \A t \in Types : encoderCache'[t] # encoderCache[t] =>
           /\ encoderCache'[t] # NoEncoder /\ encoderCache'[t].t = t /\ encoderCache'[t].by = g
           /\ <<t, g>> \in finished
           /\ MakingKept => SoundNext(encoderCache'[t]),
         \A t \in Types : fieldCache'[t] # fieldCache[t] =>
           /\ fieldCache[t] = NoFields
           /\ Len(fieldCache'[t]) >= Len(Parts[t])
           /\ MakingKept => \A k \in 1..Len(fieldCache'[t]) : SoundNext(fieldCache'[t][k])
  PROVE  CacheInv'
<1>1. Restacked(g, 0) /\ ~HasNewTop(g, 0) /\ stack'[g] = << >>
  BY ClearStack
<1>2. MakingKept
  <2>1. \A i \in (0 + 1)..Len(stack[g]) : i \in 1..Len(stack[g])
    BY FrameTypes DEF CacheInv
  <2>2. finished \subseteq finished'
    OBVIOUS
  <2>3. \A i \in (0 + 1)..Len(stack[g]) :
          stack[g][i].kind # "fields" => <<stack[g][i].t, g>> \in finished'
    BY <2>1, <2>2
  <2> QED  BY <1>1, <2>2, <2>3, RestackedMaking DEF CacheInv
<1>3. StackShape'
  BY <1>1, RestackedShape
<1>4. MakersOwn'
  <2>1. ASSUME NEW q \in Goroutines \ {g}, NEW i \in 1..Len(stack[q]), stack[q][i].kind # "fields"
        PROVE  encoderCache'[stack[q][i].t] = encoderCache[stack[q][i].t]
    <3>0. encoderCache[stack[q][i].t] = Encoder(stack[q][i].t, q, "placeholder")
      BY <2>1 DEF CacheInv, MakersOwn
    <3>1. encoderCache[stack[q][i].t].by = q
      BY <3>0, EncoderIs
    <3>2. stack[q][i].t \in Types
      BY FrameTypes DEF CacheInv
    <3>3. <<stack[q][i].t, g>> \notin finished
      BY <3>1, <3>2 DEF CacheInv, FinishedOwn
    <3> QED  BY <3>2, <3>3
  <2>2. \A i \in 1..0 : FALSE
    OBVIOUS
  <2> QED  BY <1>1, <2>1, <2>2, RestackedMakers
<1>5. FinishedOwn'
  <2> SUFFICES ASSUME NEW t \in Types, NEW q \in Goroutines, <<t, q>> \in finished
               PROVE  /\ encoderCache'[t] # NoEncoder
                      /\ encoderCache'[t].t = t /\ encoderCache'[t].by = q
    BY DEF FinishedOwn
  <2>1. encoderCache[t] # NoEncoder /\ encoderCache[t].t = t /\ encoderCache[t].by = q
    BY DEF CacheInv, FinishedOwn
  <2>2. CASE encoderCache'[t] # encoderCache[t]
    BY <2>1, <2>2 DEF CacheInv, FinishedOwn
  <2> QED  BY <2>1, <2>2
<1>6. CachesSound'
  BY <1>2, CachesStaySound
<1>7. HeldSound'
  <2>1. \A q \in Goroutines : \A i \in 1..Len(stack'[q]) : \A k \in 1..Len(stack'[q][i].got) :
          SoundNext(stack'[q][i].got[k])
    BY <1>1, <1>2, RestackedHeld
  <2>2. \A t \in Types, q \in Goroutines : parts'[t][q] = parts[t][q]
    OBVIOUS
  <2>3. pc'[g] = "encode" => at'[g] \in Encoders /\ SoundNext(at'[g])
    BY <1>2, SoundKept
  <2> QED  BY <1>2, <2>1, <2>2, <2>3, HeldStaySound
<1>8. FieldsInv'
  <2>1. \A t \in Types : fieldCache[t] # NoFields => fieldCache'[t] = fieldCache[t]
    OBVIOUS
  <2>2. \A t \in Structs, q \in Goroutines : <<t, q>> \in finished' =>
          <<t, q>> \in finished /\ parts'[t][q] = parts[t][q]
    OBVIOUS
  <2> QED  BY <1>1, <2>1, <2>2, RestackedFields
<1> QED  BY <1>3, <1>4, <1>5, <1>6, <1>7, <1>8 DEF CacheInv

\* typeFields is done: the list returns to a struct's encoder or the decoder.
LEMMA StoreFieldsInv ==
  ASSUME CacheInv, NEW g \in Goroutines, storeFields(g)
  PROVE  CacheInv'
<1>1. /\ pc[g] = "build" /\ Whole(Top(g)) /\ Top(g).kind = "fields"
      /\ UNCHANGED <<want, at, depth, encoderCache, finished, parts>>
  BY DEF storeFields
<1>2. /\ stack[g] # << >> /\ Len(stack[g]) \in 1..Len(stack[g]) /\ Len(stack[g]) \in Nat
      /\ stack[g] \in Seq(Frames) /\ Len(stack[g]) >= 1
      /\ Top(g) = stack[g][Len(stack[g])] /\ Top(g).t \in Types
      /\ Top(g).got \in Seq(Encoders) /\ Len(Top(g).got) \in Nat
  BY <1>1, TopFrame, FrameTypes DEF CacheInv
<1>3. PICK t \in Types : t = Top(g).t
  BY <1>2
<1>4. PICK fields : fields = fieldCache'[t]
  OBVIOUS
<1>5. fieldCache' = [fieldCache EXCEPT ![t] = IF fieldCache[t] = NoFields THEN Top(g).got ELSE fieldCache[t]]
  BY <1>3 DEF storeFields
<1>6. /\ fieldCache \in [Types -> Seq(Encoders) \cup {NoFields}]
      /\ \A q \in Types \ {t} : fieldCache'[q] = fieldCache[q]
      /\ fieldCache[t] # NoFields => fields = fieldCache[t]
      /\ fieldCache[t] = NoFields => fields = Top(g).got
  BY <1>4, <1>5 DEF CacheInv, CacheTypeOK
<1>7. NoFields \notin Seq(Encoders)
  <2>1. NoFields[1] = NoEncoder /\ Len(NoFields) = 1
    BY DEF NoFields
  <2>2. NoEncoder \notin Encoders
    <3>1. NoEncoder.final = "none"
      BY DEF NoEncoder
    <3>2. \A e \in Encoders : e.final # "none"
      BY DEF Encoders
    <3> QED  BY <3>1, <3>2
  <2> QED  BY <2>1, <2>2, ElementOfSeq
<1>8. fields \in Seq(Encoders) /\ fields # NoFields
  BY <1>2, <1>6, <1>7
<1>9. Len(fields) >= Len(Parts[t])
  BY <1>1, <1>3, <1>6 DEF Whole, CacheInv, CachesSound
<1>10. MakingKept => \A k \in 1..Len(fields) : SoundNext(fields[k])
  <2>1. \A k \in 1..Len(fields) : Sound(fields[k])
    <3>1. CASE fieldCache[t] = NoFields
      <4>1. \A k \in 1..Len(Top(g).got) : Sound(Top(g).got[k])
        BY <1>2 DEF CacheInv, HeldSound
      <4> QED  BY <1>6, <3>1, <4>1
    <3>2. CASE fieldCache[t] # NoFields
      <4>1. \A k \in 1..Len(fieldCache[t]) : Sound(fieldCache[t][k])
        BY <3>2 DEF CacheInv, CachesSound
      <4> QED  BY <1>6, <3>2, <4>1
    <3> QED  BY <3>1, <3>2
  <2>2. \A k \in 1..Len(fields) : fields[k] \in Encoders
    BY <1>8, ElementOfSeq
  <2> QED  BY <2>1, <2>2, SoundKept
<1>11. fieldCache' \in [Types -> Seq(Encoders) \cup {NoFields}]
  BY <1>2, <1>5, <1>6
<1>12. FieldsReturn(g, fields)
  BY <1>3, <1>4 DEF storeFields
<1>13. \A q \in Types : fieldCache'[q] # fieldCache[q] =>
         /\ fieldCache[q] = NoFields
         /\ Len(fieldCache'[q]) >= Len(Parts[q])
         /\ MakingKept => \A k \in 1..Len(fieldCache'[q]) : SoundNext(fieldCache'[q][k])
  BY <1>4, <1>6, <1>9, <1>10
<1>14. \A q \in Types : encoderCache'[q] = encoderCache[q]
  BY <1>1
<1>15. CASE Len(stack[g]) = 1
  <2>1. stack' = [stack EXCEPT ![g] = << >>] /\ pc' = [pc EXCEPT ![g] = "idle"]
    BY <1>12, <1>15 DEF FieldsReturn, Goto
  <2>2. << >> \in Seq(Frames)
    BY EmptySeq
  <2>3. CacheTypeOK' /\ pc'[g] = "idle"
        /\ \A q \in Goroutines \ {g} : pc'[q] = pc[q] /\ at'[q] = at[q]
    BY <1>1, <1>11, <2>1, <2>2 DEF CacheInv, CacheTypeOK
  <2>4. \A i \in 1..Len(stack[g]) : i = Len(stack[g])
    BY <1>15
  <2>5. \A i \in 1..Len(stack[g]) : stack[g][i].kind = "fields"
    BY <1>1, <1>2, <2>4
  <2> QED  BY <1>1, <1>13, <1>14, <2>1, <2>3, <2>5, ClearInv
<1>16. CASE Len(stack[g]) # 1
  <2>1. PICK s : s = Front(stack[g])
    OBVIOUS
  <2>2. /\ s \in Seq(Frames) /\ Len(s) = Len(stack[g]) - 1
        /\ \A i \in 1..Len(s) : s[i] = stack[g][i]
    BY <1>2, <2>1, FrontOfSeq
  <2>3. Len(s) >= 1 /\ Len(s) <= Len(stack[g]) /\ Len(s) \in 1..(Len(stack[g]) - 1)
        /\ Len(s) \in 1..Len(s) /\ Len(s) + 1 = Len(stack[g])
    <3>1. PICK n \in Nat : n = Len(stack[g])
      BY <1>2
    <3>2. n >= 1 /\ n # 1 /\ Len(s) = n - 1
      BY <1>2, <1>16, <2>2, <3>1
    <3>3. n - 1 >= 1 /\ n - 1 <= n /\ n - 1 \in 1..(n - 1) /\ n - 1 + 1 = n
      BY <3>2
    <3> QED  BY <3>1, <3>2, <3>3
  <2>4. s[Len(s)].kind = "struct" /\ s[Len(s)].t = t
    <3>1. Below(stack[g][Len(s)], stack[g][Len(s) + 1])
      BY <2>3 DEF CacheInv, StackShape
    <3> QED  BY <1>1, <1>2, <1>3, <2>2, <2>3, <3>1 DEF Below
  <2>5. PICK h : h = [kind |-> "encoder", t |-> t, got |-> fields]
    OBVIOUS
  <2>6. h \in Frames /\ h.t = t /\ h.kind = "encoder" /\ h.got = fields
    BY <1>8, <2>5 DEF Frames
  <2>7. stack' = [stack EXCEPT ![g] = [s EXCEPT ![Len(s)] = h]] /\ UNCHANGED pc
    <3>1. stack' = [stack EXCEPT ![g] = WithFields(s, fields)] /\ UNCHANGED pc
      BY <1>12, <1>16, <2>1 DEF FieldsReturn
    <3>2. WithFields(s, fields) = [s EXCEPT ![Len(s)] = h]
      BY <2>2, <2>3, <2>4, <2>5 DEF WithFields
    <3> QED  BY <3>1, <3>2
  <2>8. s # << >>
    BY <2>2, <2>3, NonEmpty
  <2>9. Topped(g, s, h)
    BY <2>2, <2>6, <2>7, <2>8, ToppedIs DEF CacheInv
  <2>10. CacheTypeOK'
    BY <1>1, <1>11, <2>7, <2>9 DEF CacheInv, CacheTypeOK, Topped
  <2>11. \A i \in (Len(s) + 1)..Len(stack[g]) : stack[g][i].kind = "fields"
    <3>1. \A i \in (Len(s) + 1)..Len(stack[g]) : i = Len(stack[g])
      BY <1>2, <2>3
    <3> QED  BY <1>1, <1>2, <3>1
  <2>12. h.got = fieldCache'[h.t] /\ fieldCache'[h.t] # NoFields
    BY <1>4, <1>8, <2>6
  <2>13. MakingKept => \A k \in 1..Len(h.got) : SoundNext(h.got[k])
    BY <1>10, <2>6
  <2>14. h.t = s[Len(s)].t /\ (h.kind = "fields" <=> s[Len(s)].kind = "fields")
    BY <2>4, <2>6
  <2>15. /\ UNCHANGED <<finished, parts, at>> /\ pc'[g] = "build"
         /\ \A q \in Goroutines \ {g} : pc'[q] = pc[q]
    BY <1>1, <2>7
  <2> QED  BY <1>13, <1>14, <2>2, <2>3, <2>6, <2>9, <2>10, <2>11, <2>12, <2>13, <2>14, <2>15, Retop
<1> QED  BY <1>15, <1>16

\* The encoder is made, and stays on the stack until it is in the cache.
LEMMA DoneInv ==
  ASSUME CacheInv, NEW g \in Goroutines, done(g)
  PROVE  CacheInv'
<1>1. /\ pc[g] = "build" /\ Top(g).kind = "encoder"
      /\ UNCHANGED <<want, stack, at, depth, encoderCache, fieldCache>>
      /\ pc' = [pc EXCEPT ![g] = "publish"]
  BY DEF done, Goto
<1>2. /\ stack[g] # << >> /\ Len(stack[g]) \in 1..Len(stack[g]) /\ Top(g).t \in Types
      /\ Top(g) = stack[g][Len(stack[g])] /\ Top(g).got \in Seq(Encoders)
  BY <1>1, TopFrame
<1>3. PICK t \in Types : t = Top(g).t
  BY <1>2
<1>4. PICK got \in Seq(Encoders) : got = Top(g).got
  BY <1>2
<1>5. finished' = finished \cup {<<t, g>>} /\ parts' = [parts EXCEPT ![t][g] = got]
  BY <1>3, <1>4 DEF done
<1>6. /\ parts'[t][g] = got
      /\ \A q \in Types, h \in Goroutines : q # t \/ h # g => parts'[q][h] = parts[q][h]
      /\ parts' \in [Types -> [Goroutines -> Seq(Encoders)]]
  BY <1>5 DEF CacheInv, CacheTypeOK
<1>7. CacheTypeOK' /\ pc'[g] = "publish" /\ finished \subseteq finished'
      /\ \A q \in Goroutines \ {g} : pc'[q] = pc[q]
  BY <1>1, <1>5, <1>6 DEF CacheInv, CacheTypeOK
<1>8. /\ Restacked(g, Len(stack[g])) /\ ~HasNewTop(g, Len(stack[g]))
      /\ Top(g)' = Top(g) /\ MakingKept
  BY <1>1, <1>7, SameStack
<1>9. StackShape'
  <2>1. Top(g)'.kind = "encoder" /\ <<Top(g)'.t, g>> \in finished' /\ stack'[g] # << >>
    BY <1>1, <1>2, <1>3, <1>5, <1>8
  <2> QED  BY <1>7, <1>8, <2>1, RestackedShape
<1>10. \A q \in Types : encoderCache'[q] = encoderCache[q] /\ fieldCache'[q] = fieldCache[q]
  BY <1>1
<1>11. MakersOwn'
  BY <1>1, <1>8, RestackedMakers
<1>12. FinishedOwn'
  <2> SUFFICES ASSUME NEW q \in Types, NEW h \in Goroutines, <<q, h>> \in finished'
               PROVE  encoderCache[q] # NoEncoder /\ encoderCache[q].t = q /\ encoderCache[q].by = h
    BY <1>10 DEF FinishedOwn
  <2>1. CASE <<q, h>> \in finished
    BY <2>1 DEF CacheInv, FinishedOwn
  <2>2. CASE q = t /\ h = g
    <3>1. encoderCache[t] = Encoder(t, g, "placeholder")
      BY <1>1, <1>2, <1>3 DEF CacheInv, MakersOwn
    <3>2. "placeholder" # "none"
      OBVIOUS
    <3> QED  BY <2>2, <3>1, <3>2, EncoderIs
  <2> QED  BY <1>5, <2>1, <2>2
<1>13. CachesSound'
  BY <1>8, <1>10, CachesStaySound
<1>14. HeldSound'
  <2>1. \A q \in Goroutines : \A i \in 1..Len(stack'[q]) : \A k \in 1..Len(stack'[q][i].got) :
          SoundNext(stack'[q][i].got[k])
    BY <1>8, RestackedHeld
  <2>2. \A k \in 1..Len(got) : SoundNext(got[k])
    <3>1. \A k \in 1..Len(got) : Sound(got[k])
      BY <1>2, <1>4 DEF CacheInv, HeldSound
    <3>2. \A k \in 1..Len(got) : got[k] \in Encoders
      BY ElementOfSeq
    <3> QED  BY <1>8, <3>1, <3>2, SoundKept
  <2>3. \A q \in Types, h \in Goroutines :
          \/ parts'[q][h] = parts[q][h]
          \/ \A k \in 1..Len(parts'[q][h]) : SoundNext(parts'[q][h][k])
    BY <1>6, <2>2
  <2>4. \A q \in Goroutines : pc'[q] = "encode" => pc[q] = "encode" /\ at'[q] = at[q]
    BY <1>1, <1>7
  <2> QED  BY <1>8, <2>1, <2>3, <2>4, HeldStaySound
<1>15. FieldsInv'
  <2>1. ASSUME NEW q \in Structs, NEW h \in Goroutines, <<q, h>> \in finished'
        PROVE  \/ <<q, h>> \in finished /\ parts'[q][h] = parts[q][h]
               \/ fieldCache'[q] # NoFields /\ parts'[q][h] = fieldCache'[q]
    <3>1. CASE q = t /\ h = g
      <4>1. stack[g][Len(stack[g])].kind = "encoder" /\ stack[g][Len(stack[g])].t \in Structs
        BY <1>1, <1>2, <1>3, <3>1
      <4>2. got = fieldCache[t] /\ fieldCache[t] # NoFields
        BY <1>2, <1>3, <1>4, <4>1 DEF CacheInv, FieldsInv
      <4> QED  BY <1>6, <1>10, <3>1, <4>2
    <3>2. CASE q # t \/ h # g
      <4>1. q \in Types
        BY TypesAssumption
      <4> QED  BY <1>5, <1>6, <2>1, <3>2, <4>1
    <3> QED  BY <3>1, <3>2
  <2> QED  BY <1>8, <1>10, <2>1, RestackedFields
<1> QED  BY <1>7, <1>9, <1>11, <1>12, <1>13, <1>14, <1>15 DEF CacheInv

\* The encoder itself is stored in place of the placeholder, and returned.
LEMMA PublishInv ==
  ASSUME CacheInv, NEW g \in Goroutines, publish(g)
  PROVE  CacheInv'
<1>1. pc[g] = "publish" /\ UNCHANGED <<want, depth, fieldCache, finished, parts>>
  BY DEF publish
<1>2. /\ stack[g] # << >> /\ Len(stack[g]) \in 1..Len(stack[g]) /\ Len(stack[g]) \in Nat
      /\ stack[g] \in Seq(Frames) /\ Len(stack[g]) >= 1
      /\ Top(g) = stack[g][Len(stack[g])] /\ Top(g).t \in Types
  BY <1>1, TopFrame, FrameTypes DEF CacheInv
<1>3. PICK t \in Types : t = Top(g).t
  BY <1>2
<1>4. Top(g).kind = "encoder" /\ <<t, g>> \in finished
  BY <1>1, <1>3 DEF CacheInv, StackShape
<1>5. PICK e : e = Encoder(t, g, "final")
  OBVIOUS
<1>6. e \in Encoders /\ e # NoEncoder /\ e.t = t /\ e.by = g /\ e.final = "final"
  <2>1. e \in Encoders
    BY <1>5 DEF Encoder, Encoders
  <2>2. "final" # "none"
    OBVIOUS
  <2> QED  BY <1>5, <2>1, <2>2, EncoderIs
<1>7. Sound(e)
  BY <1>4, <1>6 DEF Sound
<1>8. PICK s : s = Front(stack[g])
  OBVIOUS
<1>9. /\ s \in Seq(Frames) /\ Len(s) = Len(stack[g]) - 1 /\ Len(s) \in Nat
      /\ \A i \in 1..Len(s) : s[i] = stack[g][i]
  BY <1>2, <1>8, FrontOfSeq, LenProperties
<1>10. Returns(g, e, s) /\ encoderCache' = [encoderCache EXCEPT ![t] = e]
  BY <1>3, <1>5, <1>8 DEF publish
<1>11. /\ encoderCache' \in [Types -> Encoders \cup {NoEncoder}]
       /\ encoderCache'[t] = e /\ \A q \in Types \ {t} : encoderCache'[q] = encoderCache[q]
  BY <1>6, <1>10 DEF CacheInv, CacheTypeOK
<1>12. \A q \in Types : encoderCache'[q] # encoderCache[q] =>
         /\ encoderCache'[q] # NoEncoder /\ encoderCache'[q].t = q /\ encoderCache'[q].by = g
         /\ <<q, g>> \in finished
         /\ MakingKept => SoundNext(encoderCache'[q])
  BY <1>4, <1>6, <1>7, <1>11, SoundKept
<1>13. \A i \in (Len(s) + 1)..Len(stack[g]) :
         stack[g][i].kind # "fields" => <<stack[g][i].t, g>> \in finished
  <2>1. \A i \in (Len(s) + 1)..Len(stack[g]) : i = Len(stack[g])
    BY <1>2, <1>9
  <2> QED  BY <1>2, <1>3, <1>4, <2>1
<1>14. \A q \in Types : fieldCache'[q] = fieldCache[q]
  BY <1>1
<1>15. CASE s = << >>
  <2>1. /\ stack' = [stack EXCEPT ![g] = << >>] /\ at' = [at EXCEPT ![g] = e]
        /\ pc' = [pc EXCEPT ![g] = "encode"]
    BY <1>10, <1>15 DEF Returns, Goto
  <2>2. << >> \in Seq(Frames)
    BY EmptySeq
  <2>3. CacheTypeOK' /\ pc'[g] = "encode" /\ at'[g] = e
        /\ \A q \in Goroutines \ {g} : pc'[q] = pc[q] /\ at'[q] = at[q]
    BY <1>1, <1>6, <1>11, <2>1, <2>2 DEF CacheInv, CacheTypeOK
  <2>4. Len(s) = 0
    BY <1>15
  <2>5. \A i \in 1..Len(stack[g]) : i \in (Len(s) + 1)..Len(stack[g])
    BY <2>4
  <2>6. \A i \in 1..Len(stack[g]) : stack[g][i].kind # "fields" => <<stack[g][i].t, g>> \in finished
    BY <1>13, <2>5
  <2> QED  BY ZenonT(60), <1>1, <1>6, <1>7, <1>12, <1>14, <2>1, <2>3, <2>6, ClearInv
<1>16. CASE s # << >>
  <2>1. PICK h \in Frames : Gets(h, s[Len(s)], e) /\ Topped(g, s, h)
    BY <1>6, <1>9, <1>10, <1>16, ReturnsIs DEF CacheInv
  <2>2. /\ Len(s) >= 1 /\ UNCHANGED at /\ pc' = [pc EXCEPT ![g] = "build"]
    BY <1>6, <1>9, <1>10, <1>16, ReturnsIs DEF CacheInv
  <2>3. /\ Len(s) \in 1..Len(s) /\ Len(s) <= Len(stack[g]) /\ Len(s) + 1 = Len(stack[g])
        /\ Len(s) \in 1..(Len(stack[g]) - 1) /\ Len(s) \in 1..Len(stack[g])
    <3>1. Len(s) + 1 = Len(stack[g])
      BY <1>2, <1>9
    <3> QED  BY <1>9, <2>2, <3>1
  <2>4. s[Len(s)] = stack[g][Len(s)] /\ Lacks(stack[g][Len(s)])
    <3>1. Below(stack[g][Len(s)], stack[g][Len(s) + 1])
      BY <2>3 DEF CacheInv, StackShape
    <3>2. stack[g][Len(s) + 1].kind = "encoder"
      BY <1>2, <1>4, <2>3
    <3>3. Lacks(stack[g][Len(s)])
      BY <3>1, <3>2 DEF Below
    <3> QED  BY <1>9, <2>3, <3>3
  <2>5. ~(h.kind = "encoder" /\ h.t \in Structs)
    BY <2>1, <2>3, <2>4, LacksNotStruct DEF Gets
  <2>6. ASSUME MakingKept, NEW k \in 1..Len(h.got) PROVE SoundNext(h.got[k])
    <3>1. k \in 1..Len(s[Len(s)].got) \/ k = Len(s[Len(s)].got) + 1
      BY <2>1 DEF Gets
    <3>2. CASE k \in 1..Len(s[Len(s)].got)
      <4>1. s[Len(s)].got[k] \in Encoders
        BY <2>3, <2>4, <3>2, FrameTypes, ElementOfSeq DEF CacheInv
      <4>2. Sound(s[Len(s)].got[k])
        BY <2>3, <2>4, <3>2 DEF CacheInv, HeldSound
      <4> QED  BY <2>1, <2>6, <3>2, <4>1, <4>2, SoundKept DEF Gets
    <3>3. CASE k = Len(s[Len(s)].got) + 1
      <4>1. SoundNext(e)
        BY <1>6, <1>7, <2>6, SoundKept
      <4> QED  BY <2>1, <3>3, <4>1 DEF Gets
    <3> QED  BY <3>1, <3>2, <3>3
  <2>7. CacheTypeOK'
    BY <1>1, <1>11, <2>1, <2>2 DEF CacheInv, CacheTypeOK, Topped
  <2>8. /\ pc'[g] = "build" /\ \A q \in Goroutines \ {g} : pc'[q] = pc[q]
        /\ UNCHANGED <<finished, parts, at>>
    BY <1>1, <2>2 DEF CacheInv, CacheTypeOK
  <2>9. h.t = s[Len(s)].t /\ (h.kind = "fields" <=> s[Len(s)].kind = "fields")
    BY <2>1 DEF Gets
  <2>10. \A i \in 1..Len(s) : stack[g][i].kind # "fields" => stack[g][i].t # t
    <3>1. \A i \in 1..Len(s) : i \in 1..Len(stack[g]) /\ i # Len(stack[g])
      BY <1>9, <2>3
    <3>2. stack[g][Len(stack[g])].kind # "fields" /\ stack[g][Len(stack[g])].t = t
      BY <1>2, <1>3, <1>4
    <3> QED  BY <1>2, <3>1, <3>2 DEF CacheInv, MakersOwn
  <2>11. \A q \in Types : encoderCache'[q] # encoderCache[q] =>
           /\ encoderCache'[q] # NoEncoder /\ encoderCache'[q].t = q /\ encoderCache'[q].by = g
           /\ <<q, g>> \in finished
           /\ MakingKept => SoundNext(encoderCache'[q])
           /\ \A i \in 1..Len(s) : stack[g][i].kind # "fields" => stack[g][i].t # q
    BY <1>11, <1>12, <2>10
  <2> QED  BY <1>9, <1>13, <1>14, <2>1, <2>2, <2>3, <2>5, <2>6, <2>7, <2>8, <2>9, <2>11, Retop
<1> QED  BY <1>15, <1>16

-----------------------------------------------------------------------------
(* The theorems *)

LEMMA CacheStepInv == CacheInv /\ [CacheNext]_vars => CacheInv'
<1> SUFFICES ASSUME CacheInv, [CacheNext]_vars PROVE CacheInv'
  OBVIOUS
<1>1. CASE UNCHANGED vars
  <2>1. CacheTypeOK' /\ StackShape'
    BY <1>1 DEF vars, CacheInv, CacheTypeOK, StackShape, Top, Lacks
  <2>2. MakersOwn' /\ FinishedOwn'
    BY <1>1 DEF vars, CacheInv, MakersOwn, FinishedOwn
  <2>3. CachesSound' /\ HeldSound'
    <3>1. MakingKept
      BY <1>1 DEF vars, MakingKept, Making, MakingNext
    <3>2. CachesSound'
      BY <1>1, <3>1, CachesStaySound DEF vars
    <3>3. ASSUME NEW g \in Goroutines, NEW i \in 1..Len(stack[g]), NEW k \in 1..Len(stack[g][i].got)
          PROVE  SoundNext(stack[g][i].got[k])
      <4>1. stack[g][i].got[k] \in Encoders
        BY FrameTypes, ElementOfSeq DEF CacheInv
      <4>2. Sound(stack[g][i].got[k])
        BY DEF CacheInv, HeldSound
      <4> QED  BY <3>1, <4>1, <4>2, SoundKept
    <3>4. HeldSound'
      BY <1>1, <3>1, <3>3, HeldStaySound DEF vars
    <3> QED  BY <3>2, <3>4
  <2>4. FieldsInv'
    BY <1>1 DEF vars, CacheInv, FieldsInv, FieldsShared
  <2> QED  BY <2>1, <2>2, <2>3, <2>4 DEF CacheInv
<1>2. ASSUME NEW g \in Goroutines, Step(g) PROVE CacheInv'
  BY <1>2, LoadInv, StorePlaceholderInv, AskPartInv, LoadFieldsInv, StoreFieldsInv,
     DoneInv, PublishInv, EncodePartInv, ReturnInv DEF Step
<1>3. ASSUME NEW g \in Goroutines, NEW t \in Types, Marshal(g, t) \/ Unmarshal(g, t)
      PROVE  CacheInv'
  BY <1>3, MarshalInv, UnmarshalInv
<1> QED  BY <1>1, <1>2, <1>3 DEF CacheNext

(***************************************************************************)
(* CacheInv holds of every reachable state: the encoders that typeEncoder  *)
(* (encode.go:217) hands out are in the making or finished, and each is    *)
(* its maker's own.                                                        *)
(***************************************************************************)
THEOREM CacheInvariant == CacheSpec => []CacheInv
BY CacheInitInv, CacheStepInv, PTL DEF CacheSpec

(***************************************************************************)
(* The encoder of a type is made once, by one goroutine, whatever types    *)
(* the goroutines marshal at the same time (encode.go:217-239).            *)
(***************************************************************************)
THEOREM MadeOnceAlways == CacheSpec => []MadeOnce
<1>1. CacheInv => MadeOnce
  <2> SUFFICES ASSUME CacheInv, NEW t \in Types, NEW g \in Goroutines, NEW h \in Goroutines,
                      Making(g, t) \/ <<t, g>> \in finished,
                      Making(h, t) \/ <<t, h>> \in finished
               PROVE  g = h
    BY DEF MadeOnce
  <2>1. ASSUME NEW q \in Goroutines, Making(q, t) \/ <<t, q>> \in finished
        PROVE  encoderCache[t].by = q
    <3>1. CASE Making(q, t)
      <4>1. encoderCache[t] = Encoder(t, q, "placeholder")
        BY <3>1 DEF Making, CacheInv, MakersOwn
      <4> QED  BY <4>1, EncoderIs
    <3>2. CASE <<t, q>> \in finished
      BY <3>2 DEF CacheInv, FinishedOwn
    <3> QED  BY <2>1, <3>1, <3>2
  <2> QED  BY <2>1
<1> QED  BY <1>1, CacheInvariant, PTL

(***************************************************************************)
(* Whoever waits on a placeholder (encode.go:228) waits for an encoder     *)
(* that somebody is making, and the maker does not wait: no circle of      *)
(* types, and no race, makes the goroutines wait on each other.            *)
(***************************************************************************)
THEOREM WaitsOnMakerAlways == CacheSpec => []WaitsOnMaker
<1>1. CacheInv => WaitsOnMaker
  <2> SUFFICES ASSUME CacheInv, NEW g \in Goroutines, Waiting(g)
               PROVE  Making(at[g].by, at[g].t) /\ pc[at[g].by] # "encode"
    BY DEF WaitsOnMaker
  <2>1. at[g] \in Encoders /\ Sound(at[g]) /\ <<at[g].t, at[g].by>> \notin finished
    BY DEF Waiting, Ready, CacheInv, HeldSound
  <2>2. Making(at[g].by, at[g].t) /\ at[g].by \in Goroutines
    BY <2>1 DEF Sound, Encoders
  <2>3. stack[at[g].by] # << >>
    <3>1. Len(<< >>) = 0
      OBVIOUS
    <3>2. \A i \in 1..0 : FALSE
      OBVIOUS
    <3> QED  BY <2>2, <3>1, <3>2 DEF Making
  <2> QED  BY <2>2, <2>3 DEF CacheInv, StackShape
<1> QED  BY <1>1, CacheInvariant, PTL

(***************************************************************************)
(* Every finished encoder of a struct type has the list of fields that is  *)
(* in the cache (encode.go:826-835).                                       *)
(***************************************************************************)
THEOREM FieldsSharedAlways == CacheSpec => []FieldsShared
<1>1. CacheInv => FieldsShared
  BY DEF CacheInv, FieldsInv
<1> QED  BY <1>1, CacheInvariant, PTL

-----------------------------------------------------------------------------
(* The encoder service *)

(***************************************************************************)
(* The encoders got are those of the first parts of t, in order, so that a *)
(* frame that lacks some knows which to ask for.                           *)
(***************************************************************************)
PartsMatch(t, got) ==
  Len(got) <= Len(Parts[t]) /\ \A k \in 1..Len(got) : got[k].t = Parts[t][k]

Asked(f) == Parts[f.t][Len(f.got) + 1]

FramesMatch ==
  \A g \in Goroutines : \A i \in 1..Len(stack[g]) :
    /\ PartsMatch(stack[g][i].t, stack[g][i].got)
    /\ i + 1 <= Len(stack[g]) /\ stack[g][i + 1].kind # "fields" =>
         stack[g][i + 1].t = Asked(stack[g][i])

FieldsMatch == \A t \in Types : fieldCache[t] # NoFields => PartsMatch(t, fieldCache[t])

PartsOfMatch == \A t \in Types, g \in Goroutines : PartsMatch(t, parts[t][g])

WantMatch ==
  \A g \in Goroutines :
    pc[g] \in {"load", "store"} /\ stack[g] # << >> => want[g] = Asked(Top(g))

MatchInv == FramesMatch /\ FieldsMatch /\ PartsOfMatch /\ WantMatch

LEMMA NoPartsMatch ==
  ASSUME NEW t \in Types
  PROVE  PartsMatch(t, << >>)
<1>1. Len(<< >>) = 0 /\ Len(Parts[t]) \in Nat
  BY PartsTypes
<1> QED  BY <1>1 DEF PartsMatch

\* One more of the parts, the one asked for.
LEMMA GetsMatch ==
  ASSUME NEW f \in Frames, NEW h, NEW e, Gets(h, f, e), PartsMatch(f.t, f.got),
         Len(f.got) < Len(Parts[f.t]), e.t = Asked(f)
  PROVE  PartsMatch(h.t, h.got)
<1>1. h.t = f.t /\ Len(f.got) \in Nat /\ Len(h.got) = Len(f.got) + 1
  BY DEF Gets
<1>2. Len(Parts[f.t]) \in Nat
  BY PartsTypes DEF Frames
<1>3. ASSUME NEW k \in 1..Len(h.got) PROVE h.got[k].t = Parts[h.t][k]
  <2>1. k \in 1..Len(f.got) \/ k = Len(f.got) + 1
    BY <1>1
  <2>2. CASE k \in 1..Len(f.got)
    BY <1>1, <2>2 DEF Gets, PartsMatch
  <2>3. CASE k = Len(f.got) + 1
    BY <1>1, <2>3 DEF Gets, Asked
  <2> QED  BY <2>1, <2>2, <2>3
<1>4. Len(h.got) <= Len(Parts[h.t])
  BY <1>1, <1>2
<1> QED  BY <1>3, <1>4 DEF PartsMatch

-----------------------------------------------------------------------------
(* What a step does to the stack *)

\* The frames that stay are as they were; the new one is what was asked for.
LEMMA RestackedMatch ==
  ASSUME CacheInv, FramesMatch, NEW g \in Goroutines, NEW keep, Restacked(g, keep),
         HasNewTop(g, keep) =>
           /\ PartsMatch(NewTop(g, keep).t, NewTop(g, keep).got)
           /\ keep >= 1 /\ NewTop(g, keep).kind # "fields" =>
                NewTop(g, keep).t = Asked(stack[g][keep])
  PROVE  FramesMatch'
<1> SUFFICES ASSUME NEW h \in Goroutines, NEW i \in 1..Len(stack'[h])
             PROVE  /\ PartsMatch(stack'[h][i].t, stack'[h][i].got)
                    /\ i + 1 <= Len(stack'[h]) /\ stack'[h][i + 1].kind # "fields" =>
                         stack'[h][i + 1].t = Asked(stack'[h][i])
  BY DEF FramesMatch, PartsMatch, Asked
<1>1. CASE h # g
  BY <1>1 DEF Restacked, FramesMatch
<1>2. CASE h = g
  <2>1. keep \in Nat /\ keep <= Len(stack[g]) /\ Len(stack[g]) \in Nat
    BY FrameTypes DEF CacheInv, Restacked
  <2>2. CASE i <= keep
    <3>1. i \in 1..Len(stack[g]) /\ stack'[g][i] = stack[g][i]
      BY <1>2, <2>1, <2>2 DEF Restacked
    <3>2. PartsMatch(stack'[g][i].t, stack'[g][i].got)
      BY <3>1 DEF FramesMatch
    <3>3. ASSUME i + 1 <= Len(stack'[g]), stack'[g][i + 1].kind # "fields"
          PROVE  stack'[g][i + 1].t = Asked(stack'[g][i])
      <4>1. CASE i + 1 <= keep
        <5>1. stack'[g][i + 1] = stack[g][i + 1] /\ i + 1 <= Len(stack[g])
          BY <2>1, <4>1 DEF Restacked
        <5> QED  BY <3>1, <3>3, <5>1 DEF FramesMatch
      <4>2. CASE i = keep
        <5>1. HasNewTop(g, keep) /\ stack'[g][i + 1] = NewTop(g, keep) /\ keep >= 1
          BY <2>1, <3>3, <4>2 DEF Restacked, HasNewTop, NewTop
        <5> QED  BY <3>1, <3>3, <4>2, <5>1
      <4> QED  BY <2>1, <2>2, <4>1, <4>2
    <3> QED  BY <1>2, <3>2, <3>3
  <2>3. CASE i > keep
    <3>1. i = keep + 1 /\ HasNewTop(g, keep) /\ stack'[g][i] = NewTop(g, keep)
      BY <1>2, <2>1, <2>3 DEF Restacked, HasNewTop, NewTop
    <3>2. ~(i + 1 <= Len(stack'[g]))
      BY <2>1, <3>1 DEF HasNewTop
    <3> QED  BY <1>2, <3>1, <3>2
  <2> QED  BY <2>1, <2>2, <2>3
<1> QED  BY <1>1, <1>2

\* What a call is for is said by the frame it began with.
FirstKept(g) ==
  /\ stack[g] # << >> /\ stack'[g] # << >>
  /\ stack'[g][1].t = stack[g][1].t
  /\ stack'[g][1].kind = "fields" <=> stack[g][1].kind = "fields"

\* The frame on top of s, the lower part of the stack of g, gives way to h.
LEMMA RetopMatch ==
  ASSUME CacheInv, FramesMatch, NEW g \in Goroutines, NEW s \in Seq(Frames), NEW h \in Frames,
         Topped(g, s, h), Len(s) >= 1, Len(s) <= Len(stack[g]),
         \A i \in 1..Len(s) : s[i] = stack[g][i],
         h.t = s[Len(s)].t, h.kind = "fields" <=> s[Len(s)].kind = "fields",
         PartsMatch(h.t, h.got)
  PROVE  FramesMatch' /\ FirstKept(g)
<1>1. /\ Len(s) \in Nat /\ Restacked(g, Len(s) - 1) /\ HasNewTop(g, Len(s) - 1)
      /\ NewTop(g, Len(s) - 1) = h /\ stack'[g] # << >>
  BY TopStack
<1>2. PICK keep \in Nat : keep = Len(s) - 1 /\ Len(s) = keep + 1
  BY <1>1
<1>3. Len(stack[g]) \in Nat /\ stack[g] # << >> /\ s[Len(s)] = stack[g][keep + 1]
  BY <1>2, FrameTypes DEF CacheInv
<1>4. keep >= 1 /\ h.kind # "fields" => h.t = Asked(stack[g][keep])
  BY <1>2, <1>3 DEF FramesMatch
<1>5. FramesMatch'
  BY <1>1, <1>2, <1>4, RestackedMatch
<1>6. CASE keep = 0
  <2>1. Len(s) = 1
    BY <1>2, <1>6
  <2>2. stack'[g][1] = h
    BY <2>1 DEF Topped
  <2>3. stack[g][1] = s[Len(s)]
    BY <1>3, <1>6
  <2> QED  BY <1>1, <1>3, <1>5, <2>2, <2>3 DEF FirstKept
<1>7. CASE keep >= 1
  <2>1. stack'[g][1] = stack[g][1]
    BY <1>1, <1>2, <1>7 DEF Restacked
  <2> QED  BY <1>1, <1>3, <1>5, <2>1 DEF FirstKept
<1>8. keep = 0 \/ keep >= 1
  OBVIOUS
<1> QED  BY <1>6, <1>7, <1>8

\* A frame without encoders is pushed.
LEMMA PushMatch ==
  ASSUME CacheInv, FramesMatch, NEW g \in Goroutines, NEW f \in Frames, Push(g, f),
         f.got = << >>, stack[g] # << >> /\ f.kind # "fields" => f.t = Asked(Top(g))
  PROVE  /\ FramesMatch' /\ stack'[g] # << >>
         /\ stack[g] # << >> => FirstKept(g)
         /\ stack[g] = << >> => stack'[g][1] = f
<1>1. /\ Restacked(g, Len(stack[g])) /\ NewTop(g, Len(stack[g])) = f /\ stack'[g] # << >>
  BY PushStack
<1>2. Len(stack[g]) \in Nat /\ (stack[g] # << >> <=> Len(stack[g]) >= 1)
  BY FrameTypes DEF CacheInv
<1>3. PartsMatch(f.t, f.got)
  BY NoPartsMatch DEF Frames
<1>4. FramesMatch'
  BY <1>1, <1>2, <1>3, RestackedMatch DEF Top
<1>5. stack[g] # << >> => stack'[g][1] = stack[g][1]
  BY <1>1, <1>2 DEF Restacked
<1>6. stack[g] = << >> => stack'[g][1] = f
  BY <1>1 DEF NewTop
<1> QED  BY <1>1, <1>4, <1>5, <1>6 DEF FirstKept

-----------------------------------------------------------------------------
(* What a step is to the callers *)

Others(g) ==
  \A h \in Goroutines \ {g} :
    pc'[h] = pc[h] /\ want'[h] = want[h] /\ at'[h] = at[h] /\ stack'[h] = stack[h]

ServiceStep == [Service!ServiceNext]_(Service!serviceVars)

LEMMA OthersWant ==
  ASSUME WantMatch, NEW g \in Goroutines, Others(g),
         pc'[g] \in {"load", "store"} /\ stack'[g] # << >> => want'[g] = Asked(Top(g)')
  PROVE  WantMatch'
<1> SUFFICES ASSUME NEW h \in Goroutines, pc'[h] \in {"load", "store"}, stack'[h] # << >>
             PROVE  want'[h] = Asked(Top(h)')
  BY DEF WantMatch, Asked
<1>1. CASE h = g
  BY <1>1
<1>2. CASE h # g
  <2>1. Top(h)' = Top(h)
    BY <1>2 DEF Others, Top
  <2> QED  BY <1>2, <2>1 DEF Others, WantMatch
<1> QED  BY <1>1, <1>2

LEMMA TypeAtOthers ==
  ASSUME NEW g \in Goroutines, Others(g), NEW h \in Goroutines \ {g}
  PROVE  TypeAt(h)' = TypeAt(h)
BY DEF Others, TypeAt, Decoding, Wanted

LEMMA NothingForCallers ==
  ASSUME NEW g \in Goroutines, Others(g), Made' = Made, TypeAt(g)' = TypeAt(g)
  PROVE  ServiceStep
<1>1. \A h \in Goroutines : TypeAt(h)' = TypeAt(h)
  BY TypeAtOthers
<1>2. [h \in Goroutines |-> TypeAt(h)]' = [h \in Goroutines |-> TypeAt(h)]
  BY <1>1
<1> QED  BY <1>2 DEF ServiceStep, Service!serviceVars

LEMMA OneCaller ==
  ASSUME NEW g \in Goroutines, Others(g)
  PROVE  [h \in Goroutines |-> TypeAt(h)]' = [[h \in Goroutines |-> TypeAt(h)] EXCEPT ![g] = TypeAt(g)']
BY TypeAtOthers

\* Whoever makes encoders goes on making them for the same call.
LEMMA SameCall ==
  ASSUME NEW g \in Goroutines, FirstKept(g),
         pc[g] \notin {"idle", "encode"}, pc'[g] \notin {"idle", "encode"}
  PROVE  TypeAt(g)' = TypeAt(g)
BY DEF FirstKept, TypeAt, Decoding, Wanted

LEMMA SameMade ==
  ASSUME UNCHANGED finished
  PROVE  Made' = Made
BY DEF Made

\* Steps that leave the stacks, the fields and the parts alone.
LEMMA SameMatch ==
  ASSUME MatchInv, UNCHANGED <<stack, fieldCache, parts>>
  PROVE  FramesMatch' /\ FieldsMatch' /\ PartsOfMatch'
BY ZenonT(60) DEF MatchInv, FramesMatch, FieldsMatch, PartsOfMatch, PartsMatch, Asked

LEMMA CachesMatch ==
  ASSUME MatchInv, UNCHANGED <<fieldCache, parts>>
  PROVE  FieldsMatch' /\ PartsOfMatch'
BY DEF MatchInv, FieldsMatch, PartsOfMatch, PartsMatch

-----------------------------------------------------------------------------
(* Each step *)

LEMMA MarshalServes ==
  ASSUME CacheInv, MatchInv, NEW g \in Goroutines, NEW t \in Types, Marshal(g, t)
  PROVE  MatchInv' /\ ServiceStep
<1>1. /\ pc[g] = "idle" /\ pc'[g] = "load" /\ want'[g] = t /\ stack[g] = << >>
      /\ UNCHANGED <<stack, at, fieldCache, finished, parts>>
  BY DEF CacheInv, CacheTypeOK, StackShape, Marshal, Goto
<1>2. Others(g)
  BY DEF CacheInv, CacheTypeOK, Marshal, Goto, Others
<1>3. MatchInv'
  BY <1>1, <1>2, SameMatch, OthersWant DEF MatchInv
<1>4. TypeAt(g) = "no type" /\ TypeAt(g)' = t /\ Made' = Made
  BY <1>1, SameMade DEF TypeAt, Decoding, Wanted
<1>5. Service!Call(g, t)
  BY <1>2, <1>4, OneCaller DEF Service!Call, Service!NoType
<1> QED  BY <1>3, <1>5 DEF ServiceStep, Service!ServiceNext

LEMMA UnmarshalServes ==
  ASSUME CacheInv, MatchInv, NEW g \in Goroutines, NEW t \in Types, Unmarshal(g, t)
  PROVE  MatchInv' /\ ServiceStep
<1>1. PICK f : f = Frame("fields", t)
  OBVIOUS
<1>2. f \in Frames /\ f.got = << >> /\ f.kind = "fields"
  BY <1>1, NewFrameType DEF Frame
<1>3. /\ Push(g, f) /\ pc[g] = "idle" /\ pc'[g] = "build" /\ stack[g] = << >>
      /\ UNCHANGED <<want, at, fieldCache, finished, parts>>
  BY <1>1 DEF CacheInv, CacheTypeOK, StackShape, Unmarshal, Goto
<1>4. Others(g)
  BY <1>3 DEF CacheInv, CacheTypeOK, Unmarshal, Goto, Push, Others
<1>5. FramesMatch' /\ stack'[g] # << >> /\ stack'[g][1] = f
  BY <1>2, <1>3, PushMatch DEF MatchInv
<1>6. MatchInv'
  BY <1>3, <1>4, <1>5, CachesMatch, OthersWant DEF MatchInv
<1>7. TypeAt(g)' = TypeAt(g)
  BY <1>2, <1>3, <1>5 DEF TypeAt, Decoding
<1> QED  BY <1>3, <1>4, <1>6, <1>7, SameMade, NothingForCallers

LEMMA AskPartServes ==
  ASSUME CacheInv, MatchInv, NEW g \in Goroutines, askPart(g)
  PROVE  MatchInv' /\ ServiceStep
<1>1. /\ pc[g] = "build" /\ pc'[g] = "load" /\ want'[g] = Asked(Top(g))
      /\ UNCHANGED <<stack, at, fieldCache, finished, parts>> /\ Top(g)' = Top(g)
  BY DEF CacheInv, CacheTypeOK, askPart, Goto, Asked, Top
<1>2. Others(g)
  BY DEF CacheInv, CacheTypeOK, askPart, Goto, Others
<1>3. MatchInv'
  BY <1>1, <1>2, SameMatch, OthersWant DEF MatchInv
<1>4. FirstKept(g)
  BY <1>1, TopFrame DEF FirstKept
<1> QED  BY <1>1, <1>2, <1>3, <1>4, SameCall, SameMade, NothingForCallers

LEMMA ReturnServes ==
  ASSUME CacheInv, MatchInv, NEW g \in Goroutines, return(g)
  PROVE  MatchInv' /\ ServiceStep
<1>1. /\ pc[g] = "encode" /\ Ready(at[g]) /\ pc'[g] = "idle" /\ stack[g] = << >>
      /\ UNCHANGED <<stack, want, at, fieldCache, finished, parts>>
  BY DEF CacheInv, CacheTypeOK, StackShape, return, Goto
<1>2. Others(g)
  BY DEF CacheInv, CacheTypeOK, return, Goto, Others
<1>3. MatchInv'
  BY <1>1, <1>2, SameMatch, OthersWant DEF MatchInv
<1>4. at[g].t \in Made
  BY <1>1 DEF CacheInv, HeldSound, Sound, Ready, Encoders, Made
<1>5. TypeAt(g) = at[g].t /\ TypeAt(g)' = "no type" /\ Made' = Made
  BY <1>1, SameMade DEF TypeAt, Decoding
<1>6. Service!Return(g)
  BY <1>2, <1>4, <1>5, OneCaller DEF Service!Return, Service!NoType
<1> QED  BY <1>3, <1>6 DEF ServiceStep, Service!ServiceNext

\* What an encoder that may be used has for its parts.
LEMMA EncodePartServes ==
  ASSUME CacheInv, MatchInv, NEW g \in Goroutines, encodePart(g)
  PROVE  MatchInv' /\ ServiceStep
<1>1. /\ pc[g] = "encode" /\ Ready(at[g]) /\ stack[g] = << >>
      /\ at[g] \in Encoders /\ Sound(at[g])
      /\ UNCHANGED <<stack, fieldCache, finished, parts>>
  BY DEF CacheInv, StackShape, HeldSound, encodePart
<1>2. Others(g)
  BY DEF CacheInv, CacheTypeOK, encodePart, Goto, Others
<1>3. MatchInv'
  BY <1>1, <1>2, SameMatch, OthersWant DEF MatchInv
<1>4. at[g].t \in Types /\ at[g].by \in Goroutines /\ at[g].t \in Made
  BY <1>1 DEF Sound, Ready, Encoders, Made
<1>5. TypeAt(g) = at[g].t /\ Made' = Made
  BY <1>1, SameMade DEF TypeAt, Decoding
<1>6. TypeAt(g)' \in Types /\ TypeAt(g)' \in Holds[at[g].t]
  <2>1. CASE \E i \in 1..Len(parts[at[g].t][at[g].by]) :
                at' = [at EXCEPT ![g] = parts[@.t][@.by][i]] /\ UNCHANGED pc
    <3>1. PICK got \in Seq(Encoders) : got = parts[at[g].t][at[g].by]
      BY <1>4 DEF CacheInv, CacheTypeOK
    <3>2. PICK i \in 1..Len(got) : at'[g] = got[i] /\ pc'[g] = "encode"
      BY <1>1, <2>1, <3>1 DEF CacheInv, CacheTypeOK
    <3>3. PartsMatch(at[g].t, got)
      BY <1>4, <3>1 DEF MatchInv, PartsOfMatch
    <3>4. /\ Len(Parts[at[g].t]) \in Nat /\ Parts[at[g].t] \in Seq(Types)
          /\ Len(got) \in Nat /\ Len(got) <= Len(Parts[at[g].t])
      BY <1>4, <3>3, PartsTypes, LenProperties DEF PartsMatch
    <3>5. i \in 1..Len(Parts[at[g].t]) /\ i \in DOMAIN Parts[at[g].t]
      BY <3>4
    <3>6. got[i].t = Parts[at[g].t][i] /\ Parts[at[g].t][i] \in Types
      BY <1>4, <3>3, <3>5, PartsTypes DEF PartsMatch
    <3>7. Parts[at[g].t][i] \in Holds[at[g].t]
      BY <1>4, <3>5, <3>6 DEF Holds
    <3>8. TypeAt(g)' = got[i].t
      BY <1>1, <3>2 DEF TypeAt, Decoding
    <3> QED  BY <3>6, <3>7, <3>8
  <2>2. CASE /\ at[g].t \in Interfaces
             /\ \E t \in Types : want' = [want EXCEPT ![g] = t]
             /\ Goto(g, "load") /\ UNCHANGED at
    <3>1. want'[g] \in Types /\ pc'[g] = "load"
      BY <2>2 DEF CacheInv, CacheTypeOK, Goto
    <3>2. TypeAt(g)' = want'[g]
      BY <1>1, <3>1 DEF TypeAt, Decoding, Wanted
    <3>3. Holds[at[g].t] = Types
      BY <1>4, <2>2 DEF Holds
    <3> QED  BY <3>1, <3>2, <3>3
  <2> QED  BY <2>1, <2>2 DEF encodePart
<1>7. PICK t \in Types : t = TypeAt(g)'
  BY <1>6
<1>8. Service!Descend(g, t)
  BY <1>2, <1>4, <1>5, <1>6, <1>7, OneCaller DEF Service!Descend
<1> QED  BY <1>3, <1>8 DEF ServiceStep, Service!ServiceNext

\* typeEncoder returns the encoder in the cache, which is of the type wanted.
LEMMA CachedServes ==
  ASSUME CacheInv, MatchInv, NEW g \in Goroutines, pc[g] \in {"load", "store"},
         encoderCache[want[g]] # NoEncoder, Returns(g, encoderCache[want[g]], stack[g]),
         UNCHANGED <<want, fieldCache, finished, parts>>
  PROVE  MatchInv' /\ ServiceStep
<1>1. PICK e : e = encoderCache[want[g]]
  OBVIOUS
<1>2. want[g] \in Types /\ e \in Encoders /\ e.t = want[g]
  BY <1>1 DEF CacheInv, CacheTypeOK, CachesSound
<1>3. stack[g] \in Seq(Frames) /\ Len(stack[g]) \in Nat
  BY FrameTypes DEF CacheInv
<1>4. Returns(g, e, stack[g])
  BY <1>1
<1>5. CASE stack[g] = << >>
  <2>1. /\ UNCHANGED stack /\ at' = [at EXCEPT ![g] = e] /\ pc' = [pc EXCEPT ![g] = "encode"]
    BY <1>4, <1>5 DEF CacheInv, CacheTypeOK, Returns, Goto
  <2>2. Others(g) /\ pc'[g] = "encode" /\ at'[g] = e
    BY <2>1 DEF CacheInv, CacheTypeOK, Others
  <2>3. MatchInv'
    BY <2>1, <2>2, SameMatch, OthersWant DEF MatchInv
  <2>4. TypeAt(g)' = TypeAt(g)
    BY <1>2, <1>5, <2>1, <2>2 DEF TypeAt, Decoding, Wanted
  <2> QED  BY <2>2, <2>3, <2>4, SameMade, NothingForCallers
<1>6. CASE stack[g] # << >>
  <2>1. PICK h \in Frames : Gets(h, stack[g][Len(stack[g])], e) /\ Topped(g, stack[g], h)
    BY <1>2, <1>3, <1>4, <1>6, ReturnsIs DEF CacheInv
  <2>2. Len(stack[g]) >= 1 /\ UNCHANGED at /\ pc' = [pc EXCEPT ![g] = "build"]
    BY <1>2, <1>3, <1>4, <1>6, ReturnsIs DEF CacheInv
  <2>3. PICK f \in Frames : f = stack[g][Len(stack[g])] /\ f = Top(g)
    BY <1>3, <2>2, FrameTypes DEF CacheInv, Top
  <2>4. Len(f.got) < Len(Parts[f.t]) /\ e.t = Asked(f)
    BY <1>2, <1>6, <2>3 DEF CacheInv, StackShape, Lacks, MatchInv, WantMatch
  <2>5. PartsMatch(f.t, f.got)
    <3>1. Len(stack[g]) \in 1..Len(stack[g])
      BY <1>3, <2>2
    <3> QED  BY <2>3, <3>1 DEF MatchInv, FramesMatch
  <2>6. PartsMatch(h.t, h.got) /\ h.t = f.t /\ h.kind = f.kind
    BY <2>1, <2>3, <2>4, <2>5, GetsMatch DEF Gets
  <2>7. FramesMatch' /\ FirstKept(g)
    <3>1. Len(stack[g]) <= Len(stack[g]) /\ \A i \in 1..Len(stack[g]) : stack[g][i] = stack[g][i]
      BY <1>3
    <3>2. Topped(g, stack[g], h) /\ h.t = stack[g][Len(stack[g])].t
          /\ (h.kind = "fields" <=> stack[g][Len(stack[g])].kind = "fields")
      BY <2>1, <2>3, <2>6
    <3> QED  BY <1>3, <2>2, <2>6, <3>1, <3>2, RetopMatch DEF MatchInv
  <2>8. Others(g) /\ pc'[g] = "build"
    BY <2>1, <2>2 DEF CacheInv, CacheTypeOK, Topped, Others
  <2>9. MatchInv'
    BY <2>7, <2>8, CachesMatch, OthersWant DEF MatchInv
  <2> QED  BY <2>7, <2>8, <2>9, SameCall, SameMade, NothingForCallers
<1> QED  BY <1>5, <1>6

LEMMA LoadServes ==
  ASSUME CacheInv, MatchInv, NEW g \in Goroutines, load(g)
  PROVE  MatchInv' /\ ServiceStep
<1>1. CASE encoderCache[want[g]] # NoEncoder
  BY <1>1, CachedServes DEF load
<1>2. CASE encoderCache[want[g]] = NoEncoder
  <2>1. /\ pc[g] = "load" /\ pc'[g] = "store" /\ Others(g) /\ Top(g)' = Top(g)
        /\ UNCHANGED <<want, stack, at, fieldCache, finished, parts>>
    BY <1>2 DEF CacheInv, CacheTypeOK, load, Goto, Others, Top
  <2>2. MatchInv'
    BY <2>1, SameMatch, OthersWant DEF MatchInv, WantMatch
  <2>3. TypeAt(g)' = TypeAt(g)
    BY <2>1 DEF TypeAt, Decoding, Wanted
  <2> QED  BY <2>1, <2>2, <2>3, SameMade, NothingForCallers
<1> QED  BY <1>1, <1>2

LEMMA StorePlaceholderServes ==
  ASSUME CacheInv, MatchInv, NEW g \in Goroutines, storePlaceholder(g)
  PROVE  MatchInv' /\ ServiceStep
<1>1. CASE encoderCache[want[g]] # NoEncoder
  BY <1>1, CachedServes DEF storePlaceholder
<1>2. CASE encoderCache[want[g]] = NoEncoder
  <2>1. PICK f : f = NewFrame(want[g])
    OBVIOUS
  <2>2. want[g] \in Types
    BY DEF CacheInv, CacheTypeOK
  <2>3. f \in Frames /\ f.got = << >> /\ f.t = want[g] /\ f.kind # "fields"
    BY <2>1, <2>2, NewFrameType DEF NewFrame, Frame
  <2>4. /\ pc[g] = "store" /\ Push(g, f) /\ pc'[g] = "build"
        /\ UNCHANGED <<want, at, fieldCache, finished, parts>>
    BY <1>2, <2>1 DEF CacheInv, CacheTypeOK, storePlaceholder, Goto
  <2>5. Others(g)
    BY <1>2, <2>4 DEF CacheInv, CacheTypeOK, storePlaceholder, Goto, Push, Others
  <2>6. stack[g] # << >> => f.t = Asked(Top(g))
    BY <2>3, <2>4 DEF MatchInv, WantMatch
  <2>7. /\ FramesMatch' /\ stack'[g] # << >>
        /\ stack[g] # << >> => FirstKept(g)
        /\ stack[g] = << >> => stack'[g][1] = f
    BY <2>3, <2>4, <2>6, PushMatch DEF MatchInv
  <2>8. MatchInv'
    BY <2>4, <2>5, <2>7, CachesMatch, OthersWant DEF MatchInv
  <2>9. TypeAt(g)' = TypeAt(g)
    <3>1. CASE stack[g] = << >>
      BY <2>3, <2>4, <2>7, <3>1 DEF TypeAt, Decoding, Wanted
    <3>2. CASE stack[g] # << >>
      BY <2>4, <2>7, <3>2, SameCall
    <3> QED  BY <3>1, <3>2
  <2> QED  BY <2>4, <2>5, <2>8, <2>9, SameMade, NothingForCallers
<1> QED  BY <1>1, <1>2

LEMMA LoadFieldsServes ==
  ASSUME CacheInv, MatchInv, NEW g \in Goroutines, loadFields(g)
  PROVE  MatchInv' /\ ServiceStep
<1>1. /\ pc[g] = "build" /\ Top(g).kind = "struct"
      /\ UNCHANGED <<pc, want, at, fieldCache, finished, parts>>
  BY DEF loadFields
<1>2. /\ stack[g] # << >> /\ Len(stack[g]) \in Nat /\ Len(stack[g]) >= 1
      /\ stack[g] \in Seq(Frames) /\ Top(g) = stack[g][Len(stack[g])]
  BY <1>1, TopFrame, FrameTypes DEF CacheInv
<1>3. PICK t \in Types : t = Top(g).t
  BY <1>1, TopFrame
<1>4. FramesMatch' /\ FirstKept(g) /\ \A q \in Goroutines \ {g} : stack'[q] = stack[q]
  <2>1. CASE fieldCache[t] # NoFields
    <3>1. PICK h : h = [kind |-> "encoder", t |-> t, got |-> fieldCache[t]]
      OBVIOUS
    <3>2. fieldCache[t] \in Seq(Encoders)
      BY <2>1 DEF CacheInv, CacheTypeOK
    <3>3. h \in Frames /\ h.t = t /\ h.kind = "encoder" /\ h.got = fieldCache[t]
      BY <3>1, <3>2 DEF Frames
    <3>4. stack' = [stack EXCEPT ![g] = [stack[g] EXCEPT ![Len(stack[g])] = h]]
      <4>1. stack' = [stack EXCEPT ![g] = WithFields(stack[g], fieldCache[t])]
        BY <1>3, <2>1 DEF loadFields
      <4>2. WithFields(stack[g], fieldCache[t]) = [stack[g] EXCEPT ![Len(stack[g])] = h]
        BY <1>2, <1>3, <3>1 DEF WithFields
      <4> QED  BY <4>1, <4>2
    <3>5. Topped(g, stack[g], h)
      BY <1>2, <3>3, <3>4, ToppedIs DEF CacheInv
    <3>6. PartsMatch(h.t, h.got)
      BY <2>1, <3>3 DEF MatchInv, FieldsMatch
    <3>7. /\ h.t = stack[g][Len(stack[g])].t
          /\ (h.kind = "fields" <=> stack[g][Len(stack[g])].kind = "fields")
      BY <1>1, <1>2, <1>3, <3>3
    <3>8. Len(stack[g]) <= Len(stack[g]) /\ \A i \in 1..Len(stack[g]) : stack[g][i] = stack[g][i]
      BY <1>2
    <3> QED  BY <1>2, <3>3, <3>5, <3>6, <3>7, <3>8, RetopMatch DEF MatchInv, Topped
  <2>2. CASE fieldCache[t] = NoFields
    <3>1. PICK f : f = Frame("fields", t)
      OBVIOUS
    <3>2. f \in Frames /\ f.got = << >> /\ f.kind = "fields"
      BY <3>1, NewFrameType DEF Frame
    <3>3. Push(g, f)
      BY <1>3, <2>2, <3>1 DEF loadFields
    <3>4. Pushed(g, f)
      BY <3>2, <3>3, PushIs DEF CacheInv
    <3> QED  BY <1>2, <3>2, <3>3, <3>4, PushMatch DEF MatchInv, Pushed
  <2> QED  BY <2>1, <2>2
<1>5. Others(g)
  BY <1>1, <1>4 DEF Others
<1>6. MatchInv'
  BY <1>1, <1>4, <1>5, CachesMatch, OthersWant DEF MatchInv
<1> QED  BY <1>1, <1>4, <1>5, <1>6, SameCall, SameMade, NothingForCallers

\* The list that everybody uses is of the parts of the struct, whoever made it.
LEMMA StoreFieldsServes ==
  ASSUME CacheInv, MatchInv, NEW g \in Goroutines, storeFields(g)
  PROVE  MatchInv' /\ ServiceStep
<1>1. /\ pc[g] = "build" /\ Top(g).kind = "fields"
      /\ UNCHANGED <<want, at, finished, parts>>
  BY DEF storeFields
<1>2. /\ stack[g] # << >> /\ Len(stack[g]) \in 1..Len(stack[g]) /\ Len(stack[g]) \in Nat
      /\ stack[g] \in Seq(Frames) /\ Len(stack[g]) >= 1
      /\ Top(g) = stack[g][Len(stack[g])] /\ Top(g).got \in Seq(Encoders)
  BY <1>1, TopFrame, FrameTypes DEF CacheInv
<1>3. PICK t \in Types : t = Top(g).t
  BY <1>1, TopFrame
<1>4. PICK fields : fields = fieldCache'[t]
  OBVIOUS
<1>5. fieldCache' = [fieldCache EXCEPT ![t] = IF fieldCache[t] = NoFields THEN Top(g).got ELSE fieldCache[t]]
  BY <1>3 DEF storeFields
<1>6. /\ \A q \in Types \ {t} : fieldCache'[q] = fieldCache[q]
      /\ fieldCache[t] # NoFields => fields = fieldCache[t] /\ fields \in Seq(Encoders)
      /\ fieldCache[t] = NoFields => fields = Top(g).got /\ fields \in Seq(Encoders)
  BY <1>2, <1>4, <1>5 DEF CacheInv, CacheTypeOK
<1>7. PartsMatch(t, fields)
  <2>1. PartsMatch(t, Top(g).got)
    BY <1>2, <1>3 DEF MatchInv, FramesMatch
  <2>2. fieldCache[t] # NoFields => PartsMatch(t, fieldCache[t])
    BY DEF MatchInv, FieldsMatch
  <2> QED  BY <1>6, <2>1, <2>2
<1>8. FieldsMatch'
  BY <1>4, <1>6, <1>7 DEF MatchInv, FieldsMatch, PartsMatch
<1>9. PartsOfMatch'
  BY <1>1 DEF MatchInv, PartsOfMatch, PartsMatch
<1>10. FieldsReturn(g, fields)
  BY <1>3, <1>4 DEF storeFields
<1>11. CASE Len(stack[g]) = 1
  <2>1. stack' = [stack EXCEPT ![g] = << >>] /\ pc' = [pc EXCEPT ![g] = "idle"]
    BY <1>10, <1>11 DEF FieldsReturn, Goto
  <2>2. Restacked(g, 0) /\ ~HasNewTop(g, 0) /\ stack'[g] = << >>
    BY <2>1, ClearStack
  <2>3. Others(g) /\ pc'[g] = "idle"
    BY <1>1, <2>1 DEF CacheInv, CacheTypeOK, Others
  <2>4. FramesMatch'
    BY <2>2, RestackedMatch DEF MatchInv
  <2>5. MatchInv'
    BY <1>8, <1>9, <2>3, <2>4, OthersWant DEF MatchInv
  <2>6. TypeAt(g) = "no type" /\ TypeAt(g)' = "no type"
    BY <1>1, <1>2, <1>11, <2>3 DEF TypeAt, Decoding
  <2> QED  BY <1>1, <2>3, <2>5, <2>6, SameMade, NothingForCallers
<1>12. CASE Len(stack[g]) # 1
  <2>1. PICK s : s = Front(stack[g])
    OBVIOUS
  <2>2. /\ s \in Seq(Frames) /\ Len(s) = Len(stack[g]) - 1
        /\ \A i \in 1..Len(s) : s[i] = stack[g][i]
    BY <1>2, <2>1, FrontOfSeq
  <2>3. Len(s) >= 1 /\ Len(s) <= Len(stack[g]) /\ Len(s) \in 1..(Len(stack[g]) - 1)
        /\ Len(s) \in 1..Len(s) /\ Len(s) + 1 = Len(stack[g])
    <3>1. PICK n \in Nat : n = Len(stack[g])
      BY <1>2
    <3>2. n >= 1 /\ n # 1 /\ Len(s) = n - 1
      BY <1>2, <1>12, <2>2, <3>1
    <3>3. n - 1 >= 1 /\ n - 1 <= n /\ n - 1 \in 1..(n - 1) /\ n - 1 + 1 = n
      BY <3>2
    <3> QED  BY <3>1, <3>2, <3>3
  <2>4. s[Len(s)].kind = "struct" /\ s[Len(s)].t = t
    <3>1. Below(stack[g][Len(s)], stack[g][Len(s) + 1])
      BY <2>3 DEF CacheInv, StackShape
    <3> QED  BY <1>1, <1>2, <1>3, <2>2, <2>3, <3>1 DEF Below
  <2>5. PICK h : h = [kind |-> "encoder", t |-> t, got |-> fields]
    OBVIOUS
  <2>6. h \in Frames /\ h.t = t /\ h.kind = "encoder" /\ h.got = fields
    BY <1>6, <2>5 DEF Frames
  <2>7. stack' = [stack EXCEPT ![g] = [s EXCEPT ![Len(s)] = h]] /\ UNCHANGED pc
    <3>1. stack' = [stack EXCEPT ![g] = WithFields(s, fields)] /\ UNCHANGED pc
      BY <1>10, <1>12, <2>1 DEF FieldsReturn
    <3>2. WithFields(s, fields) = [s EXCEPT ![Len(s)] = h]
      BY <2>2, <2>3, <2>4, <2>5 DEF WithFields
    <3> QED  BY <3>1, <3>2
  <2>8. s # << >>
    BY <2>2, <2>3, NonEmpty
  <2>9. Topped(g, s, h)
    BY <2>2, <2>6, <2>7, <2>8, ToppedIs DEF CacheInv
  <2>10. /\ PartsMatch(h.t, h.got) /\ h.t = s[Len(s)].t
         /\ (h.kind = "fields" <=> s[Len(s)].kind = "fields")
    BY <1>7, <2>4, <2>6
  <2>11. FramesMatch' /\ FirstKept(g)
    BY <2>2, <2>3, <2>6, <2>9, <2>10, RetopMatch DEF MatchInv
  <2>12. Others(g) /\ pc'[g] = "build"
    BY <1>1, <2>7, <2>9 DEF Topped, Others
  <2>13. MatchInv'
    BY <1>8, <1>9, <2>11, <2>12, OthersWant DEF MatchInv
  <2> QED  BY <1>1, <2>11, <2>12, <2>13, SameCall, SameMade, NothingForCallers
<1> QED  BY <1>11, <1>12

\* The encoder exists from here on.
LEMMA DoneServes ==
  ASSUME CacheInv, MatchInv, NEW g \in Goroutines, done(g)
  PROVE  MatchInv' /\ ServiceStep
<1>1. /\ pc[g] = "build" /\ pc'[g] = "publish" /\ Others(g)
      /\ UNCHANGED <<want, stack, at, fieldCache>>
  BY DEF CacheInv, CacheTypeOK, done, Goto, Others
<1>2. /\ stack[g] # << >> /\ Len(stack[g]) \in 1..Len(stack[g])
      /\ Top(g) = stack[g][Len(stack[g])]
  BY <1>1, TopFrame
<1>3. PICK t \in Types : t = Top(g).t
  BY <1>1, TopFrame
<1>4. PICK got \in Seq(Encoders) : got = Top(g).got
  BY <1>1, TopFrame
<1>5. finished' = finished \cup {<<t, g>>} /\ parts' = [parts EXCEPT ![t][g] = got]
  BY <1>3, <1>4 DEF done
<1>6. /\ parts'[t][g] = got
      /\ \A q \in Types, h \in Goroutines : q # t \/ h # g => parts'[q][h] = parts[q][h]
  BY <1>5 DEF CacheInv, CacheTypeOK
<1>7. PartsMatch(t, got)
  BY <1>2, <1>3, <1>4 DEF MatchInv, FramesMatch
<1>8. PartsOfMatch'
  <2> SUFFICES ASSUME NEW q \in Types, NEW h \in Goroutines
               PROVE  PartsMatch(q, parts'[q][h])
    BY DEF PartsOfMatch, PartsMatch
  <2> QED  BY <1>6, <1>7 DEF MatchInv, PartsOfMatch
<1>9. FramesMatch' /\ FieldsMatch'
  BY <1>1 DEF MatchInv, FramesMatch, FieldsMatch, PartsMatch, Asked
<1>10. MatchInv'
  BY <1>1, <1>8, <1>9, OthersWant DEF MatchInv
<1>11. TypeAt(g)' = TypeAt(g)
  BY <1>1, <1>2, SameCall DEF FirstKept
<1>12. Made' = Made \cup {t}
  BY <1>5 DEF Made
<1>13. CASE t \in Made
  BY <1>1, <1>10, <1>11, <1>12, <1>13, NothingForCallers
<1>14. CASE t \notin Made
  <2>1. \A h \in Goroutines : TypeAt(h)' = TypeAt(h)
    BY <1>1, <1>11, TypeAtOthers
  <2>2. [h \in Goroutines |-> TypeAt(h)]' = [h \in Goroutines |-> TypeAt(h)]
    BY <2>1
  <2>3. Service!Make(t)
    BY <1>12, <1>14, <2>2 DEF Service!Make
  <2> QED  BY <1>10, <2>3 DEF ServiceStep, Service!ServiceNext
<1> QED  BY <1>13, <1>14

LEMMA PublishServes ==
  ASSUME CacheInv, MatchInv, NEW g \in Goroutines, publish(g)
  PROVE  MatchInv' /\ ServiceStep
<1>1. pc[g] = "publish" /\ UNCHANGED <<want, fieldCache, finished, parts>>
  BY DEF publish
<1>2. /\ stack[g] # << >> /\ Len(stack[g]) \in Nat /\ Len(stack[g]) >= 1
      /\ stack[g] \in Seq(Frames) /\ Top(g) = stack[g][Len(stack[g])]
      /\ Top(g).kind = "encoder"
  BY <1>1, TopFrame, FrameTypes DEF CacheInv, StackShape
<1>3. PICK t \in Types : t = Top(g).t
  BY <1>1, TopFrame
<1>4. PICK e : e = Encoder(t, g, "final")
  OBVIOUS
<1>5. e \in Encoders /\ e.t = t
  BY <1>4 DEF Encoder, Encoders
<1>6. PICK s : s = Front(stack[g])
  OBVIOUS
<1>7. /\ s \in Seq(Frames) /\ Len(s) = Len(stack[g]) - 1 /\ Len(s) \in Nat
      /\ \A i \in 1..Len(s) : s[i] = stack[g][i]
  BY <1>2, <1>6, FrontOfSeq, LenProperties
<1>8. Returns(g, e, s)
  BY <1>3, <1>4, <1>6 DEF publish
<1>9. CASE s = << >>
  <2>1. /\ stack' = [stack EXCEPT ![g] = << >>] /\ at' = [at EXCEPT ![g] = e]
        /\ pc' = [pc EXCEPT ![g] = "encode"]
    BY <1>8, <1>9 DEF Returns, Goto
  <2>2. Restacked(g, 0) /\ ~HasNewTop(g, 0) /\ stack'[g] = << >>
    BY <2>1, ClearStack
  <2>3. Others(g) /\ pc'[g] = "encode" /\ at'[g] = e
    BY <1>1, <2>1 DEF CacheInv, CacheTypeOK, Others
  <2>4. FramesMatch'
    BY <2>2, RestackedMatch DEF MatchInv
  <2>5. MatchInv'
    BY <1>1, <2>3, <2>4, CachesMatch, OthersWant DEF MatchInv
  <2>6. Len(stack[g]) = 1
    <3>1. Len(s) = 0
      BY <1>9
    <3> QED  BY <1>2, <1>7, <3>1
  <2>7. TypeAt(g) = t /\ TypeAt(g)' = t
    BY <1>1, <1>2, <1>3, <1>5, <2>2, <2>3, <2>6 DEF TypeAt, Decoding, Wanted
  <2> QED  BY <1>1, <2>3, <2>5, <2>7, SameMade, NothingForCallers
<1>10. CASE s # << >>
  <2>1. PICK h \in Frames : Gets(h, s[Len(s)], e) /\ Topped(g, s, h)
    BY <1>5, <1>7, <1>8, <1>10, ReturnsIs DEF CacheInv
  <2>2. /\ Len(s) >= 1 /\ UNCHANGED at /\ pc' = [pc EXCEPT ![g] = "build"]
    BY <1>5, <1>7, <1>8, <1>10, ReturnsIs DEF CacheInv
  <2>3. /\ Len(s) \in 1..Len(s) /\ Len(s) <= Len(stack[g]) /\ Len(s) + 1 = Len(stack[g])
        /\ Len(s) \in 1..(Len(stack[g]) - 1) /\ Len(s) \in 1..Len(stack[g])
    <3>1. Len(s) + 1 = Len(stack[g])
      BY <1>2, <1>7
    <3> QED  BY <1>7, <2>2, <3>1
  <2>4. PICK f \in Frames : f = s[Len(s)] /\ f = stack[g][Len(s)]
    BY <1>7, <2>3, ElementOfSeq
  <2>5. Len(f.got) < Len(Parts[f.t])
    <3>1. Below(stack[g][Len(s)], stack[g][Len(s) + 1])
      BY <2>3 DEF CacheInv, StackShape
    <3> QED  BY <1>2, <2>3, <2>4, <3>1 DEF Below, Lacks
  <2>6. e.t = Asked(f) /\ PartsMatch(f.t, f.got)
    <3>1. Len(s) + 1 <= Len(stack[g]) /\ stack[g][Len(s) + 1] = Top(g)
      BY <1>2, <2>3
    <3>2. stack[g][Len(s) + 1].t = Asked(stack[g][Len(s)])
          /\ PartsMatch(stack[g][Len(s)].t, stack[g][Len(s)].got)
      BY <1>2, <2>3, <3>1 DEF MatchInv, FramesMatch
    <3> QED  BY <1>3, <1>5, <2>4, <3>1, <3>2
  <2>7. PartsMatch(h.t, h.got) /\ h.t = f.t /\ h.kind = f.kind
    BY <2>1, <2>4, <2>5, <2>6, GetsMatch DEF Gets
  <2>8. FramesMatch' /\ FirstKept(g)
    <3>1. Topped(g, s, h) /\ h.t = s[Len(s)].t /\ (h.kind = "fields" <=> s[Len(s)].kind = "fields")
      BY <2>1, <2>4, <2>7
    <3> QED  BY <1>7, <2>2, <2>3, <2>7, <3>1, RetopMatch DEF MatchInv
  <2>9. Others(g) /\ pc'[g] = "build"
    BY <1>1, <2>1, <2>2 DEF CacheInv, CacheTypeOK, Topped, Others
  <2>10. MatchInv'
    BY <1>1, <2>8, <2>9, CachesMatch, OthersWant DEF MatchInv
  <2> QED  BY <1>1, <2>8, <2>9, <2>10, SameCall, SameMade, NothingForCallers
<1> QED  BY <1>9, <1>10

LEMMA InitServes == CacheInit => MatchInv /\ Service!ServiceInit
<1> SUFFICES ASSUME CacheInit PROVE MatchInv /\ Service!ServiceInit
  OBVIOUS
<1>1. \A g \in Goroutines : stack[g] = << >> /\ pc[g] = "idle"
  BY DEF CacheInit
<1>2. Len(<< >>) = 0
  OBVIOUS
<1>3. FramesMatch /\ WantMatch
  BY <1>1, <1>2 DEF FramesMatch, WantMatch
<1>4. FieldsMatch /\ PartsOfMatch
  BY NoPartsMatch DEF CacheInit, FieldsMatch, PartsOfMatch
<1>5. Made = {}
  BY DEF CacheInit, Made
<1>6. [g \in Goroutines |-> TypeAt(g)] = [g \in Goroutines |-> "no type"]
  BY <1>1 DEF TypeAt
<1> QED  BY <1>3, <1>4, <1>5, <1>6 DEF MatchInv, Service!ServiceInit, Service!NoType

LEMMA StepServes == CacheInv /\ MatchInv /\ [CacheNext]_vars => MatchInv' /\ ServiceStep
<1> SUFFICES ASSUME CacheInv, MatchInv, [CacheNext]_vars
             PROVE  MatchInv' /\ ServiceStep
  OBVIOUS
<1>1. CASE UNCHANGED vars
  <2>1. FramesMatch' /\ FieldsMatch' /\ PartsOfMatch'
    BY <1>1, SameMatch DEF vars
  <2>2. WantMatch'
    BY <1>1 DEF vars, MatchInv, WantMatch, Top, Asked
  <2>3. Made' = Made /\ [g \in Goroutines |-> TypeAt(g)]' = [g \in Goroutines |-> TypeAt(g)]
    BY <1>1 DEF vars, Made, TypeAt, Decoding, Wanted
  <2> QED  BY <2>1, <2>2, <2>3 DEF MatchInv, ServiceStep, Service!serviceVars
<1>2. ASSUME NEW g \in Goroutines, Step(g) PROVE MatchInv' /\ ServiceStep
  BY <1>2, LoadServes, StorePlaceholderServes, AskPartServes, LoadFieldsServes,
     StoreFieldsServes, DoneServes, PublishServes, EncodePartServes, ReturnServes DEF Step
<1>3. ASSUME NEW g \in Goroutines, NEW t \in Types, Marshal(g, t) \/ Unmarshal(g, t)
      PROVE  MatchInv' /\ ServiceStep
  BY <1>3, MarshalServes, UnmarshalServes
<1> QED  BY <1>1, <1>2, <1>3 DEF CacheNext

-----------------------------------------------------------------------------

(***************************************************************************)
(* The caches implement EncoderService, but for its liveness: values are   *)
(* encoded by encoders of their own type, made once and before they are    *)
(* used, for any types that refer to each other in any way and any number  *)
(* of goroutines (encode.go:217-255, 826-835).                             *)
(***************************************************************************)
THEOREM ImplementsServiceSteps == CacheSpec => Service!ServiceSteps
<1>1. CacheInv /\ MatchInv /\ [CacheNext]_vars => [Service!ServiceNext]_(Service!serviceVars)
  BY StepServes DEF ServiceStep
<1> QED  BY <1>1, InitServes, CacheInitInv, CacheStepInv, StepServes, PTL DEF CacheSpec, Service!ServiceSteps
=============================================================================
