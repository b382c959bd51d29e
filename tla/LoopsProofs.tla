---------------------------- MODULE LoopsProofs -----------------------------
(***************************************************************************)
(* What the loops of module Loops compute, for slices of any length.       *)
(*                                                                         *)
(* A recursive function is known to satisfy its equation only if some      *)
(* function does.  LoopExists gives one, by an induction that SetInduction *)
(* takes from the well-foundedness of the naturals: the induction          *)
(* hypothesis is membership of a set.  LoopsAgree compares two loops.      *)
(* Each loop then has the same lemmas: its equation (...Loop), its type,   *)
(* its value for the empty slice and for a slice with one more element.    *)
(***************************************************************************)
EXTENDS Loops, SequenceTheorems, WellFoundedInduction, TLAPS

\* Induction over the naturals, with a set in the place of a predicate.
LEMMA SetInduction ==
    ASSUME NEW T, 0 \in T, \A n \in Nat : n \in T => n + 1 \in T
    PROVE  Nat \subseteq T
<1> DEFINE bad == Nat \ T
<1> SUFFICES ASSUME bad # {} PROVE FALSE
  OBVIOUS
<1>1. PICK m \in bad : \A y \in bad : ~(<<y, m>> \in OpToRel(<, Nat))
  <2>1. bad \subseteq Nat
    OBVIOUS
  <2> HIDE DEF bad
  <2> QED
    BY <2>1, NatLessThanWellFounded, WFMin
<1>2. \A y \in bad : ~(y < m)
  BY <1>1 DEF OpToRel
<1>3. m \in Nat /\ m # 0
  OBVIOUS
<1>4. m - 1 \in Nat /\ m - 1 < m /\ (m - 1) + 1 = m
  BY <1>3
<1> QED
  BY <1>2, <1>4

\* f[n] is the state of a loop after n of its L steps.
IsLoop(L, base, step, f) ==
    f[0] = base /\ \A n \in 1 .. L : f[n] = step[<<n, f[n - 1]>>]

\* A loop that computes each state from the one before: there is a function that
\* gives the state after every number of steps.
LEMMA LoopExists ==
    ASSUME NEW V, NEW base \in V, NEW L \in Nat,
           NEW step \in [(1 .. L) \X V -> V]
    PROVE  \E f \in [0 .. L -> V] : IsLoop(L, base, step, f)
<1> DEFINE Runs(m, f) == /\ f \in [0 .. m -> V]
                         /\ f[0] = base
                         /\ \A n \in 1 .. m : f[n] = step[<<n, f[n - 1]>>]
           T == {m \in Nat : m <= L => \E f : Runs(m, f)}
<1>1. 0 \in T
  <2> DEFINE g == [n \in 0 .. 0 |-> base]
  <2>1. Runs(0, g)
    OBVIOUS
  <2> QED
    BY <2>1
<1>2. ASSUME NEW m \in Nat, m \in T PROVE m + 1 \in T
  <2> SUFFICES ASSUME m + 1 <= L PROVE \E f : Runs(m + 1, f)
    OBVIOUS
  <2>1. PICK f : Runs(m, f)
    BY <1>2
  <2> DEFINE g == [n \in 0 .. m + 1 |-> IF n = m + 1 THEN step[<<n, f[m]>>] ELSE f[n]]
  <2>2. g \in [0 .. m + 1 -> V]
    <3>1. f[m] \in V /\ m + 1 \in 1 .. L
      BY <2>1
    <3>2. step[<<m + 1, f[m]>>] \in V
      BY <3>1
    <3> QED
      BY <2>1, <3>2
  <2>3. g[0] = base
    BY <2>1
  <2>4. \A n \in 1 .. m + 1 : g[n] = step[<<n, g[n - 1]>>]
    <3> TAKE n \in 1 .. m + 1
    <3>1. n - 1 \in 0 .. m /\ g[n - 1] = f[n - 1]
      OBVIOUS
    <3>2. CASE n = m + 1
      BY <3>1, <3>2
    <3>3. CASE n # m + 1
      BY <3>1, <3>3, <2>1
    <3> QED
      BY <3>2, <3>3
  <2> HIDE DEF g
  <2> QED
    BY <2>2, <2>3, <2>4
<1>3. L \in T
  <2> HIDE DEF T
  <2> QED
    BY <1>1, <1>2, SetInduction
<1>4. PICK f : Runs(L, f)
  BY <1>3
<1> QED
  BY <1>4 DEF IsLoop

\* Two loops that start alike and make like steps of like states agree.
StepsAlike(L, f, g) ==
    f[0] = g[0] /\ \A n \in 1 .. L : f[n - 1] = g[n - 1] => f[n] = g[n]
Agree(L, f, g) == \A n \in 0 .. L : f[n] = g[n]

LEMMA LoopsAgree ==
    ASSUME NEW L \in Nat, NEW f, NEW g, StepsAlike(L, f, g)
    PROVE  Agree(L, f, g)
<1> DEFINE T == {m \in Nat : m <= L => f[m] = g[m]}
<1>1. 0 \in T
  BY DEF StepsAlike
<1>2. ASSUME NEW m \in Nat, m \in T PROVE m + 1 \in T
  <2> SUFFICES ASSUME m + 1 <= L PROVE f[m + 1] = g[m + 1]
    OBVIOUS
  <2>1. m + 1 \in 1 .. L /\ (m + 1) - 1 = m /\ f[m] = g[m]
    BY <1>2
  <2> QED
    BY <2>1 DEF StepsAlike
<1>3. Nat \subseteq T
  <2> HIDE DEF T
  <2> QED
    BY <1>1, <1>2, SetInduction
<1> QED
  BY <1>3 DEF Agree

-----------------------------------------------------------------------------
(* Kept *)

\* f[n] is what the loop has kept after n elements.
KeepsTo(s, keep, f) ==
    /\ f[0] = <<>>
    /\ \A n \in 1 .. Len(s) :
          f[n] = IF s[n] \in keep THEN Append(f[n - 1], s[n]) ELSE f[n - 1]

\* Kept is what such a function ends with.
LEMMA KeptLoop ==
    ASSUME NEW S, NEW s \in Seq(S), NEW keep
    PROVE  \E f \in [0 .. Len(s) -> Seq(S)] :
              KeepsTo(s, keep, f) /\ Kept(s, keep) = f[Len(s)]
<1> DEFINE L == Len(s)
           V == Seq(S)
           step == [x \in (1 .. L) \X V |->
                      IF s[x[1]] \in keep THEN Append(x[2], s[x[1]]) ELSE x[2]]
           Body(f) == [n \in 0 .. L |-> IF n = 0 THEN <<>>
                                        ELSE IF s[n] \in keep THEN Append(f[n - 1], s[n])
                                        ELSE f[n - 1]]
           g == CHOOSE f : f = Body(f)
<1>1. L \in Nat /\ <<>> \in V /\ \A n \in 1 .. L : s[n] \in S
  OBVIOUS
<1>2. step \in [(1 .. L) \X V -> V]
  BY <1>1
<1>3. \A n \in 1 .. L : \A v \in V :
         step[<<n, v>>] = IF s[n] \in keep THEN Append(v, s[n]) ELSE v
  OBVIOUS
<1>4. PICK f \in [0 .. L -> V] : IsLoop(L, <<>>, step, f)
  <2>1. L \in Nat /\ <<>> \in V
    BY <1>1
  <2> HIDE DEF step, L, V
  <2> QED
    BY <2>1, <1>2, LoopExists
<1>5. KeepsTo(s, keep, f)
  <2>1. \A n \in 1 .. L : f[n - 1] \in V
    BY <1>1
  <2> HIDE DEF step, V
  <2> QED
    BY <2>1, <1>3, <1>4 DEF KeepsTo, IsLoop
<1>6. f = Body(f)
  <2>1. ASSUME NEW n \in 0 .. L PROVE f[n] = Body(f)[n]
    <3>1. CASE n = 0
      BY <3>1, <1>5 DEF KeepsTo
    <3>2. CASE n # 0
      <4>1. n \in 1 .. L
        BY <3>2, <1>1
      <4>2. f[n] = IF s[n] \in keep THEN Append(f[n - 1], s[n]) ELSE f[n - 1]
        BY <4>1, <1>5 DEF KeepsTo
      <4> QED
        BY <3>2, <4>2
    <3> QED
      BY <3>1, <3>2
  <2> QED
    BY <2>1
<1>7. g = Body(g)
  <2> HIDE DEF Body
  <2> QED
    BY <1>6
<1>8. KeepsTo(s, keep, g)
  <2> HIDE DEF g
  <2>1. g[0] = <<>>
    BY <1>1, <1>7
  <2>2. ASSUME NEW n \in 1 .. L
        PROVE  g[n] = IF s[n] \in keep THEN Append(g[n - 1], s[n]) ELSE g[n - 1]
    <3>1. n \in 0 .. L /\ n # 0
      BY <1>1
    <3>2. g[n] = Body(g)[n]
      BY <1>7
    <3> QED
      BY <3>1, <3>2
  <2> QED
    BY <2>1, <2>2 DEF KeepsTo
<1>9. Agree(L, f, g)
  <2> HIDE DEF g
  <2>1. StepsAlike(L, f, g)
    BY <1>5, <1>8 DEF KeepsTo, StepsAlike
  <2> HIDE DEF L
  <2> QED
    BY <1>1, <2>1, LoopsAgree
<1>10. Kept(s, keep) = g[L]
  BY DEF Kept
<1> HIDE DEF g
<1> QED
  BY <1>1, <1>5, <1>9, <1>10 DEF Agree

\* It makes a slice of elements of the one it is given,
LEMMA KeptType ==
    ASSUME NEW S, NEW s \in Seq(S), NEW keep
    PROVE  Kept(s, keep) \in Seq(S)
BY KeptLoop

\* an empty one of an empty one,
LEMMA KeptEmpty == ASSUME NEW keep PROVE Kept(<<>>, keep) = <<>>
<1>1. <<>> \in Seq({}) /\ Len(<<>>) = 0
  OBVIOUS
<1>2. \E f \in [0 .. Len(<<>>) -> Seq({})] :
         KeepsTo(<<>>, keep, f) /\ Kept(<<>>, keep) = f[Len(<<>>)]
  BY <1>1, KeptLoop
<1> QED
  BY <1>1, <1>2 DEF KeepsTo

\* and one more element makes a difference at the end only.
LEMMA KeptAppend ==
    ASSUME NEW S, NEW s \in Seq(S), NEW e \in S, NEW keep
    PROVE  Kept(Append(s, e), keep) = IF e \in keep THEN Append(Kept(s, keep), e)
                                                    ELSE Kept(s, keep)
<1> DEFINE t == Append(s, e)
           L == Len(s)
<1>1. /\ t \in Seq(S) /\ Len(t) = L + 1 /\ L \in Nat
      /\ \A n \in 1 .. L : t[n] = s[n]
      /\ t[L + 1] = e
  OBVIOUS
<1>2. PICK f \in [0 .. L -> Seq(S)] : KeepsTo(s, keep, f) /\ Kept(s, keep) = f[L]
  BY KeptLoop
<1>3. PICK g \in [0 .. Len(t) -> Seq(S)] : KeepsTo(t, keep, g) /\ Kept(t, keep) = g[Len(t)]
  <2> HIDE DEF t
  <2> QED
    BY <1>1, KeptLoop
<1> HIDE DEF t, L
<1>4. Agree(L, f, g)
  <2>1. StepsAlike(L, f, g)
    BY <1>1, <1>2, <1>3 DEF KeepsTo, StepsAlike, L
  <2> QED
    BY <1>1, <2>1, LoopsAgree
<1>5. g[L + 1] = IF e \in keep THEN Append(g[L], e) ELSE g[L]
  <2>1. L + 1 \in 1 .. Len(t) /\ (L + 1) - 1 = L
    BY <1>1
  <2> QED
    BY <1>1, <1>3, <2>1 DEF KeepsTo
<1>6. f[L] = g[L]
  BY <1>1, <1>4 DEF Agree
<1> QED
  BY <1>1, <1>2, <1>3, <1>5, <1>6 DEF t

\* If what is to be dropped comes first, the loop keeps the rest as it is.
LEMMA KeptSuffix ==
    ASSUME NEW S, NEW s \in Seq(S), NEW keep, NEW k \in 0 .. Len(s),
           \A i \in 1 .. k : s[i] \notin keep,
           \A i \in k + 1 .. Len(s) : s[i] \in keep
    PROVE  Kept(s, keep) = SubSeq(s, k + 1, Len(s))
<1> DEFINE L == Len(s)
           g == [n \in 0 .. L |-> SubSeq(s, k + 1, n)]
<1>1. PICK f \in [0 .. L -> Seq(S)] : KeepsTo(s, keep, f) /\ Kept(s, keep) = f[L]
  BY KeptLoop
<1>2. L \in Nat /\ k \in Nat
  OBVIOUS
<1>3. \A n \in 0 .. k : SubSeq(s, k + 1, n) = <<>>
  BY <1>2
<1>4. ASSUME NEW n \in 1 .. L, f[n - 1] = g[n - 1] PROVE f[n] = g[n]
  <2>1. n - 1 \in 0 .. L /\ n \in 0 .. L
    BY <1>2
  <2>2. CASE n <= k
    <3>1. f[n] = f[n - 1]
      BY <1>1, <1>2, <2>2 DEF KeepsTo
    <3>2. n - 1 \in 0 .. k /\ n \in 0 .. k
      BY <1>2, <2>2
    <3> QED
      BY <1>3, <1>4, <2>1, <3>1, <3>2
  <2>3. CASE n > k
    <3>1. n \in k + 1 .. Len(s)
      BY <1>2, <2>3
    <3>2. f[n] = Append(f[n - 1], s[n])
      BY <1>1, <3>1 DEF KeepsTo
    <3>3. SubSeq(s, k + 1, n) = Append(SubSeq(s, k + 1, n - 1), s[n])
      <4>1. k + 1 \in 1 .. Len(s) + 1 /\ n - 1 \in k .. Len(s)
        BY <1>2, <3>1
      <4> QED
        BY <1>2, <3>1, <4>1
    <3> QED
      BY <1>4, <2>1, <3>2, <3>3
  <2> QED
    BY <1>2, <2>2, <2>3
<1>5. StepsAlike(L, f, g)
  <2>1. f[0] = g[0]
    BY <1>1, <1>2, <1>3 DEF KeepsTo
  <2> HIDE DEF g
  <2> QED
    BY <1>4, <2>1 DEF StepsAlike
<1>6. Agree(L, f, g)
  <2> HIDE DEF L, g
  <2> QED
    BY <1>2, <1>5, LoopsAgree
<1> QED
  BY <1>1, <1>2, <1>6 DEF Agree

-----------------------------------------------------------------------------
(* Joined *)

\* f[n] is what has been written after n parts.
JoinsTo(ss, f) ==
    f[0] = <<>> /\ \A n \in 1 .. Len(ss) : f[n] = f[n - 1] \o ss[n]

\* Joined is what such a function ends with.
LEMMA JoinedLoop ==
    ASSUME NEW S, NEW ss \in Seq(Seq(S))
    PROVE  \E f \in [0 .. Len(ss) -> Seq(S)] :
              JoinsTo(ss, f) /\ Joined(ss) = f[Len(ss)]
<1> DEFINE L == Len(ss)
           V == Seq(S)
           step == [x \in (1 .. L) \X V |-> x[2] \o ss[x[1]]]
           Body(f) == [n \in 0 .. L |-> IF n = 0 THEN <<>>
                                        ELSE f[n - 1] \o ss[n]]
           g == CHOOSE f : f = Body(f)
<1>1. L \in Nat /\ <<>> \in V /\ \A n \in 1 .. L : ss[n] \in Seq(S)
  OBVIOUS
<1>2. step \in [(1 .. L) \X V -> V]
  BY <1>1
<1>3. \A n \in 1 .. L : \A v \in V : step[<<n, v>>] = v \o ss[n]
  OBVIOUS
<1>4. PICK f \in [0 .. L -> V] : IsLoop(L, <<>>, step, f)
  <2>1. L \in Nat /\ <<>> \in V
    BY <1>1
  <2> HIDE DEF step, L, V
  <2> QED
    BY <2>1, <1>2, LoopExists
<1>5. JoinsTo(ss, f)
  <2>1. L \in Nat
    BY <1>1
  <2> HIDE DEF step, V
  <2>2. \A n \in 1 .. L : f[n - 1] \in V
    <3> HIDE DEF L
    <3> QED
      BY <2>1
  <2> QED
    BY <2>2, <1>3, <1>4 DEF JoinsTo, IsLoop
<1>6. f = Body(f)
  <2>1. ASSUME NEW n \in 0 .. L PROVE f[n] = Body(f)[n]
    <3>1. CASE n = 0
      BY <3>1, <1>5 DEF JoinsTo
    <3>2. CASE n # 0
      <4>1. n \in 1 .. L
        BY <3>2, <1>1
      <4>2. f[n] = f[n - 1] \o ss[n]
        BY <4>1, <1>5 DEF JoinsTo
      <4> QED
        BY <3>2, <4>2
    <3> QED
      BY <3>1, <3>2
  <2> QED
    BY <2>1
<1>7. g = Body(g)
  <2> HIDE DEF Body
  <2> QED
    BY <1>6
<1>8. JoinsTo(ss, g)
  <2> HIDE DEF g
  <2>1. g[0] = <<>>
    BY <1>1, <1>7
  <2>2. ASSUME NEW n \in 1 .. L
        PROVE  g[n] = g[n - 1] \o ss[n]
    <3>1. n \in 0 .. L /\ n # 0
      BY <1>1
    <3>2. g[n] = Body(g)[n]
      BY <1>7
    <3> QED
      BY <3>1, <3>2
  <2> QED
    BY <2>1, <2>2 DEF JoinsTo
<1>9. Agree(L, f, g)
  <2> HIDE DEF g
  <2>1. StepsAlike(L, f, g)
    BY <1>5, <1>8 DEF JoinsTo, StepsAlike
  <2> HIDE DEF L
  <2> QED
    BY <1>1, <2>1, LoopsAgree
<1>10. Joined(ss) = g[L]
  BY DEF Joined
<1> HIDE DEF g
<1> QED
  BY <1>1, <1>5, <1>9, <1>10 DEF Agree

\* The parts are slices of what the whole is a slice of.
LEMMA JoinedType ==
    ASSUME NEW S, NEW ss \in Seq(Seq(S))
    PROVE  Joined(ss) \in Seq(S)
BY JoinedLoop

\* Nothing has been written of no parts.
LEMMA JoinedEmpty == Joined(<<>>) = <<>>
<1>1. <<>> \in Seq(Seq({})) /\ Len(<<>>) = 0
  OBVIOUS
<1>2. \E f \in [0 .. Len(<<>>) -> Seq({})] :
         JoinsTo(<<>>, f) /\ Joined(<<>>) = f[Len(<<>>)]
  BY <1>1, JoinedLoop
<1> QED
  BY <1>1, <1>2 DEF JoinsTo

\* One more part is written after the others.
LEMMA JoinedAppend ==
    ASSUME NEW S, NEW ss \in Seq(Seq(S)), NEW e \in Seq(S)
    PROVE  Joined(Append(ss, e)) = Joined(ss) \o e
<1> DEFINE t == Append(ss, e)
           L == Len(ss)
<1>1. /\ t \in Seq(Seq(S)) /\ Len(t) = L + 1 /\ L \in Nat
      /\ \A n \in 1 .. L : t[n] = ss[n]
      /\ t[L + 1] = e
  OBVIOUS
<1>2. PICK f \in [0 .. L -> Seq(S)] : JoinsTo(ss, f) /\ Joined(ss) = f[L]
  BY JoinedLoop
<1>3. PICK g \in [0 .. Len(t) -> Seq(S)] : JoinsTo(t, g) /\ Joined(t) = g[Len(t)]
  <2> HIDE DEF t
  <2> QED
    BY <1>1, JoinedLoop
<1> HIDE DEF t, L
<1>4. Agree(L, f, g)
  <2>1. StepsAlike(L, f, g)
    <3>1. f[0] = g[0]
      BY <1>2, <1>3 DEF JoinsTo
    <3>2. ASSUME NEW n \in 1 .. L, f[n - 1] = g[n - 1] PROVE f[n] = g[n]
      <4>1. n \in 1 .. Len(ss) /\ n \in 1 .. Len(t) /\ t[n] = ss[n]
        BY <1>1 DEF L
      <4>2. f[n] = f[n - 1] \o ss[n] /\ g[n] = g[n - 1] \o t[n]
        BY <1>2, <1>3, <4>1 DEF JoinsTo
      <4> QED
        BY <3>2, <4>1, <4>2
    <3> QED
      BY <3>1, <3>2 DEF StepsAlike
  <2> QED
    BY <1>1, <2>1, LoopsAgree
<1>5. g[L + 1] = g[L] \o e
  <2>1. L + 1 \in 1 .. Len(t) /\ (L + 1) - 1 = L
    BY <1>1
  <2> QED
    BY <1>1, <1>3, <2>1 DEF JoinsTo
<1>6. f[L] = g[L]
  BY <1>1, <1>4 DEF Agree
<1> QED
  BY <1>1, <1>2, <1>3, <1>5, <1>6 DEF t

\* What part i contributes stands after what the parts before it contribute.
StandsAt(all, pos, part) ==
    /\ pos + Len(part) <= Len(all)
    /\ \A j \in 1 .. Len(part) : all[pos + j] = part[j]

\* A part keeps its place when more is written after it.
LEMMA StandsAtConcat ==
    ASSUME NEW S, NEW all \in Seq(S), NEW pos \in Nat, NEW part \in Seq(S),
           StandsAt(all, pos, part), NEW more \in Seq(S)
    PROVE  StandsAt(all \o more, pos, part)
<1>1. Len(all) \in Nat /\ Len(part) \in Nat /\ Len(more) \in Nat
  OBVIOUS
<1>2. Len(all \o more) = Len(all) + Len(more)
  OBVIOUS
<1>3. ASSUME NEW j \in 1 .. Len(part) PROVE (all \o more)[pos + j] = part[j]
  <2>1. pos + Len(part) <= Len(all) /\ all[pos + j] = part[j]
    BY DEF StandsAt
  <2>2. pos + j \in 1 .. Len(all)
    BY <1>1, <2>1
  <2>3. (all \o more)[pos + j] = all[pos + j]
    BY <2>2
  <2> QED
    BY <2>1, <2>3
<1> QED
  BY <1>1, <1>2, <1>3 DEF StandsAt

\* What is written stands where the writer had got to.
LEMMA StandsAfter ==
    ASSUME NEW S, NEW all \in Seq(S), NEW part \in Seq(S)
    PROVE  StandsAt(all \o part, Len(all), part)
<1>1. Len(all) \in Nat /\ Len(part) \in Nat
  OBVIOUS
<1>2. Len(all \o part) = Len(all) + Len(part)
  OBVIOUS
<1>3. \A j \in 1 .. Len(part) : (all \o part)[Len(all) + j] = part[j]
  BY <1>1
<1> QED
  BY <1>1, <1>2, <1>3 DEF StandsAt

\* Every part stands in the whole where the parts before it end.
LEMMA JoinedAt ==
    ASSUME NEW S, NEW ss \in Seq(Seq(S)), NEW i \in 1 .. Len(ss)
    PROVE  StandsAt(Joined(ss), Len(Joined(SubSeq(ss, 1, i - 1))), ss[i])
<1> DEFINE L == Len(ss)
           pre(n) == SubSeq(ss, 1, n)
           pos == Len(Joined(pre(i - 1)))
           T == {n \in Nat : i + n <= L => StandsAt(Joined(pre(i + n)), pos, ss[i])}
<1>1. L \in Nat /\ i \in Nat /\ i - 1 \in 0 .. L /\ i <= L
  OBVIOUS
<1>2. \A n \in 1 .. L : ss[n] \in Seq(S)
  OBVIOUS
<1>3. \A n \in 0 .. L : pre(n) \in Seq(Seq(S))
  OBVIOUS
<1>4. ASSUME NEW n \in 0 .. L, n + 1 <= L PROVE pre(n + 1) = Append(pre(n), ss[n + 1])
  BY <1>1
<1>5. pre(L) = ss
  OBVIOUS
<1>6. \A n \in 0 .. L : Joined(pre(n)) \in Seq(S)
  <2> HIDE DEF pre, L
  <2> QED
    BY <1>3, JoinedType
<1>7. ASSUME NEW n \in 0 .. L, n + 1 <= L
      PROVE  Joined(pre(n + 1)) = Joined(pre(n)) \o ss[n + 1]
  <2>1. ss[n + 1] \in Seq(S) /\ pre(n) \in Seq(Seq(S))
    BY <1>1, <1>2, <1>3, <1>7
  <2>2. pre(n + 1) = Append(pre(n), ss[n + 1])
    BY <1>4, <1>7
  <2> HIDE DEF pre, L
  <2> QED
    BY <2>1, <2>2, JoinedAppend
<1> HIDE DEF pre
<1>8. pos \in Nat
  <2>1. Joined(pre(i - 1)) \in Seq(S)
    BY <1>1, <1>6
  <2> QED
    BY <2>1
<1>9. 0 \in T
  <2>1. Joined(pre(i)) = Joined(pre(i - 1)) \o ss[i]
    <3>1. (i - 1) + 1 = i /\ (i - 1) + 1 <= L
      BY <1>1
    <3>2. Joined(pre((i - 1) + 1)) = Joined(pre(i - 1)) \o ss[(i - 1) + 1]
      BY <1>1, <1>7, <3>1
    <3> QED
      BY <3>1, <3>2
  <2>2. Joined(pre(i - 1)) \in Seq(S) /\ ss[i] \in Seq(S)
    BY <1>1, <1>2, <1>6
  <2>3. StandsAt(Joined(pre(i - 1)) \o ss[i], pos, ss[i])
    BY <2>2, StandsAfter
  <2>4. i + 0 = i
    BY <1>1
  <2> QED
    BY <2>1, <2>3, <2>4
<1>10. ASSUME NEW n \in Nat, n \in T PROVE n + 1 \in T
  <2> SUFFICES ASSUME i + (n + 1) <= L
               PROVE  StandsAt(Joined(pre(i + (n + 1))), pos, ss[i])
    OBVIOUS
  <2>1. i + n \in 0 .. L /\ (i + n) + 1 <= L /\ (i + n) + 1 = i + (n + 1) /\ (i + n) + 1 \in 1 .. L
    BY <1>1
  <2>2. StandsAt(Joined(pre(i + n)), pos, ss[i])
    BY <1>10, <2>1
  <2>3. Joined(pre(i + n)) \in Seq(S) /\ ss[i] \in Seq(S) /\ ss[(i + n) + 1] \in Seq(S)
    BY <1>1, <1>2, <1>6, <2>1
  <2>4. Joined(pre((i + n) + 1)) = Joined(pre(i + n)) \o ss[(i + n) + 1]
    BY <1>7, <2>1
  <2> HIDE DEF pos
  <2>5. StandsAt(Joined(pre((i + n) + 1)), pos, ss[i])
    BY <1>8, <2>2, <2>3, <2>4, StandsAtConcat
  <2> QED
    BY <2>1, <2>5
<1>11. Nat \subseteq T
  <2> HIDE DEF T
  <2> QED
    BY <1>9, <1>10, SetInduction
<1>12. L - i \in Nat /\ i + (L - i) = L
  BY <1>1
<1>13. StandsAt(Joined(pre(L)), pos, ss[i])
  <2> DEFINE d == L - i
  <2>1. d \in Nat /\ i + d = L /\ i + d <= L
    BY <1>1, <1>12
  <2> HIDE DEF pos, L, d
  <2>2. StandsAt(Joined(pre(i + d)), pos, ss[i])
    BY <1>11, <2>1
  <2> QED
    BY <2>1, <2>2
<1> QED
  BY <1>5, <1>13 DEF pre

-----------------------------------------------------------------------------
(* Pieces *)

\* There is always a last piece.
PieceSeq(S) == Seq(Seq(S)) \ {<<>>}
\* f[n] is the pieces of the first n bytes.
CutsTo(s, sep, f) ==
    f[0] = << <<>> >> /\ \A n \in 1 .. Len(s) : f[n] = Cut(f[n - 1], s[n], sep)

\* A byte never leaves the pieces without a last one.
LEMMA CutType ==
    ASSUME NEW S, NEW v \in PieceSeq(S), NEW e \in S, NEW sep
    PROVE  Cut(v, e, sep) \in PieceSeq(S)
<1>1. v \in Seq(Seq(S)) /\ v # <<>> /\ Len(v) \in 1 .. Len(v) /\ v[Len(v)] \in Seq(S)
  BY DEF PieceSeq
<1>2. Append(v[Len(v)], e) \in Seq(S)
  BY <1>1
<1>3. Append(v, <<>>) \in PieceSeq(S)
  BY <1>1 DEF PieceSeq
<1>4. [v EXCEPT ![Len(v)] = Append(v[Len(v)], e)] \in PieceSeq(S)
  BY <1>1, <1>2, ExceptSeq DEF PieceSeq
<1> QED
  BY <1>3, <1>4 DEF Cut

\* Pieces is what such a function ends with.
LEMMA PiecesLoop ==
    ASSUME NEW S, NEW s \in Seq(S), NEW sep
    PROVE  \E f \in [0 .. Len(s) -> PieceSeq(S)] :
              CutsTo(s, sep, f) /\ Pieces(s, sep) = f[Len(s)]
<1> DEFINE L == Len(s)
           V == PieceSeq(S)
           step == [x \in (1 .. L) \X V |-> Cut(x[2], s[x[1]], sep)]
           Body(f) == [n \in 0 .. L |-> IF n = 0 THEN << <<>> >>
                                        ELSE Cut(f[n - 1], s[n], sep)]
           g == CHOOSE f : f = Body(f)
<1>1. L \in Nat /\ << <<>> >> \in V /\ \A n \in 1 .. L : s[n] \in S
  BY DEF PieceSeq
<1>2. step \in [(1 .. L) \X V -> V]
  BY <1>1, CutType
<1>3. \A n \in 1 .. L : \A v \in V : step[<<n, v>>] = Cut(v, s[n], sep)
  OBVIOUS
<1>4. PICK f \in [0 .. L -> V] : IsLoop(L, << <<>> >>, step, f)
  <2>1. L \in Nat /\ << <<>> >> \in V
    BY <1>1
  <2> HIDE DEF step, L, V
  <2> QED
    BY <2>1, <1>2, LoopExists
<1>5. CutsTo(s, sep, f)
  <2>1. L \in Nat
    BY <1>1
  <2> HIDE DEF step, V
  <2>2. \A n \in 1 .. L : f[n - 1] \in V
    <3> HIDE DEF L
    <3> QED
      BY <2>1
  <2> QED
    BY <2>2, <1>3, <1>4 DEF CutsTo, IsLoop
<1>6. f = Body(f)
  <2>1. ASSUME NEW n \in 0 .. L PROVE f[n] = Body(f)[n]
    <3>1. CASE n = 0
      BY <3>1, <1>5 DEF CutsTo
    <3>2. CASE n # 0
      <4>1. n \in 1 .. L
        BY <3>2, <1>1
      <4>2. f[n] = Cut(f[n - 1], s[n], sep)
        BY <4>1, <1>5 DEF CutsTo
      <4> QED
        BY <3>2, <4>2
    <3> QED
      BY <3>1, <3>2
  <2> QED
    BY <2>1
<1>7. g = Body(g)
  <2> HIDE DEF Body
  <2> QED
    BY <1>6
<1>8. CutsTo(s, sep, g)
  <2> HIDE DEF g
  <2>1. g[0] = << <<>> >>
    BY <1>1, <1>7
  <2>2. ASSUME NEW n \in 1 .. L
        PROVE  g[n] = Cut(g[n - 1], s[n], sep)
    <3>1. n \in 0 .. L /\ n # 0
      BY <1>1
    <3>2. g[n] = Body(g)[n]
      BY <1>7
    <3> QED
      BY <3>1, <3>2
  <2> QED
    BY <2>1, <2>2 DEF CutsTo
<1>9. Agree(L, f, g)
  <2> HIDE DEF g
  <2>1. StepsAlike(L, f, g)
    BY <1>5, <1>8 DEF CutsTo, StepsAlike
  <2> HIDE DEF L
  <2> QED
    BY <1>1, <2>1, LoopsAgree
<1>10. Pieces(s, sep) = g[L]
  BY DEF Pieces
<1> HIDE DEF g
<1> QED
  BY <1>1, <1>5, <1>9, <1>10 DEF Agree

\* The pieces are made of what the slice is made of,
LEMMA PiecesType ==
    ASSUME NEW S, NEW s \in Seq(S), NEW sep
    PROVE  Pieces(s, sep) \in PieceSeq(S)
BY PiecesLoop

\* of no bytes one empty piece is made,
LEMMA PiecesEmpty == ASSUME NEW sep PROVE Pieces(<<>>, sep) = << <<>> >>
<1>1. <<>> \in Seq({}) /\ Len(<<>>) = 0
  OBVIOUS
<1>2. \E f \in [0 .. Len(<<>>) -> PieceSeq({})] :
         CutsTo(<<>>, sep, f) /\ Pieces(<<>>, sep) = f[Len(<<>>)]
  BY <1>1, PiecesLoop
<1> QED
  BY <1>1, <1>2 DEF CutsTo

\* and one more byte concerns the last piece only.
LEMMA PiecesAppend ==
    ASSUME NEW S, NEW s \in Seq(S), NEW sep, NEW e \in S
    PROVE  Pieces(Append(s, e), sep) = Cut(Pieces(s, sep), e, sep)
<1> DEFINE t == Append(s, e)
           L == Len(s)
<1>1. /\ t \in Seq(S) /\ Len(t) = L + 1 /\ L \in Nat
      /\ \A n \in 1 .. L : t[n] = s[n]
      /\ t[L + 1] = e
  OBVIOUS
<1>2. PICK f \in [0 .. L -> PieceSeq(S)] : CutsTo(s, sep, f) /\ Pieces(s, sep) = f[L]
  BY PiecesLoop
<1>3. PICK g \in [0 .. Len(t) -> PieceSeq(S)] : CutsTo(t, sep, g) /\ Pieces(t, sep) = g[Len(t)]
  <2> HIDE DEF t
  <2> QED
    BY <1>1, PiecesLoop
<1> HIDE DEF t, L
<1>4. Agree(L, f, g)
  <2>1. StepsAlike(L, f, g)
    BY <1>1, <1>2, <1>3 DEF CutsTo, StepsAlike, L
  <2> QED
    BY <1>1, <2>1, LoopsAgree
<1>5. g[L + 1] = Cut(g[L], e, sep)
  <2>1. L + 1 \in 1 .. Len(t) /\ (L + 1) - 1 = L
    BY <1>1
  <2> QED
    BY <1>1, <1>3, <2>1 DEF CutsTo
<1>6. f[L] = g[L]
  BY <1>1, <1>4 DEF Agree
<1> QED
  BY <1>1, <1>2, <1>3, <1>5, <1>6 DEF t
=============================================================================
