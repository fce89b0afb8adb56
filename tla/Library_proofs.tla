--------------------------- MODULE Library_proofs ---------------------------
(***************************************************************************)
(* What the proofs of several modules need of the library's operators: the *)
(* highest of a bounded set of numbers, induction up to a number, what a   *)
(* fold over a sequence computes, what sequences hold, and the order that  *)
(* vector clocks put on writes, for every set of stations.                 *)
(***************************************************************************)
EXTENDS VectorClock, Sublists, FiniteSetsExt, WellFoundedInduction, SequenceTheorems,
        FiniteSetTheorems, TLAPS

(***************************************************************************)
(* The highest of a set of numbers is one of them and none is past it.     *)
(***************************************************************************)
Before == {p \in Nat \X Nat : p[1] < p[2]}

LEMMA BeforeIsWellFounded == IsWellFoundedOn(Before, Nat)
BY NatLessThanWellFounded DEF OpToRel, Before

LEMMA MaxBounds ==
    ASSUME NEW S \in SUBSET Nat, S # {}, NEW b \in Nat, \A x \in S : x <= b
    PROVE  Max(S) \in S /\ \A x \in S : x <= Max(S)
<1> DEFINE T == {d \in Nat : b - d \in S}
<1>1. T # {}
  <2>1. PICK x \in S : TRUE
    OBVIOUS
  <2>2. b - x \in Nat /\ b - (b - x) = x
    BY <2>1
  <2> QED BY <2>1, <2>2
<1>2. PICK d \in T : \A e \in T : ~(<<e, d>> \in Before)
  <2> HIDE DEF T
  <2>1. T \in SUBSET Nat
    BY DEF T
  <2> QED BY <1>1, <2>1, BeforeIsWellFounded, WFMin
<1>3. \A x \in S : x <= b - d
  <2> SUFFICES ASSUME NEW x \in S, x > b - d PROVE FALSE
    BY <1>2
  <2>1. b - x \in T /\ b - x < d
    BY <1>2
  <2> QED BY <1>2, <2>1 DEF Before
<1>4. \E x \in S : \A y \in S : x >= y
  BY <1>2, <1>3
<1>5. Max(S) \in S /\ \A y \in S : Max(S) >= y
  BY <1>4, Zenon DEF Max
<1> QED BY <1>5

LEMMA MaxUpTo ==
    ASSUME NEW n \in Nat \ {0}
    PROVE  Max(1..n) = n /\ (1..n) \ {n} = 1..(n - 1)
<1> PICK S : S = 1..n
  OBVIOUS
<1>1. S \in SUBSET Nat /\ S # {} /\ n \in S /\ \A x \in S : x <= n
  OBVIOUS
<1>2. Max(S) \in S /\ \A x \in S : x <= Max(S)
  BY <1>1, MaxBounds
<1> QED BY <1>1, <1>2

(***************************************************************************)
(* Induction up to a number, over a set rather than an operator.           *)
(***************************************************************************)
LEMMA UpTo ==
    ASSUME NEW n \in Nat, NEW T, 0 \in T, \A i \in 1..n : i - 1 \in T => i \in T
    PROVE  0..n \subseteq T
<1> DEFINE F == {i \in 0..n : i \notin T}
<1> SUFFICES F = {}
  OBVIOUS
<1> SUFFICES ASSUME F # {} PROVE FALSE
  OBVIOUS
<1>1. PICK i \in F : \A j \in F : ~(<<j, i>> \in Before)
  <2> HIDE DEF F
  <2>1. F \in SUBSET Nat
    BY DEF F
  <2> QED BY <2>1, BeforeIsWellFounded, WFMin
<1>2. i \in 1..n /\ i - 1 \in 0..n
  OBVIOUS
<1>3. i - 1 \notin F
  <2>1. <<i - 1, i>> \in Before
    BY <1>2 DEF Before
  <2> QED BY <1>1, <2>1
<1> QED BY <1>2, <1>3

(***************************************************************************)
(* The recursion behind a fold has a solution, in the set its steps keep   *)
(* to: F[i] is what the step at place i makes of a value.                  *)
(***************************************************************************)
Solves(g, F, base, n) ==
    g = [s \in SUBSET (1..n) |-> IF s = {} THEN base ELSE F[Max(s)][g[s \ {Max(s)}]]]

LEMMA FoldHasSolution ==
    ASSUME NEW V, NEW n \in Nat, NEW base \in V, NEW F \in [1..n -> [V -> V]]
    PROVE  \E g \in [SUBSET (1..n) -> V] : Solves(g, F, base, n)
<1> DEFINE T == {m \in 0..n : \E g \in [SUBSET (1..m) -> V] : Solves(g, F, base, m)}
<1>1. 0 \in T
  <2> DEFINE g == [s \in SUBSET (1..0) |-> base]
  <2>1. \A s \in SUBSET (1..0) : s = {}
    OBVIOUS
  <2>2. g = [s \in SUBSET (1..0) |-> IF s = {} THEN base ELSE F[Max(s)][g[s \ {Max(s)}]]]
    BY <2>1
  <2>3. g \in [SUBSET (1..0) -> V]
    OBVIOUS
  <2> QED BY <2>2, <2>3 DEF Solves
<1>2. ASSUME NEW m \in 1..n, m - 1 \in T PROVE m \in T
  <2>1. PICK f \in [SUBSET (1..(m - 1)) -> V] : Solves(f, F, base, m - 1)
    BY <1>2
  <2> DEFINE g == [s \in SUBSET (1..m) |-> IF m \in s THEN F[m][f[s \ {m}]] ELSE f[s]]
  <2>2. \A s \in SUBSET (1..m) : /\ m \in s => s \ {m} \in SUBSET (1..(m - 1))
                                 /\ m \notin s => s \in SUBSET (1..(m - 1))
    OBVIOUS
  <2>3. g \in [SUBSET (1..m) -> V]
    <3> SUFFICES ASSUME NEW s \in SUBSET (1..m)
                 PROVE  (IF m \in s THEN F[m][f[s \ {m}]] ELSE f[s]) \in V
      OBVIOUS
    <3> QED BY <2>2
  <2>4. \A s \in SUBSET (1..(m - 1)) : s \in SUBSET (1..m) /\ m \notin s /\ g[s] = f[s]
    OBVIOUS
  <2>5. ASSUME NEW s \in SUBSET (1..m)
        PROVE  g[s] = IF s = {} THEN base ELSE F[Max(s)][g[s \ {Max(s)}]]
    <3>1. CASE m \in s
      <4>1. Max(s) \in s /\ \A x \in s : x <= Max(s)
        <5> HIDE DEF g
        <5>1. s \in SUBSET Nat /\ s # {} /\ m \in Nat /\ \A x \in s : x <= m
          BY <3>1
        <5> QED BY <5>1, MaxBounds
      <4>2. Max(s) = m
        <5> PICK top : top = Max(s)
          OBVIOUS
        <5> HIDE DEF g
        <5>1. top \in 1..m /\ m <= top
          BY <3>1, <4>1
        <5> QED BY <5>1
      <4>3. g[s] = F[m][f[s \ {m}]]
        BY <3>1
      <4>4. g[s \ {m}] = f[s \ {m}]
        BY <2>2, <2>4, <3>1
      <4> HIDE DEF g
      <4> QED BY <3>1, <4>2, <4>3, <4>4
    <3>2. CASE m \notin s
      <4>1. s \in SUBSET (1..(m - 1))
        BY <2>2, <3>2
      <4>2. f[s] = IF s = {} THEN base ELSE F[Max(s)][f[s \ {Max(s)}]]
        BY <2>1, <4>1 DEF Solves
      <4>3. g[s] = f[s] /\ g[s \ {Max(s)}] = f[s \ {Max(s)}]
        <5>1. s \ {Max(s)} \in SUBSET (1..(m - 1))
          BY <4>1
        <5> HIDE DEF g
        <5> QED BY <2>4, <4>1, <5>1
      <4> HIDE DEF g
      <4> QED BY <4>2, <4>3
    <3> QED BY <3>1, <3>2
  <2>6. Solves(g, F, base, m)
    <3> DEFINE G(s) == IF s = {} THEN base ELSE F[Max(s)][g[s \ {Max(s)}]]
    <3>1. g = [s \in SUBSET (1..m) |-> g[s]]
      OBVIOUS
    <3>2. \A s \in SUBSET (1..m) : g[s] = G(s)
      BY <2>5
    <3> HIDE DEF g, G
    <3>3. g = [s \in SUBSET (1..m) |-> G(s)]
      BY <3>1, <3>2
    <3> QED BY <3>3 DEF Solves, G
  <2> HIDE DEF g
  <2> QED BY <2>3, <2>6
<1>3. 0..n \subseteq T
  <2> HIDE DEF T
  <2> QED BY <1>1, <1>2, UpTo
<1>4. n \in T
  <2> HIDE DEF T
  <2> QED BY <1>3
<1> QED BY <1>4

(***************************************************************************)
(* A fold over a sequence is a run of its steps, one to a place.           *)
(***************************************************************************)
FoldedBy(h, F, base, n, V) ==
    /\ h[{}] = base
    /\ \A s \in SUBSET (1..n) : s # {} /\ h[s \ {Max(s)}] \in V
                                 => h[s] = F[Max(s)][h[s \ {Max(s)}]]

Runs(run, F, base, n, last) ==
    /\ run[0] = base /\ run[n] = last
    /\ \A i \in 1..n : run[i] = F[i][run[i - 1]]

LEMMA FoldRuns ==
    ASSUME NEW V, NEW n \in Nat, NEW base \in V, NEW F \in [1..n -> [V -> V]], NEW h,
           FoldedBy(h, F, base, n, V)
    PROVE  \E run \in [0..n -> V] : Runs(run, F, base, n, h[1..n])
<1> USE DEF FoldedBy
<1> DEFINE T == {i \in 0..n : h[1..i] \in V}
<1>1. 1..0 = {} /\ h[1..0] = base
  OBVIOUS
<1>2. ASSUME NEW i \in 1..n, h[1..(i - 1)] \in V
      PROVE  h[1..i] = F[i][h[1..(i - 1)]] /\ h[1..i] \in V
  <2>1. Max(1..i) = i /\ (1..i) \ {i} = 1..(i - 1)
    <3>1. i \in Nat \ {0}
      OBVIOUS
    <3> QED BY <3>1, MaxUpTo
  <2> PICK s : s = 1..i
    OBVIOUS
  <2>2. s \in SUBSET (1..n) /\ s # {} /\ h[s \ {Max(s)}] = h[1..(i - 1)]
    <3>1. i \in s /\ s \in SUBSET (1..n)
      OBVIOUS
    <3>2. s \ {Max(s)} = 1..(i - 1)
      BY <2>1
    <3> QED BY <3>1, <3>2
  <2>3. h[s] = F[Max(s)][h[s \ {Max(s)}]]
    BY <1>2, <2>2
  <2> QED BY <1>2, <2>1, <2>2, <2>3
<1>3. 0..n \subseteq T
  <2>1. 0 \in T
    BY <1>1
  <2>2. \A i \in 1..n : i - 1 \in T => i \in T
    BY <1>2
  <2> HIDE DEF T
  <2> QED BY <2>1, <2>2, UpTo
<1>4. \A i \in 0..n : h[1..i] \in V
  BY <1>3
<1> DEFINE run == [i \in 0..n |-> h[1..i]]
<1>5. run \in [0..n -> V] /\ run[0] = base /\ run[n] = h[1..n]
  BY <1>1, <1>4
<1>6. ASSUME NEW i \in 1..n PROVE run[i] = F[i][run[i - 1]]
  <2>1. i - 1 \in 0..n /\ i \in 0..n
    OBVIOUS
  <2>2. h[1..i] = F[i][h[1..(i - 1)]]
    BY <1>2, <1>4, <2>1
  <2>3. run[i] = h[1..i] /\ run[i - 1] = h[1..(i - 1)]
    BY <2>1
  <2> HIDE DEF run
  <2> QED BY <2>2, <2>3
<1> HIDE DEF run
<1>7. Runs(run, F, base, n, h[1..n])
  BY <1>5, <1>6 DEF Runs
<1> QED BY <1>5, <1>7

-----------------------------------------------------------------------------
(***************************************************************************)
(* Sequences of whatever: what they hold is said apart.                    *)
(***************************************************************************)
IsSeq(s) == \E S : s \in Seq(S)

LEMMA SeqDomain ==
    ASSUME NEW s, IsSeq(s)
    PROVE  Len(s) \in Nat /\ DOMAIN s = 1 .. Len(s)
BY LenProperties DEF IsSeq

LEMMA NothingIsSeq == IsSeq(<<>>) /\ DOMAIN <<>> = {} /\ Len(<<>>) = 0
BY EmptySeq DEF IsSeq

LEMMA AppendedSeq ==
    ASSUME NEW s, IsSeq(s), NEW e
    PROVE  /\ IsSeq(Append(s, e))
           /\ Len(Append(s, e)) = Len(s) + 1
           /\ \A i \in DOMAIN s : Append(s, e)[i] = s[i]
           /\ Append(s, e)[Len(s) + 1] = e
<1>1. PICK S : s \in Seq(S)
  BY DEF IsSeq
<1>2. s \in Seq(S \cup {e})
  BY <1>1, SeqMonotonic
<1>3. DOMAIN s = 1 .. Len(s)
  BY <1>1, LenProperties
<1> QED BY <1>2, <1>3, AppendProperties DEF IsSeq

LEMMA TailSeq ==
    ASSUME NEW s, IsSeq(s), s # <<>>
    PROVE  /\ IsSeq(Tail(s)) /\ 1 \in DOMAIN s /\ Head(s) = s[1]
           /\ \A i \in DOMAIN Tail(s) : i + 1 \in DOMAIN s /\ Tail(s)[i] = s[i + 1]
           /\ \A i \in DOMAIN s : i # 1 => i - 1 \in DOMAIN Tail(s) /\ Tail(s)[i - 1] = s[i]
<1>1. PICK S : s \in Seq(S)
  BY DEF IsSeq
<1>2. /\ Tail(s) \in Seq(S) /\ Len(Tail(s)) = Len(s) - 1
      /\ \A i \in 1 .. Len(Tail(s)) : Tail(s)[i] = s[i + 1]
  BY <1>1, HeadTailProperties
<1>3. /\ Len(s) \in Nat \ {0} /\ DOMAIN s = 1 .. Len(s)
      /\ DOMAIN Tail(s) = 1 .. Len(Tail(s))
  BY <1>1, <1>2, LenProperties, EmptySeq
<1>4. Head(s) = s[1]
  BY <1>1
<1> QED BY <1>2, <1>3, <1>4 DEF IsSeq

LEMMA ConcatSeq ==
    ASSUME NEW s, IsSeq(s), NEW t, IsSeq(t)
    PROVE  /\ IsSeq(s \o t)
           /\ Len(s \o t) = Len(s) + Len(t)
           /\ \A i \in DOMAIN s : i \in DOMAIN (s \o t) /\ (s \o t)[i] = s[i]
           /\ \A i \in DOMAIN t : /\ Len(s) + i \in DOMAIN (s \o t)
                                  /\ (s \o t)[Len(s) + i] = t[i]
           /\ \A i \in DOMAIN (s \o t) :
                 i \in DOMAIN s \/ (i - Len(s) \in DOMAIN t /\ (s \o t)[i] = t[i - Len(s)])
<1>1. PICK S : s \in Seq(S)
  BY DEF IsSeq
<1>2. PICK T : t \in Seq(T)
  BY DEF IsSeq
<1>3. s \in Seq(S \cup T) /\ t \in Seq(S \cup T)
  BY <1>1, <1>2, SeqMonotonic
<1>4. /\ s \o t \in Seq(S \cup T)
      /\ Len(s \o t) = Len(s) + Len(t)
      /\ \A i \in 1 .. Len(s) + Len(t) :
            (s \o t)[i] = IF i <= Len(s) THEN s[i] ELSE t[i - Len(s)]
  BY <1>3, ConcatProperties
<1>5. /\ Len(s) \in Nat /\ Len(t) \in Nat /\ DOMAIN s = 1 .. Len(s) /\ DOMAIN t = 1 .. Len(t)
      /\ DOMAIN (s \o t) = 1 .. Len(s) + Len(t)
  BY <1>3, <1>4, LenProperties
<1> QED BY <1>4, <1>5 DEF IsSeq

LEMMA RangeOfAppended ==
    ASSUME NEW s, IsSeq(s), NEW e
    PROVE  Range(Append(s, e)) = Range(s) \cup {e}
<1>1. /\ Len(s) \in Nat /\ DOMAIN s = 1 .. Len(s)
      /\ DOMAIN Append(s, e) = 1 .. Len(s) + 1
  BY SeqDomain, AppendedSeq
<1> QED BY <1>1, AppendedSeq DEF Range

LEMMA RangeOfTail ==
    ASSUME NEW s, IsSeq(s), s # <<>>
    PROVE  Range(s) = {Head(s)} \cup Range(Tail(s))
<1>1. ASSUME NEW i \in DOMAIN s PROVE s[i] = Head(s) \/ s[i] \in Range(Tail(s))
  <2>1. CASE i = 1
    BY <2>1, TailSeq
  <2>2. CASE i # 1
    BY <2>2, TailSeq DEF Range
  <2> QED BY <2>1, <2>2
<1>2. Head(s) \in Range(s) /\ \A x \in Range(Tail(s)) : x \in Range(s)
  BY TailSeq DEF Range
<1> QED BY <1>1, <1>2 DEF Range

LEMMA RangeOfConcat ==
    ASSUME NEW s, IsSeq(s), NEW t, IsSeq(t)
    PROVE  Range(s \o t) = Range(s) \cup Range(t)
<1>1. PICK S : s \in Seq(S)
  BY DEF IsSeq
<1>2. PICK T : t \in Seq(T)
  BY DEF IsSeq
<1>3. s \in Seq(S \cup T) /\ t \in Seq(S \cup T)
  BY <1>1, <1>2, SeqMonotonic
<1> QED BY <1>3, RangeConcatenation

-----------------------------------------------------------------------------
(***************************************************************************)
(* What a filter keeps of a sequence, and a set as a sequence.             *)
(***************************************************************************)

(***************************************************************************)
(* One more, that was not there.                                           *)
(***************************************************************************)
LEMMA OnceMore ==
    ASSUME NEW V, NEW s \in Seq(V), IsInjective(s), NEW x \in V, x \notin Range(s),
           NEW a, a = Append(s, x)
    PROVE  IsInjective(a)
<1>1. /\ Len(s) \in Nat /\ DOMAIN s = 1 .. Len(s) /\ DOMAIN a = 1 .. Len(s) + 1
      /\ \A i \in DOMAIN s : a[i] = s[i] /\ s[i] # x
      /\ a[Len(s) + 1] = x
  BY AppendProperties, LenProperties DEF Range
<1>2. ASSUME NEW k \in DOMAIN a, NEW l \in DOMAIN a, a[k] = a[l] PROVE k = l
  <2>1. (k \in DOMAIN s \/ k = Len(s) + 1) /\ (l \in DOMAIN s \/ l = Len(s) + 1)
    BY <1>1
  <2>2. CASE k \in DOMAIN s /\ l \in DOMAIN s
    BY <1>1, <1>2, <2>2 DEF IsInjective
  <2> QED BY <1>1, <1>2, <2>1, <2>2
<1> QED BY <1>2, Zenon DEF IsInjective

AmongRun(run, S, s, n) ==
    /\ run[0] = <<>> /\ run[n] = Among(S, s)
    /\ \A i \in 1..n : run[i] = AmongStep(S, run[i - 1], s[i])

LEMMA AmongRuns ==
    ASSUME NEW V, NEW S, NEW s \in Seq(V), NEW n, n = Len(s)
    PROVE  \E run \in [0..n -> Seq(V)] : AmongRun(run, S, s, n)
<1>1. n \in Nat /\ DOMAIN s = 1..n /\ \A i \in 1..n : s[i] \in V
  BY LenProperties, ElementOfSeq
<1>2. <<>> \in Seq(V) /\ \A x \in Seq(V) : \A i \in 1..n : AmongStep(S, x, s[i]) \in Seq(V)
  BY <1>1, EmptySeq DEF AmongStep
<1> DEFINE Body(f, m) == [i \in 0..m |-> IF i = 0 THEN <<>> ELSE AmongStep(S, f[i - 1], s[i])]
           T == {m \in 0..n : \E f \in [0..m -> Seq(V)] : f = Body(f, m)}
<1>3. 0 \in T
  <2> DEFINE f == [i \in 0..0 |-> <<>>]
  <2>1. f \in [0..0 -> Seq(V)]
    BY <1>2
  <2>2. \A i \in 0..0 : i = 0
    OBVIOUS
  <2>3. f = Body(f, 0)
    BY <2>2
  <2> HIDE DEF f, Body
  <2> QED BY <1>1, <2>1, <2>3
<1>4. ASSUME NEW m \in 1..n, m - 1 \in T PROVE m \in T
  <2>1. PICK f \in [0..(m - 1) -> Seq(V)] : f = Body(f, m - 1)
    BY <1>4
  <2> DEFINE g == [i \in 0..m |-> IF i = m THEN AmongStep(S, f[m - 1], s[m]) ELSE f[i]]
  <2>2. m - 1 \in 0..(m - 1) /\ \A i \in 0..m : i # m => i \in 0..(m - 1)
    BY <1>1
  <2>3. g \in [0..m -> Seq(V)]
    BY <1>2, <2>1, <2>2
  <2>4. \A i \in 0..(m - 1) : g[i] = f[i] /\ i \in 0..m /\ i # m
    BY <1>1
  <2>5. \A i \in 0..(m - 1) : f[i] = IF i = 0 THEN <<>> ELSE AmongStep(S, f[i - 1], s[i])
    BY <2>1
  <2>6. ASSUME NEW i \in 0..m PROVE g[i] = IF i = 0 THEN <<>> ELSE AmongStep(S, g[i - 1], s[i])
    <3>1. CASE i = m
      BY <1>1, <2>2, <2>4, <3>1
    <3>2. CASE i # m
      <4>1. i \in 0..(m - 1) /\ (i # 0 => i - 1 \in 0..(m - 1))
        BY <1>1, <3>2
      <4> HIDE DEF g
      <4> QED BY <2>4, <2>5, <4>1
    <3> QED BY <3>1, <3>2
  <2>7. g = Body(g, m)
    <3>1. g = [i \in 0..m |-> g[i]]
      OBVIOUS
    <3> HIDE DEF g
    <3> QED BY <2>6, <3>1
  <2> HIDE DEF g, Body
  <2> QED BY <2>3, <2>7
<1>5. n \in T
  <2> HIDE DEF T
  <2>1. 0..n \subseteq T
    BY <1>1, <1>3, <1>4, UpTo
  <2> QED BY <1>1, <2>1
<1>6. PICK run : run = (CHOOSE f : f = Body(f, n))
  OBVIOUS
<1>7. run = Body(run, n)
  <2>1. \E f : f = Body(f, n)
    BY <1>5
  <2> HIDE DEF Body, T
  <2> QED BY <1>6, <2>1, Zenon
<1>8. Among(S, s) = run[n]
  BY <1>1, <1>6, Zenon DEF Among
<1>9. /\ DOMAIN run = 0..n /\ run = [i \in 0..n |-> run[i]]
      /\ run[0] = <<>> /\ \A i \in 1..n : run[i] = AmongStep(S, run[i - 1], s[i])
  BY <1>1, <1>7
<1>10. run \in [0..n -> Seq(V)]
  <2> DEFINE U == {i \in 0..n : run[i] \in Seq(V)}
  <2>1. 0 \in U
    <3>1. 0 \in 0..n
      BY <1>1
    <3> QED BY <1>2, <1>9, <3>1
  <2>2. ASSUME NEW i \in 1..n, i - 1 \in U PROVE i \in U
    <3>1. run[i] = AmongStep(S, run[i - 1], s[i])
      BY <1>9, <2>2
    <3>2. run[i - 1] \in Seq(V)
      BY <2>2
    <3>3. AmongStep(S, run[i - 1], s[i]) \in Seq(V)
      BY <1>2, <3>2
    <3>4. i \in 0..n
      BY <1>1, <2>2
    <3> QED BY <3>1, <3>3, <3>4
  <2> HIDE DEF U
  <2>3. 0..n \subseteq U
    BY <1>1, <2>1, <2>2, UpTo
  <2> QED BY <1>9, <2>3 DEF U
<1>11. AmongRun(run, S, s, n)
  BY <1>8, <1>9 DEF AmongRun
<1> QED BY <1>10, <1>11

(***************************************************************************)
(* What is in S is all that is left, and no more often than before.        *)
(***************************************************************************)
LEMMA AmongHas ==
    ASSUME NEW V, NEW S, NEW s \in Seq(V)
    PROVE  /\ Among(S, s) \in Seq(V)
           /\ Range(Among(S, s)) = Range(s) \cap S
           /\ IsInjective(s) => IsInjective(Among(S, s))
<1> PICK n : n = Len(s)
  OBVIOUS
<1>1. n \in Nat /\ DOMAIN s = 1..n /\ \A i \in 1..n : s[i] \in V
  BY LenProperties, ElementOfSeq
<1>2. PICK run \in [0..n -> Seq(V)] : AmongRun(run, S, s, n)
  BY AmongRuns, Zenon
<1> DEFINE T == {i \in 0..n : /\ Range(run[i]) = {s[k] : k \in 1..i} \cap S
                              /\ IsInjective(s) => IsInjective(run[i])}
<1>3. 0 \in T
  <2>1. Range(<<>>) = {} /\ IsInjective(<<>>) /\ {s[k] : k \in 1..0} = {}
    BY DEF Range, IsInjective
  <2> QED BY <1>1, <1>2, <2>1 DEF AmongRun
<1>4. ASSUME NEW i \in 1..n, i - 1 \in T PROVE i \in T
  <2>1. i - 1 \in 0..n /\ i \in 0..n /\ run[i - 1] \in Seq(V) /\ s[i] \in V
    BY <1>1
  <2>2. /\ Range(run[i - 1]) = {s[k] : k \in 1..(i - 1)} \cap S
        /\ IsInjective(s) => IsInjective(run[i - 1])
    BY <1>4
  <2>3. {s[k] : k \in 1..i} = {s[k] : k \in 1..(i - 1)} \cup {s[i]}
    <3>1. \A k \in 1..i : k = i \/ k \in 1..(i - 1)
      OBVIOUS
    <3>2. i \in 1..i /\ \A k \in 1..(i - 1) : k \in 1..i
      OBVIOUS
    <3> QED BY <3>1, <3>2
  <2> PICK q \in Seq(V) : q = run[i - 1]
    BY <2>1
  <2> PICK x \in V : x = s[i]
    BY <2>1
  <2>4. run[i] = IF x \in S THEN Append(q, x) ELSE q
    BY <1>2 DEF AmongRun, AmongStep
  <2>5. /\ Len(q) \in Nat /\ DOMAIN q = 1..Len(q)
        /\ DOMAIN Append(q, x) = 1 .. Len(q) + 1
        /\ \A k \in 1..Len(q) : Append(q, x)[k] = q[k]
        /\ Append(q, x)[Len(q) + 1] = x
    BY AppendProperties, LenProperties
  <2>6. Range(Append(q, x)) = Range(q) \cup {x}
    BY <2>5 DEF Range
  <2>7. Range(run[i]) = {s[k] : k \in 1..i} \cap S
    <3>1. CASE x \in S
      BY <2>2, <2>3, <2>4, <2>6, <3>1
    <3>2. CASE x \notin S
      BY <2>2, <2>3, <2>4, <3>2
    <3> QED BY <3>1, <3>2
  <2>8. ASSUME IsInjective(s) PROVE IsInjective(run[i])
    <3>1. x \notin Range(q)
      <4> SUFFICES ASSUME NEW k \in 1..(i - 1) PROVE s[k] # s[i]
        BY <2>2
      <4>1. k \in 1..n /\ k # i
        BY <1>1
      <4> QED BY <1>1, <2>8, <4>1 DEF IsInjective
    <3>2. IsInjective(q)
      BY <2>2, <2>8
    <3>3. x \in S => IsInjective(run[i])
      BY <2>4, <3>1, <3>2, OnceMore
    <3> QED BY <2>4, <3>2, <3>3
  <2> HIDE DEF T
  <2> QED BY <2>1, <2>7, <2>8 DEF T
<1>5. 0..n \subseteq T
  <2> HIDE DEF T
  <2> QED BY <1>1, <1>3, <1>4, UpTo
<1>6. n \in T
  <2> HIDE DEF T
  <2> QED BY <1>1, <1>5
<1>7. Range(s) = {s[k] : k \in 1..n}
  BY <1>1 DEF Range
<1> QED BY <1>1, <1>2, <1>6, <1>7 DEF AmongRun

(***************************************************************************)
(* Nothing is left out of a sequence all in S, and what comes after it and *)
(* is not in S is.                                                         *)
(***************************************************************************)
LEMMA AmongPrefix ==
    ASSUME NEW V, NEW S, NEW s \in Seq(V), NEW t \in Seq(V), Len(t) <= Len(s),
           \A i \in 1..Len(t) : s[i] = t[i] /\ t[i] \in S,
           \A i \in 1..Len(s) : i > Len(t) => s[i] \notin S
    PROVE  Among(S, s) = t
<1> PICK n : n = Len(s)
  OBVIOUS
<1> PICK m : m = Len(t)
  OBVIOUS
<1>1. n \in Nat /\ m \in Nat /\ m <= n /\ DOMAIN s = 1..n /\ DOMAIN t = 1..m
  BY LenProperties
<1>2. PICK run \in [0..n -> Seq(V)] : AmongRun(run, S, s, n)
  BY AmongRuns, Zenon
<1> DEFINE least(i) == IF i <= m THEN i ELSE m
<1> DEFINE T == {i \in 0..n : /\ Len(run[i]) = least(i)
                              /\ \A k \in 1..least(i) : run[i][k] = t[k]}
<1>3. 0 \in T
  <2>1. least(0) = 0 /\ Len(<<>>) = 0 /\ 1..0 = {}
    BY <1>1
  <2> QED BY <1>1, <1>2, <2>1 DEF AmongRun
<1>4. ASSUME NEW i \in 1..n, i - 1 \in T PROVE i \in T
  <2>1. i - 1 \in 0..n /\ i \in 0..n /\ i \in Nat \ {0}
    BY <1>1
  <2> HIDE DEF T, least
  <2>2. Len(run[i - 1]) = least(i - 1) /\ \A k \in 1..least(i - 1) : run[i - 1][k] = t[k]
    BY <1>4 DEF T
  <2> PICK q \in Seq(V) : q = run[i - 1]
    BY <2>1
  <2>3. run[i] = IF s[i] \in S THEN Append(q, s[i]) ELSE q
    BY <1>2 DEF AmongRun, AmongStep
  <2>4. CASE i <= m
    <3>1. s[i] = t[i] /\ t[i] \in S /\ least(i - 1) = i - 1 /\ least(i) = i /\ t[i] \in V
      BY <1>1, <2>1, <2>4, ElementOfSeq DEF least
    <3>2. Len(Append(q, t[i])) = i /\ (\A k \in 1..(i - 1) : Append(q, t[i])[k] = q[k])
          /\ Append(q, t[i])[i] = t[i]
      BY <2>1, <2>2, <3>1, AppendProperties
    <3>3. \A k \in 1..i : run[i][k] = t[k]
      BY <2>2, <2>3, <3>1, <3>2
    <3> QED BY <2>1, <2>3, <3>1, <3>2, <3>3 DEF T
  <2>5. CASE i > m
    <3>1. s[i] \notin S /\ least(i - 1) = m /\ least(i) = m
      BY <1>1, <2>1, <2>5 DEF least
    <3> QED BY <2>1, <2>2, <2>3, <3>1 DEF T
  <2> QED BY <1>1, <2>1, <2>4, <2>5
<1>5. 0..n \subseteq T
  <2> HIDE DEF T
  <2> QED BY <1>1, <1>3, <1>4, UpTo
<1>6. n \in T
  <2> HIDE DEF T
  <2> QED BY <1>1, <1>5
<1>7. Len(run[n]) = m /\ \A k \in 1..m : run[n][k] = t[k]
  BY <1>1, <1>6
<1>8. run[n] \in Seq(V)
  BY <1>1
<1> HIDE DEF T
<1>9. run[n] = Among(S, s)
  BY <1>2 DEF AmongRun
<1> QED BY <1>1, <1>7, <1>8, <1>9, SeqEqual

(***************************************************************************)
(* What is kept comes from places in the order of the list, and every      *)
(* place of the list that is in S is one of them.                          *)
(***************************************************************************)
Picks(e, S, s, t) ==
    /\ e \in [DOMAIN t -> DOMAIN s]
    /\ \A i \in DOMAIN t : t[i] = s[e[i]] /\ s[e[i]] \in S
    /\ \A i, j \in DOMAIN t : i < j => e[i] < e[j]
    /\ \A k \in DOMAIN s : s[k] \in S => \E i \in DOMAIN t : e[i] = k

LEMMA AmongPicks ==
    ASSUME NEW V, NEW S, NEW s \in Seq(V)
    PROVE  \E e : Picks(e, S, s, Among(S, s))
<1> PICK n : n = Len(s)
  OBVIOUS
<1>1. n \in Nat /\ DOMAIN s = 1..n /\ \A i \in 1..n : s[i] \in V
  BY LenProperties, ElementOfSeq
<1>2. PICK run \in [0..n -> Seq(V)] : AmongRun(run, S, s, n)
  BY AmongRuns, Zenon
<1> DEFINE P(e, i, t) ==
              /\ e \in [DOMAIN t -> 1..i]
              /\ \A j \in DOMAIN t : t[j] = s[e[j]] /\ s[e[j]] \in S
              /\ \A j, k \in DOMAIN t : j < k => e[j] < e[k]
              /\ \A k \in 1..i : s[k] \in S => \E j \in DOMAIN t : e[j] = k
           T == {i \in 0..n : \E e : P(e, i, run[i])}
<1>3. 0 \in T
  <2>1. DOMAIN <<>> = {} /\ 1..0 = {} /\ 0 \in 0..n
    BY <1>1
  <2>2. P(<<>>, 0, <<>>)
    <3>1. <<>> \in [DOMAIN <<>> -> 1..0]
      BY <2>1
    <3> QED BY <2>1, <3>1
  <2>3. run[0] = <<>>
    BY <1>2 DEF AmongRun
  <2> HIDE DEF P
  <2> QED BY <2>1, <2>2, <2>3
<1>4. ASSUME NEW i \in 1..n, i - 1 \in T PROVE i \in T
  <2>1. i - 1 \in 0..n /\ i \in 0..n /\ i \in Nat \ {0}
    BY <1>1
  <2> PICK q \in Seq(V) : q = run[i - 1]
    BY <2>1
  <2>2. PICK e : P(e, i - 1, q)
    BY <1>4
  <2>3. run[i] = IF s[i] \in S THEN Append(q, s[i]) ELSE q
    BY <1>2 DEF AmongRun, AmongStep
  <2>4. \A k \in 1..i : k = i \/ k \in 1..(i - 1)
    OBVIOUS
  <2>5. CASE s[i] \notin S
    <3>1. P(e, i, q)
      <4>1. e \in [DOMAIN q -> 1..i]
        <5>1. \A j \in DOMAIN q : e[j] \in 1..i
          BY <2>2, <2>1
        <5> QED BY <2>2, <5>1
      <4> QED BY <2>2, <2>4, <2>5, <4>1
    <3> HIDE DEF P
    <3> QED BY <2>1, <2>3, <2>5, <3>1
  <2>6. CASE s[i] \in S
    <3> PICK m : m = Len(q)
      OBVIOUS
    <3> PICK t : t = Append(q, s[i])
      OBVIOUS
    <3>1. /\ m \in Nat /\ DOMAIN q = 1..m /\ DOMAIN t = 1..(m + 1)
          /\ \A j \in 1..m : t[j] = q[j]
          /\ t[m + 1] = s[i]
      BY <1>1, AppendProperties, LenProperties
    <3> DEFINE f == [j \in 1..(m + 1) |-> IF j = m + 1 THEN i ELSE e[j]]
    <3>2. \A j \in 1..(m + 1) : j = m + 1 \/ j \in 1..m
      BY <3>1
    <3>3. (\A j \in 1..m : f[j] = e[j] /\ f[j] \in 1..(i - 1) /\ j # m + 1) /\ f[m + 1] = i
      BY <2>2, <3>1
    <3>4. DOMAIN f = 1..(m + 1) /\ f = [j \in 1..(m + 1) |-> f[j]]
      OBVIOUS
    <3> HIDE DEF f
    <3>5. f \in [DOMAIN t -> 1..i]
      <4>1. \A j \in 1..(m + 1) : f[j] \in 1..i
        BY <2>1, <3>2, <3>3
      <4> QED BY <3>1, <3>4, <4>1
    <3>6. \A j \in DOMAIN t : t[j] = s[f[j]] /\ s[f[j]] \in S
      BY <2>2, <2>6, <3>1, <3>2, <3>3
    <3>7. ASSUME NEW j \in DOMAIN t, NEW k \in DOMAIN t, j < k PROVE f[j] < f[k]
      <4>1. j \in 1..m
        BY <3>1, <3>7
      <4>2. CASE k = m + 1
        BY <2>1, <3>3, <4>1, <4>2
      <4>3. CASE k \in 1..m
        BY <2>2, <3>1, <3>3, <3>7, <4>1, <4>3
      <4> QED BY <3>1, <3>2, <4>2, <4>3
    <3>8. ASSUME NEW k \in 1..i, s[k] \in S PROVE \E j \in DOMAIN t : f[j] = k
      <4>1. CASE k = i
        <5>1. m + 1 \in DOMAIN t
          BY <3>1
        <5> QED BY <3>3, <4>1, <5>1
      <4>2. CASE k \in 1..(i - 1)
        <5>1. PICK j \in DOMAIN q : e[j] = k
          BY <2>2, <3>8, <4>2
        <5>2. j \in DOMAIN t
          BY <3>1
        <5> QED BY <3>1, <3>3, <5>1, <5>2
      <4> QED BY <2>4, <4>1, <4>2
    <3>9. P(f, i, t)
      BY <3>5, <3>6, <3>7, <3>8
    <3> HIDE DEF P
    <3> QED BY <2>1, <2>3, <2>6, <3>9
  <2> QED BY <2>5, <2>6
<1>5. n \in T
  <2> HIDE DEF T
  <2>1. 0..n \subseteq T
    BY <1>1, <1>3, <1>4, UpTo
  <2> QED BY <1>1, <2>1
<1>6. PICK e : P(e, n, run[n])
  <2> HIDE DEF P
  <2> QED BY <1>5
<1>7. Picks(e, S, s, run[n])
  BY <1>1, <1>6 DEF Picks
<1>8. run[n] = Among(S, s)
  BY <1>2 DEF AmongRun
<1> HIDE DEF P, T
<1> QED BY <1>7, <1>8

(***************************************************************************)
(* A list that all but one of its places are kept of is one shorter.       *)
(***************************************************************************)
LEMMA AmongLoses ==
    ASSUME NEW V, NEW S, NEW s \in Seq(V), NEW k, \A i \in DOMAIN s : s[i] \notin S => i = k
    PROVE  Len(Among(S, s)) >= Len(s) - 1
<1> PICK n : n = Len(s)
  OBVIOUS
<1>1. n \in Nat /\ DOMAIN s = 1..n /\ \A i \in 1..n : s[i] \in V
  BY LenProperties, ElementOfSeq
<1>2. PICK run \in [0..n -> Seq(V)] : AmongRun(run, S, s, n)
  BY AmongRuns, Zenon
<1> DEFINE T == {i \in 0..n : Len(run[i]) >= IF k \in 1..i THEN i - 1 ELSE i}
<1>3. 0 \in T
  <2>1. Len(<<>>) = 0 /\ run[0] = <<>> /\ 0 \in 0..n
    BY <1>1, <1>2 DEF AmongRun
  <2> QED BY <2>1
<1>4. ASSUME NEW i \in 1..n, i - 1 \in T PROVE i \in T
  <2>1. i - 1 \in 0..n /\ i \in 0..n /\ i \in Nat \ {0} /\ s[i] \in V
    BY <1>1
  <2> PICK q \in Seq(V) : q = run[i - 1]
    BY <2>1
  <2>2. run[i] = IF s[i] \in S THEN Append(q, s[i]) ELSE q
    BY <1>2 DEF AmongRun, AmongStep
  <2>3. Len(q) \in Nat /\ Len(Append(q, s[i])) = Len(q) + 1
    BY <2>1, AppendProperties, LenProperties
  <2>4. Len(q) >= IF k \in 1..(i - 1) THEN i - 2 ELSE i - 1
    BY <1>4, <2>1
  <2>5. CASE s[i] \in S
    <3>1. Len(run[i]) = Len(q) + 1
      BY <2>2, <2>3, <2>5
    <3>2. k \in 1..(i - 1) => k \in 1..i
      OBVIOUS
    <3> QED BY <2>1, <2>3, <2>4, <3>1, <3>2
  <2>6. CASE s[i] \notin S
    <3>1. i = k
      BY <1>1, <2>6
    <3>2. run[i] = q /\ k \in 1..i /\ k \notin 1..(i - 1)
      BY <2>1, <2>2, <2>6, <3>1
    <3> QED BY <2>1, <2>3, <2>4, <3>2
  <2> QED BY <2>5, <2>6
<1>5. n \in T
  <2> HIDE DEF T
  <2>1. 0..n \subseteq T
    BY <1>1, <1>3, <1>4, UpTo
  <2> QED BY <1>1, <2>1
<1>6. Among(S, s) = run[n] /\ run[n] \in Seq(V)
  BY <1>1, <1>2 DEF AmongRun
<1>7. Len(run[n]) \in Nat
  BY <1>6, LenProperties
<1>8. Len(run[n]) >= n - 1
  BY <1>1, <1>5, <1>7
<1> QED BY <1>6, <1>8

(***************************************************************************)
(* A finite set is listed whole, and once.                                 *)
(***************************************************************************)
LEMMA SetListed ==
    ASSUME NEW S, IsFiniteSet(S)
    PROVE  /\ SetToSeq(S) \in Seq(S)
           /\ IsInjective(SetToSeq(S))
           /\ Range(SetToSeq(S)) = S
<1> PICK n : n = Cardinality(S)
  OBVIOUS
<1>1. n \in Nat /\ ExistsBijection(1 .. n, S)
  BY FS_CardinalityType
<1>2. PICK f \in Injection(1 .. n, S) : TRUE
  BY <1>1 DEF ExistsBijection, Bijection
<1>3. f \in [1 .. n -> S] /\ IsInjective(f)
  BY <1>2 DEF Injection
<1> PICK g : g = SetToSeq(S)
  OBVIOUS
<1>4. g \in [1 .. n -> S] /\ IsInjective(g)
  BY <1>3, Zenon DEF SetToSeq
<1>5. IsFiniteSet(1 .. n) /\ Cardinality(1 .. n) = n
  BY <1>1, FS_Interval
<1>6. g \in Injection(1 .. n, S)
  BY <1>4 DEF Injection
<1>7. g \in Surjection(1 .. n, S)
  BY <1>5, <1>6, FS_Injection
<1>8. Range(g) = S
  <2>1. \A x \in S : \E i \in 1 .. n : g[i] = x
    BY <1>7, Zenon DEF Surjection
  <2> QED BY <1>4, <2>1 DEF Range
<1>9. g \in Seq(S)
  BY <1>1, <1>4
<1> QED BY <1>4, <1>8, <1>9

LEMMA NothingListed == SetToSeq({}) = <<>>
<1>1. IsFiniteSet({})
  BY FS_EmptySet
<1>2. SetToSeq({}) \in Seq({})
  BY <1>1, SetListed
<1>3. Len(SetToSeq({})) = 0
  <2> PICK s \in Seq({}) : s = SetToSeq({})
    BY <1>2
  <2> SUFFICES ASSUME Len(s) # 0 PROVE FALSE
    OBVIOUS
  <2>1. 1 \in 1 .. Len(s)
    BY LenProperties
  <2> QED BY <2>1, ElementOfSeq
<1> QED BY <1>2, <1>3, EmptySeq

(***************************************************************************)
(* The order that vector clocks put on writes.                             *)
(***************************************************************************)
\* Counting gives a clock of the same stations (VectorClock::increment).
LEMMA IncrementType ==
    ASSUME NEW S, NEW n \in S, NEW c \in Clock(S)
    PROVE  Increment(c, n) \in Clock(S)
BY DEF Increment, Clock

\* Merging gives a clock of the same stations (VectorClock::merge).
LEMMA MergeType ==
    ASSUME NEW S, NEW c \in Clock(S), NEW d \in Clock(S)
    PROVE  Merge(c, d) \in Clock(S)
BY DEF Merge, Clock

\* Being nowhere ahead is transitive.
LEMMA LeqTransitive ==
    ASSUME NEW S, NEW c \in Clock(S), NEW d \in Clock(S), NEW e \in Clock(S),
           LeqClock(c, d), LeqClock(d, e)
    PROVE  LeqClock(c, e)
<1> SUFFICES ASSUME NEW n \in S PROVE c[n] <= e[n]
    BY DEF LeqClock, Clock
<1>1. c[n] <= d[n] /\ d[n] <= e[n]
    BY DEF LeqClock, Clock
<1>2. c[n] \in Nat /\ d[n] \in Nat /\ e[n] \in Nat
    BY DEF Clock
<1> QED BY <1>1, <1>2

\* A clock is nowhere ahead of itself.
LEMMA LeqReflexive ==
    ASSUME NEW S, NEW c \in Clock(S)
    PROVE  LeqClock(c, c)
BY DEF LeqClock, Clock

\* Counting puts a clock strictly after what it was: a station's next write
\* is causally after everything its clock covers.
LEMMA IncrementAfter ==
    ASSUME NEW S, NEW n \in S, NEW c \in Clock(S)
    PROVE  HappensBefore(c, Increment(c, n))
<1>1. \A m \in S : c[m] \in Nat
    BY DEF Clock
<1>2. \A m \in S : Increment(c, n)[m] = IF m = n THEN c[m] + 1 ELSE c[m]
    BY DEF Increment, Clock
<1>3. DOMAIN c = S
    BY DEF Clock
<1> QED BY <1>1, <1>2, <1>3 DEF HappensBefore, LeqClock

\* What a clock covers, it still covers after counting.
LEMMA LeqIncrement ==
    ASSUME NEW S, NEW n \in S, NEW c \in Clock(S), NEW d \in Clock(S),
           LeqClock(c, d)
    PROVE  LeqClock(c, Increment(d, n))
<1>1. LeqClock(d, Increment(d, n))
    BY IncrementAfter DEF HappensBefore
<1> QED BY <1>1, LeqTransitive, IncrementType

\* A merged clock covers both of what it was merged from, and nothing that
\* neither covers: it is their least upper bound.
LEMMA MergeIsLeastUpperBound ==
    ASSUME NEW S, NEW c \in Clock(S), NEW d \in Clock(S)
    PROVE  /\ LeqClock(c, Merge(c, d))
           /\ LeqClock(d, Merge(c, d))
           /\ \A e \in Clock(S) :
                 LeqClock(c, e) /\ LeqClock(d, e) => LeqClock(Merge(c, d), e)
<1>1. \A e \in Clock(S) : DOMAIN e = S /\ \A m \in S : e[m] \in Nat
    BY DEF Clock
<1>2. \A m \in S : Merge(c, d)[m] = IF d[m] > c[m] THEN d[m] ELSE c[m]
    BY <1>1 DEF Merge
<1>3. DOMAIN Merge(c, d) = S
    BY <1>1 DEF Merge
<1> QED BY <1>1, <1>2, <1>3 DEF LeqClock

\* No two writes each happen before the other, so accepts can never answer
\* both ways about one pair.
LEMMA HappensBeforeAsymmetric ==
    ASSUME NEW S, NEW c \in Clock(S), NEW d \in Clock(S), HappensBefore(c, d)
    PROVE  ~HappensBefore(d, c)
<1>1. DOMAIN c = S /\ DOMAIN d = S /\ \A m \in S : c[m] \in Nat /\ d[m] \in Nat
    BY DEF Clock
<1> QED BY <1>1 DEF HappensBefore, LeqClock

\* Causes of causes are causes.
LEMMA HappensBeforeTransitive ==
    ASSUME NEW S, NEW c \in Clock(S), NEW d \in Clock(S), NEW e \in Clock(S),
           HappensBefore(c, d), HappensBefore(d, e)
    PROVE  HappensBefore(c, e)
<1>1. \A f \in Clock(S) : DOMAIN f = S /\ \A m \in S : f[m] \in Nat
    BY DEF Clock
<1>2. LeqClock(c, e)
    BY LeqTransitive DEF HappensBefore
<1>3. PICK n \in S : c[n] < d[n]
    BY <1>1 DEF HappensBefore
<1>4. d[n] <= e[n]
    BY <1>1 DEF HappensBefore, LeqClock
<1>5. c[n] < e[n]
    BY <1>1, <1>3, <1>4
<1> QED BY <1>1, <1>2, <1>5 DEF HappensBefore

\* Covered, and then counted past, is happened before.
LEMMA LeqThenIncrement ==
    ASSUME NEW S, NEW n \in S, NEW c \in Clock(S), NEW d \in Clock(S),
           LeqClock(c, d)
    PROVE  HappensBefore(c, Increment(d, n))
<1>1. DOMAIN c = S /\ DOMAIN d = S /\ c[n] \in Nat /\ d[n] \in Nat
    BY DEF Clock
<1>2. LeqClock(c, Increment(d, n))
    BY LeqIncrement
<1>3. Increment(d, n)[n] = d[n] + 1
    BY <1>1 DEF Increment
<1>4. c[n] <= d[n]
    BY <1>1 DEF LeqClock
<1>5. c[n] < Increment(d, n)[n]
    BY <1>1, <1>3, <1>4
<1> QED BY <1>1, <1>2, <1>5 DEF HappensBefore

\* Nothing happened before the empty clock.
LEMMA NothingBeforeZero ==
    ASSUME NEW S, NEW c \in Clock(S)
    PROVE  ~HappensBefore(c, ZeroClock(S))
BY DEF HappensBefore, ZeroClock, Clock
=============================================================================
