---------------------------- MODULE Undo_proofs ----------------------------
(***************************************************************************)
(* What the log of changes tells of each user's undo and redo, for every   *)
(* number of users, things and fields and every length of run.  The types  *)
(* first; then that the rows of the log form chains, each of them a change *)
(* and the presses that reversed it in turn, and that the newest ends of   *)
(* those chains are the tops of two stacks (Chains).  From that follow     *)
(* what a press finds, that undo and redo are the two stacks, and that a   *)
(* branch left behind stays gone.  Last, that what was removed stays gone  *)
(* until the removal is reversed (GoneOnce), and from the show after each  *)
(* row of a press (Trail), that a redo right after an undo gives back what *)
(* the undo found.                                                         *)
(***************************************************************************)
EXTENDS Undo, Library_proofs

-----------------------------------------------------------------------------
(***************************************************************************)
(* Rows of the log, of values up to n and acts up to a.                    *)
(***************************************************************************)
Whole(n) == [Fields -> 0..n]

Part(f, n) == [{f} -> 0..n]

Worths(n) == Whole(n) \cup {Absent} \cup UNION {Part(f, n) : f \in Fields}

Written(r, n) ==
    \/ r.verb = "create" /\ r.field = "all" /\ r.value \in Whole(n)
    \/ r.verb = "delete" /\ r.field = "all" /\ r.value = Absent
    \/ r.verb = "field" /\ r.field \in Fields /\ r.value \in Part(r.field, n)

Preceded(r, n) ==
    /\ r.verb = "create" => r.previous = Absent
    /\ r.verb = "delete" => r.previous \in Whole(n) \cup {Absent}
    /\ r.verb = "field" => r.previous \in Part(r.field, n)

Verbs == {"create", "delete", "field"}

\* A row that has yet to be written: what was there before is not known.
Drafts(n, a) ==
    {r \in [user : Users, act : 1..a, undoes : 0..a, verb : Verbs, thing : Things,
            field : Fields \cup {"all"}, value : Worths(n), previous : Worths(n)] :
        r.undoes < r.act /\ Written(r, n)}

Rows(n, a) == {r \in Drafts(n, a) : Preceded(r, n)}

Shows(n) == [Things -> Whole(n) \cup {Absent}]

\* What may be drafted or logged with smaller values and acts may be with greater ones.
LEMMA RowsGrow ==
    ASSUME NEW n \in Nat, NEW a \in Nat, NEW b \in Nat, a <= b
    PROVE  Drafts(n, a) \subseteq Drafts(n, b) /\ Rows(n, a) \subseteq Rows(n, b)
<1>1. 1..a \subseteq 1..b /\ 0..a \subseteq 0..b
  OBVIOUS
<1>2. Drafts(n, a) \subseteq Drafts(n, b)
  BY <1>1 DEF Drafts
<1> QED BY <1>2 DEF Rows

\* The fields of a draft, and what they may hold.
LEMMA DraftHas ==
    ASSUME NEW n \in Nat, NEW a \in Nat, NEW r \in Drafts(n, a)
    PROVE  /\ r.user \in Users /\ r.act \in 1..a /\ r.undoes \in 0..a /\ r.undoes < r.act
           /\ r.verb \in Verbs /\ r.thing \in Things /\ r.field \in Fields \cup {"all"}
           /\ r.value \in Worths(n) /\ r.previous \in Worths(n) /\ Written(r, n)
BY DEF Drafts

\* A draft with what was there before it is a row.
LEMMA DraftWith ==
    ASSUME NEW n \in Nat, NEW a \in Nat, NEW x \in Drafts(n, a), NEW p \in Worths(n), NEW y,
           y = [x EXCEPT !.previous = p]
    PROVE  /\ y \in Drafts(n, a) /\ y.previous = p
           /\ y.user = x.user /\ y.act = x.act /\ y.undoes = x.undoes /\ y.verb = x.verb
           /\ y.thing = x.thing /\ y.field = x.field /\ y.value = x.value
           /\ Preceded(y, n) => y \in Rows(n, a)
<1>1. /\ y \in [user : Users, act : 1..a, undoes : 0..a, verb : Verbs, thing : Things,
                field : Fields \cup {"all"}, value : Worths(n), previous : Worths(n)]
      /\ y.previous = p
      /\ y.user = x.user /\ y.act = x.act /\ y.undoes = x.undoes /\ y.verb = x.verb
      /\ y.thing = x.thing /\ y.field = x.field /\ y.value = x.value
  BY DEF Drafts
<1>2. Written(y, n) /\ y.undoes < y.act
  BY <1>1, DraftHas DEF Written
<1> QED BY <1>1, <1>2 DEF Drafts, Rows

\* No field is called "all", and there is a level.
LEMMA FieldsDiffer == "all" \notin Fields /\ "level" \in Fields
BY DEF Fields

\* What is absent is no row of any thing.
LEMMA AbsentIs == \A n : Absent \notin Whole(n)
<1> SUFFICES ASSUME NEW n, Absent \in Whole(n) PROVE FALSE
  OBVIOUS
<1>1. DOMAIN Absent = {}
  BY DEF Absent
<1> QED BY <1>1, FieldsDiffer DEF Whole

\* Applying a write that is not refused leaves a show (Engine::apply).
LEMMA AppliedIs ==
    ASSUME NEW n \in Nat, NEW rows \in Shows(n), NEW x, x.thing \in Things, Written(x, n),
           ~Refused(rows, x.verb, x.thing)
    PROVE  Applied(rows, x.verb, x.thing, x.value) \in Shows(n)
<1> PICK t \in Things : t = x.thing
  OBVIOUS
<1> PICK now : now = rows[t]
  OBVIOUS
<1> PICK v : v = (IF x.verb = "field" THEN Overlaid(x.value, now) ELSE x.value)
  OBVIOUS
<1>1. now \in Whole(n) \cup {Absent}
  BY DEF Shows
<1>2. v \in Whole(n) \cup {Absent}
  <2>1. CASE x.verb = "field"
    <3>1. now \in [Fields -> 0..n] /\ now # Absent
      BY <1>1, <2>1 DEF Refused, Whole
    <3> PICK f, value : f = x.field /\ value = x.value
      OBVIOUS
    <3>2. f \in Fields /\ value \in [{f} -> 0..n]
      BY <2>1 DEF Written, Part
    <3>3. DOMAIN value = {f} /\ DOMAIN now = Fields /\ {f} \cup Fields = Fields
      BY <3>1, <3>2
    <3>4. Overlaid(value, now) = [g \in Fields |-> IF g \in {f} THEN value[g] ELSE now[g]]
      BY <3>3 DEF Overlaid
    <3>5. \A g \in Fields : (IF g \in {f} THEN value[g] ELSE now[g]) \in 0..n
      BY <3>1, <3>2
    <3>6. Overlaid(value, now) \in [Fields -> 0..n]
      BY <3>4, <3>5
    <3> QED BY <2>1, <3>6 DEF Whole
  <2>2. CASE x.verb # "field"
    BY <2>2 DEF Written
  <2> QED BY <2>1, <2>2
<1>3. Applied(rows, x.verb, x.thing, x.value) = [rows EXCEPT ![t] = v]
  BY DEF Applied
<1> QED BY <1>2, <1>3 DEF Shows

\* What stood before a write is a row's previous value, of the write's own kind.
LEMMA ValueBeforeIs ==
    ASSUME NEW n \in Nat, NEW rows \in Shows(n), NEW x, x.thing \in Things, x.verb \in Verbs,
           Written(x, n), ~Refused(rows, x.verb, x.thing),
           NEW y, y.verb = x.verb, y.field = x.field,
           y.previous = ValueBefore(rows, x.verb, x.thing, x.field)
    PROVE  y.previous \in Worths(n) /\ Preceded(y, n)
<1> PICK now : now = rows[x.thing]
  OBVIOUS
<1>1. now \in Whole(n) \cup {Absent}
  BY DEF Shows
<1>2. CASE x.verb = "create"
  BY <1>2 DEF ValueBefore, Preceded, Worths
<1>3. CASE x.verb = "delete"
  BY <1>1, <1>3 DEF ValueBefore, Preceded, Worths
<1>4. CASE x.verb = "field"
  <2> PICK f : f = x.field
    OBVIOUS
  <2>1. now \in [Fields -> 0..n] /\ f \in Fields
    BY <1>1, <1>4 DEF Refused, Whole, Written
  <2>2. y.previous = [g \in {f} |-> now[g]]
    BY <1>4 DEF ValueBefore
  <2>3. [g \in {f} |-> now[g]] \in [{f} -> 0..n]
    BY <2>1
  <2>4. y.previous \in Part(f, n)
    BY <2>2, <2>3 DEF Part
  <2> QED BY <1>4, <2>1, <2>4 DEF Preceded, Worths
<1> QED BY <1>2, <1>3, <1>4 DEF Verbs

-----------------------------------------------------------------------------
(***************************************************************************)
(* What writing a row to the log does to it.                               *)
(***************************************************************************)
Once(rows) == \A i, j \in DOMAIN rows : SameTarget(rows[i], rows[j]) => i = j

\* One person's acts are in the log in the order they were begun in.
Ordered(rows) ==
    \A i, j \in DOMAIN rows : i < j /\ rows[i].user = rows[j].user => rows[i].act <= rows[j].act

\* What a row's logging may change of it is what was there before.
Likewise(y, x) ==
    /\ y.user = x.user /\ y.act = x.act /\ y.undoes = x.undoes /\ y.verb = x.verb
    /\ y.thing = x.thing /\ y.field = x.field /\ y.value = x.value

\* What a row is logged over.
Folded(rows, x) == {r \in Range(rows) : SameTarget(r, x) /\ x.verb # "create"}

LoggedRow(rows, x, y, V) ==
    /\ y \in V /\ Likewise(y, x)
    /\ Logged(rows, x) = Append(Among(Range(rows) \ Folded(rows, x), rows), y)
    /\ Logged(rows, x) \in Seq(V)

\* Logging a row appends it or folds it into one of the same gesture, kept in its place.
LEMMA LoggedIsTyped ==
    ASSUME NEW n \in Nat, NEW a \in Nat, NEW V, V = Rows(n, a), NEW rows \in Seq(V), NEW x \in V
    PROVE  \E y : LoggedRow(rows, x, y, V)
<1> DEFINE same == Folded(rows, x)
           S == Range(rows) \ same
           first == IF same = {} THEN x.previous ELSE (CHOOSE r \in same : TRUE).previous
<1> PICK y : y = [x EXCEPT !.previous = first]
  OBVIOUS
<1> PICK kept : kept = Among(S, rows)
  OBVIOUS
<1> PICK l : l = Append(kept, y)
  OBVIOUS
<1>1. Logged(rows, x) = l
  BY DEF Logged, Folded
<1>2. \A r \in Range(rows) : r \in V
  BY LenProperties, ElementOfSeq DEF Range
<1>4. y \in V /\ Likewise(y, x)
  <2>1. x \in Drafts(n, a) /\ Preceded(x, n)
    BY DEF Rows
  <2>2. first \in Worths(n) /\ \E r \in V : /\ r.verb = x.verb /\ r.field = x.field
                                            /\ first = r.previous
    <3>1. CASE same = {}
      BY <2>1, <3>1, DraftHas
    <3>2. CASE same # {}
      <4>1. PICK r \in same : first = r.previous
        BY <3>2
      <4>2. r \in V /\ SameTarget(r, x)
        BY <1>2, <4>1 DEF Folded
      <4>3. r \in Drafts(n, a)
        BY <4>2 DEF Rows
      <4> HIDE DEF same, first
      <4> QED BY <4>1, <4>2, <4>3, DraftHas DEF SameTarget
    <3> QED BY <3>1, <3>2
  <2> HIDE DEF first
  <2>3. PICK r \in V : r.verb = x.verb /\ r.field = x.field /\ first = r.previous
    BY <2>2
  <2>4. Preceded(r, n)
    BY <2>3 DEF Rows
  <2>5. /\ y \in Drafts(n, a) /\ y.previous = first
        /\ y.user = x.user /\ y.act = x.act /\ y.undoes = x.undoes /\ y.verb = x.verb
        /\ y.thing = x.thing /\ y.field = x.field /\ y.value = x.value
        /\ Preceded(y, n) => y \in Rows(n, a)
    BY <2>1, <2>2, DraftWith
  <2>6. Preceded(y, n)
    BY <2>3, <2>4, <2>5 DEF Preceded
  <2> QED BY <2>5, <2>6 DEF Likewise
<1>5. kept \in Seq(V)
  <2> HIDE DEF S
  <2> QED BY AmongHas
<1>6. l \in Seq(V)
  BY <1>4, <1>5, AppendProperties
<1> QED BY <1>1, <1>4, <1>6 DEF LoggedRow

\* A row on something of its act's own is written at the end.
LEMMA LoggedIsNew ==
    ASSUME NEW n \in Nat, NEW a \in Nat, NEW V, V = Rows(n, a), NEW rows \in Seq(V), NEW x \in V,
           \A r \in Range(rows) : ~SameTarget(r, x)
    PROVE  Logged(rows, x) = Append(rows, x)
<1>1. Folded(rows, x) = {}
  BY DEF Folded
<1>2. Logged(rows, x) = Append(Among(Range(rows), rows), [x EXCEPT !.previous = x.previous])
  BY <1>1 DEF Logged, Folded
<1>3. [x EXCEPT !.previous = x.previous] = x
  BY DEF Rows, Drafts
<1>4. Among(Range(rows), rows) = rows
  <2>1. Len(rows) \in Nat /\ \A i \in 1..Len(rows) : rows[i] \in Range(rows)
    BY LenProperties DEF Range
  <2> QED BY <2>1, AmongPrefix
<1> QED BY <1>2, <1>3, <1>4

LoggedAs(rows, x, y, l, V) ==
    /\ y \in V /\ l \in Seq(V)
    /\ y.user = x.user /\ y.act = x.act /\ y.undoes = x.undoes /\ y.verb = x.verb
    /\ y.thing = x.thing /\ y.field = x.field /\ y.value = x.value
    /\ Range(l) = {r \in Range(rows) : ~SameTarget(r, x)} \cup {y}
    /\ Once(l)
    /\ Len(l) >= Len(rows) /\ l # <<>> /\ l[Len(l)] = y
    /\ Ordered(rows) /\ (\A r \in Range(rows) : r.user = x.user => r.act <= x.act) => Ordered(l)

\* Logging a row in a log with one row to a target leaves it so, and every other row as it was.
LEMMA LoggedIs ==
    ASSUME NEW n \in Nat, NEW a \in Nat, NEW V, V = Rows(n, a), NEW rows \in Seq(V), NEW x \in V,
           Once(rows), x.verb = "create" => \A r \in Range(rows) : ~SameTarget(r, x)
    PROVE  \E y : LoggedAs(rows, x, y, Logged(rows, x), V)
<1>0. PICK y : LoggedRow(rows, x, y, V)
  BY LoggedIsTyped
<1> DEFINE same == Folded(rows, x)
           S == Range(rows) \ same
<1> PICK kept : kept = Among(S, rows)
  OBVIOUS
<1> PICK l : l = Append(kept, y)
  OBVIOUS
<1>1. Logged(rows, x) = l
  BY <1>0 DEF LoggedRow
<1>2. /\ Len(rows) \in Nat /\ DOMAIN rows = 1..Len(rows)
      /\ \A i \in DOMAIN rows : rows[i] \in V /\ rows[i] \in Range(rows)
      /\ \A r \in Range(rows) : r \in V /\ \E i \in DOMAIN rows : rows[i] = r
  BY LenProperties, ElementOfSeq DEF Range
<1>3. same = {r \in Range(rows) : SameTarget(r, x)}
  BY DEF Folded
<1>4. y \in V /\ y.user = x.user /\ y.act = x.act /\ y.undoes = x.undoes /\ y.verb = x.verb
      /\ y.thing = x.thing /\ y.field = x.field /\ y.value = x.value
  BY <1>0 DEF LoggedRow, Likewise
<1>5. /\ kept \in Seq(V)
      /\ Range(kept) = {r \in Range(rows) : ~SameTarget(r, x)}
  <2>1. kept \in Seq(V) /\ Range(kept) = Range(rows) \cap S
    <3> HIDE DEF S
    <3> QED BY AmongHas
  <2> QED BY <1>3, <2>1
<1>6. PICK e : Picks(e, S, rows, kept)
  <2> HIDE DEF S
  <2> QED BY AmongPicks
<1>7. /\ e \in [DOMAIN kept -> DOMAIN rows]
      /\ \A i \in DOMAIN kept : kept[i] = rows[e[i]]
      /\ \A i, j \in DOMAIN kept : i < j => e[i] < e[j]
  <2> HIDE DEF S
  <2> QED BY <1>6 DEF Picks
<1>8. Len(kept) >= Len(rows) - 1
  <2>1. \E k : \A i \in DOMAIN rows : rows[i] \notin S => i = k
    <3>1. CASE \A i \in DOMAIN rows : rows[i] \in S
      BY <3>1
    <3>2. CASE \E i \in DOMAIN rows : rows[i] \notin S
      <4>1. PICK k \in DOMAIN rows : rows[k] \notin S
        BY <3>2
      <4>2. ASSUME NEW i \in DOMAIN rows, rows[i] \notin S PROVE i = k
        <5>1. SameTarget(rows[i], x) /\ SameTarget(rows[k], x)
          <6>1. rows[i] \in same /\ rows[k] \in same
            BY <1>2, <4>1, <4>2
          <6> HIDE DEF same
          <6> QED BY <1>3, <6>1
        <5>2. SameTarget(rows[i], rows[k])
          BY <5>1 DEF SameTarget
        <5> QED BY <5>2 DEF Once
      <4> QED BY <4>2
    <3> QED BY <3>1, <3>2
  <2> HIDE DEF S
  <2>2. PICK k : \A i \in DOMAIN rows : rows[i] \notin S => i = k
    BY <2>1
  <2> QED BY <2>2, AmongLoses
<1> HIDE DEF S, same
<1> PICK m : m = Len(kept)
  OBVIOUS
<1>9. /\ m \in Nat /\ DOMAIN kept = 1..m
      /\ l \in Seq(V) /\ Len(l) = m + 1 /\ DOMAIN l = 1..(m + 1)
      /\ \A i \in 1..m : l[i] = kept[i] /\ kept[i] \in Range(kept)
      /\ l[m + 1] = y
  BY <1>4, <1>5, LenProperties, AppendProperties DEF Range
<1>10. Range(l) = Range(kept) \cup {y}
  BY <1>5, RangeOfAppended DEF IsSeq
<1>11. \A i \in 1..(m + 1) : i \in 1..m \/ i = m + 1
  BY <1>9
<1>12. Once(l)
  <2> SUFFICES ASSUME NEW i \in 1..(m + 1), NEW j \in 1..(m + 1), SameTarget(l[i], l[j])
               PROVE  i = j
    BY <1>9 DEF Once
  <2>1. CASE i \in 1..m /\ j \in 1..m
    <3>1. e[i] \in DOMAIN rows /\ e[j] \in DOMAIN rows /\ SameTarget(rows[e[i]], rows[e[j]])
      BY <1>7, <1>9, <2>1
    <3>2. e[i] = e[j]
      BY <3>1 DEF Once
    <3>3. ~(i < j) /\ ~(j < i)
      <4>1. i \in DOMAIN kept /\ j \in DOMAIN kept
        BY <1>9, <2>1
      <4>2. i < j => e[i] < e[j]
        BY ONLY <1>7, <4>1
      <4>3. j < i => e[j] < e[i]
        BY ONLY <1>7, <4>1
      <4>4. e[i] \in Nat /\ e[j] \in Nat
        BY <1>2, <3>1
      <4> QED BY ONLY <3>2, <4>2, <4>3, <4>4
    <3> QED BY <2>1, <3>3
  <2>2. ASSUME NEW k \in 1..m PROVE ~SameTarget(l[k], y) /\ ~SameTarget(y, l[k])
    <3>1. ~SameTarget(l[k], x)
      BY <1>5, <1>9
    <3> QED BY <1>4, <3>1 DEF SameTarget
  <2>3. i \in 1..m \/ i = m + 1
    BY <1>11
  <2>4. j \in 1..m \/ j = m + 1
    BY <1>11
  <2>5. l[m + 1] = y
    BY <1>9
  <2> QED BY <2>1, <2>2, <2>3, <2>4, <2>5
<1>13. ASSUME Ordered(rows), \A r \in Range(rows) : r.user = x.user => r.act <= x.act
       PROVE  Ordered(l)
  <2> SUFFICES ASSUME NEW i \in 1..(m + 1), NEW j \in 1..(m + 1), i < j, l[i].user = l[j].user
               PROVE  l[i].act <= l[j].act
    BY <1>9 DEF Ordered
  <2>1. i \in 1..m
    BY <1>9
  <2>2. CASE j \in 1..m
    <3>1. i \in DOMAIN kept /\ j \in DOMAIN kept /\ i < j
      BY <1>9, <2>1, <2>2
    <3>2. e[i] < e[j] /\ e[i] \in DOMAIN rows /\ e[j] \in DOMAIN rows
      BY ONLY <1>7, <3>1
    <3>3. l[i] = rows[e[i]] /\ l[j] = rows[e[j]]
      BY <1>7, <1>9, <2>1, <2>2
    <3> QED BY <1>13, <3>2, <3>3 DEF Ordered
  <2>3. CASE j = m + 1
    <3>1. l[i] \in Range(rows)
      BY <1>5, <1>9, <2>1
    <3> QED BY <1>4, <1>9, <1>13, <2>3, <3>1
  <2> QED BY <1>11, <2>2, <2>3
<1>14. Len(l) >= Len(rows) /\ l # <<>>
  BY <1>2, <1>8, <1>9
<1>15. LoggedAs(rows, x, y, l, V)
  BY <1>4, <1>5, <1>9, <1>10, <1>12, <1>13, <1>14 DEF LoggedAs
<1> QED BY <1>1, <1>15

-----------------------------------------------------------------------------
(***************************************************************************)
(* What an act is reversed by.                                             *)
(***************************************************************************)
LEMMA AsSeq ==
    ASSUME NEW S, NEW n \in Nat, NEW f \in [1..n -> S]
    PROVE  f \in Seq(S) /\ Len(f) = n
<1>1. f \in Seq(S)
  BY SeqDef
<1> QED BY <1>1, LenProperties

\* A sequence, its places and what stands at them.
LEMMA SeqHas ==
    ASSUME NEW V, NEW s \in Seq(V)
    PROVE  /\ Len(s) \in Nat /\ DOMAIN s = 1..Len(s) /\ s \in [1..Len(s) -> V]
           /\ \A i \in 1..Len(s) : s[i] \in V /\ s[i] \in Range(s)
           /\ \A r \in Range(s) : r \in V /\ \E i \in 1..Len(s) : s[i] = r
<1>1. Len(s) \in Nat /\ DOMAIN s = 1..Len(s) /\ s \in [1..Len(s) -> V]
  BY LenProperties
<1> QED BY <1>1 DEF Range

\* What is looked back at is part of the log, and all of it when the log is short enough.
LEMMA RecentIs ==
    ASSUME NEW V, log \in Seq(V)
    PROVE  /\ Recent \in Seq(V) /\ Range(Recent) \subseteq Range(log)
           /\ Len(log) <= Depth /\ (\A r \in Range(log) : r.user # Nobody) => Recent = log
<1> DEFINE S == {r \in Range(log) : r.user # Nobody}
<1> PICK authored : authored = Among(S, log)
  OBVIOUS
<1>1. authored \in Seq(V) /\ Range(authored) = Range(log) \cap S
  <2> HIDE DEF S
  <2> QED BY AmongHas
<1>2. Range(authored) \subseteq Range(log)
  BY <1>1
<1>3. Recent = IF Len(authored) <= Depth THEN authored
               ELSE SubSeq(authored, Len(authored) - Depth + 1, Len(authored))
  BY DEF Recent
<1> HIDE DEF S
<1> PICK m : m = Len(authored)
  OBVIOUS
<1>4. /\ m \in Nat /\ DOMAIN authored = 1..m /\ Depth \in Nat
      /\ \A i \in 1..m : authored[i] \in V /\ authored[i] \in Range(authored)
  BY <1>1, SeqHas, LookBackAssumption
<1>5. CASE m <= Depth
  <2>1. Recent = authored
    BY <1>3, <1>5
  <2>2. ASSUME \A r \in Range(log) : r.user # Nobody PROVE authored = log
    <3>1. \A i \in 1..Len(log) : log[i] = log[i] /\ log[i] \in S
      <4>1. DOMAIN log = 1..Len(log)
        BY LenProperties
      <4> QED BY <2>2, <4>1 DEF S, Range
    <3>2. Len(log) \in Nat
      BY LenProperties
    <3>3. Among(S, log) = log
      BY <3>1, <3>2, AmongPrefix
    <3> QED BY <3>3
  <2> QED BY <1>1, <1>2, <2>1, <2>2
<1>6. CASE ~(m <= Depth)
  <2> PICK from : from = m - Depth + 1
    OBVIOUS
  <2>1. /\ from \in Int /\ from >= 1 /\ from <= m + 1 /\ m - from + 1 \in Nat
        /\ m - from + 1 = IF from <= m THEN m - from + 1 ELSE 0
    <3>1. m \in Int /\ Depth \in Int /\ m > Depth /\ Depth >= 0
      BY <1>4, <1>6
    <3> QED BY <3>1
  <2> PICK q : q = SubSeq(authored, from, m)
    OBVIOUS
  <2>2. \A i \in from .. m : i \in 1..m
    BY <2>1
  <2>3. \A i \in from .. m : authored[i] \in V
    BY <1>4, <2>2
  <2>4. /\ q \in Seq(V) /\ Len(q) = m - from + 1
        /\ \A i \in 1 .. m - from + 1 : q[i] = authored[from + i - 1]
    BY <1>4, <2>1, <2>3, SubSeqProperties
  <2>5. DOMAIN q = 1 .. m - from + 1
    BY <2>4, LenProperties
  <2>6. \A i \in DOMAIN q : q[i] \in Range(authored)
    <3>1. \A i \in 1 .. m - from + 1 : from + i - 1 \in 1..m
      BY <1>4, <2>1
    <3> SUFFICES ASSUME NEW i \in DOMAIN q PROVE q[i] \in Range(authored)
      OBVIOUS
    <3>2. q[i] = authored[from + i - 1]
      BY <2>4, <2>5
    <3>3. from + i - 1 \in 1..m
      BY <2>5, <3>1
    <3> QED BY <1>4, <3>2, <3>3
  <2>7. Range(q) \subseteq Range(authored)
    <3> SUFFICES ASSUME NEW r \in Range(q) PROVE r \in Range(authored)
      OBVIOUS
    <3>1. PICK i \in DOMAIN q : q[i] = r
      BY DEF Range
    <3> QED BY <2>6, <3>1
  <2>8. Recent = q
    BY <1>3, <1>6
  <2>9. ASSUME Len(log) <= Depth, \A r \in Range(log) : r.user # Nobody PROVE FALSE
    <3>1. DOMAIN log = 1..Len(log) /\ Len(log) \in Nat
      BY LenProperties
    <3>2. \A i \in 1..Len(log) : log[i] = log[i] /\ log[i] \in S
      BY <2>9, <3>1 DEF S, Range
    <3>3. Among(S, log) = log
      BY <3>1, <3>2, AmongPrefix
    <3> QED BY <1>6, <2>9, <3>3
  <2> QED BY <1>2, <2>4, <2>7, <2>8, <2>9
<1> QED BY <1>5, <1>6

\* A user's own part of what is looked back at holds rows of that user and no others.
LEMMA MineIs ==
    ASSUME NEW V, log \in Seq(V), NEW u
    PROVE  /\ Mine(u) \in Seq(V) /\ \A r \in Range(Mine(u)) : r \in Range(log) /\ r.user = u
           /\ Recent = log => Range(Mine(u)) = {r \in Range(log) : r.user = u}
<1> PICK S : S = {r \in Range(log) : r.user = u}
  OBVIOUS
<1>1. Mine(u) = Among(S, Recent)
  BY DEF Mine
<1>2. Mine(u) \in Seq(V) /\ Range(Mine(u)) = Range(Recent) \cap S
  BY <1>1, RecentIs, AmongHas
<1> QED BY <1>2

\* The rows of one act of a user are in the log.
LEMMA RunIs ==
    ASSUME NEW V, log \in Seq(V), NEW u, NEW act
    PROVE  /\ Run(u, act) \in Seq(V)
           /\ \A r \in Range(Run(u, act)) : r \in Range(log) /\ r.user = u /\ r.act = act
<1> PICK S : S = {r \in Range(log) : r.act = act}
  OBVIOUS
<1> PICK part : part = Among(S, Mine(u))
  OBVIOUS
<1>1. part \in Seq(V) /\ Range(part) = Range(Mine(u)) \cap S
  BY MineIs, AmongHas
<1> PICK m : m = Len(part)
  OBVIOUS
<1>2. /\ m \in Nat /\ DOMAIN part = 1..m
      /\ \A i \in 1..m : part[i] \in V /\ part[i] \in Range(part)
  BY <1>1, SeqHas, ZenonT(30)
<1> PICK q : q = [i \in 1..m |-> part[(m - i) + 1]]
  OBVIOUS
<1>3. Run(u, act) = q
  BY DEF Run, Reverse
<1>4. \A i \in 1..m : (m - i) + 1 \in 1..m
  BY <1>2
<1>5. DOMAIN q = 1..m /\ q \in [1..m -> V] /\ \A i \in 1..m : q[i] \in Range(part)
  BY <1>2, <1>4
<1>6. q \in Seq(V)
  BY ONLY <1>2, <1>5, AsSeq
<1>7. ASSUME NEW r, r \in Range(q) PROVE r \in Range(part)
  <2>1. PICK i \in 1..Len(q) : q[i] = r
    BY ONLY <1>6, <1>7, SeqHas
  <2>2. DOMAIN q = 1..Len(q)
    BY ONLY <1>6, SeqHas
  <2> QED BY ONLY <1>5, <2>1, <2>2
<1> QED BY <1>1, <1>3, <1>6, <1>7, MineIs

(***************************************************************************)
(* The targets of what is written back are each one's own.                 *)
(***************************************************************************)
LEMMA HeadsAre ==
    ASSUME NEW V, NEW rows \in Seq(V)
    PROVE  /\ Heads(rows) \in Seq(DOMAIN rows)
           /\ \A i, j \in DOMAIN Heads(rows) :
                  i # j => Target(rows[Heads(rows)[i]]) # Target(rows[Heads(rows)[j]])
<1> PICK D : D = DOMAIN rows
  OBVIOUS
<1> PICK m : m = Len(rows)
  OBVIOUS
<1>1. m \in Nat /\ D = 1..m
  BY LenProperties
<1> PICK S : S = {i \in D : \A j \in 1..(i - 1) : Target(rows[j]) # Target(rows[i])}
  OBVIOUS
<1> PICK all : all = [i \in D |-> i]
  OBVIOUS
<1> PICK h : h = Among(S, all)
  OBVIOUS
<1>2. Heads(rows) = h
  BY DEF Heads
<1>3. all \in Seq(D) /\ IsInjective(all)
  <2>1. all \in [1..m -> D]
    BY <1>1
  <2>2. \A a, b \in DOMAIN all : all[a] = all[b] => a = b
    OBVIOUS
  <2> QED BY <1>1, <2>1, <2>2, AsSeq DEF IsInjective
<1>4. h \in Seq(D) /\ Range(h) = Range(all) \cap S /\ IsInjective(h)
  BY <1>3, AmongHas
<1>5. \A i \in DOMAIN h : h[i] \in S
  <2>1. DOMAIN h = 1..Len(h) /\ \A i \in 1..Len(h) : h[i] \in Range(h)
    BY ONLY <1>4, SeqHas
  <2> QED BY <1>4, <2>1
<1>6. ASSUME NEW i \in DOMAIN h, NEW j \in DOMAIN h, i # j
      PROVE  Target(rows[h[i]]) # Target(rows[h[j]])
  <2>1. h[i] # h[j]
    BY <1>4, <1>6 DEF IsInjective
  <2> PICK a, b : a = h[i] /\ b = h[j]
    OBVIOUS
  <2>2. a \in S /\ b \in S /\ a # b
    BY <1>5, <2>1
  <2>3. a \in 1..m /\ b \in 1..m
    BY <1>1, <2>2
  <2>4. a \in 1..(b - 1) \/ b \in 1..(a - 1)
    BY <2>2, <2>3
  <2>5. Target(rows[a]) # Target(rows[b])
    BY <2>2, <2>4
  <2> QED BY <2>5
<1> QED BY <1>2, <1>4, <1>6

\* The row to be reversed for a target is one of the rows, of that target.
LEMMA EarliestIs ==
    ASSUME NEW V, NEW rows \in Seq(V), NEW i \in DOMAIN rows
    PROVE  Earliest(rows, i) \in Range(rows) /\ Target(Earliest(rows, i)) = Target(rows[i])
<1> PICK m : m = Len(rows)
  OBVIOUS
<1>1. m \in Nat /\ DOMAIN rows = 1..m
  BY LenProperties
<1> PICK S : S = {j \in DOMAIN rows : Target(rows[j]) = Target(rows[i])}
  OBVIOUS
<1>2. S \in SUBSET Nat /\ S # {} /\ \A x \in S : x <= m
  BY <1>1
<1>3. Max(S) \in S
  BY <1>1, <1>2, MaxBounds
<1>4. Earliest(rows, i) = rows[Max(S)]
  BY DEF Earliest
<1> QED BY <1>3, <1>4 DEF Range

\* An act is reversed by the inverses of some of its rows, one to a target.
LEMMA InversesAre ==
    ASSUME NEW V, NEW run \in Seq(V)
    PROVE  \E m \in Nat : \E from \in [1..m -> Range(run)] :
              /\ InversesOfRun(run) = [i \in 1..m |-> InverseOf(from[i])]
              /\ \A i \in 1..m : HasInverse(from[i])
              /\ \A i, j \in 1..m : i # j => Target(from[i]) # Target(from[j])
<1> PICK S : S = {r \in Range(run) : ~Covered(run, r)}
  OBVIOUS
<1> PICK rows : rows = Among(S, run)
  OBVIOUS
<1>1. rows \in Seq(V) /\ Range(rows) = Range(run) \cap S
  BY AmongHas
<1> PICK heads : heads = Heads(rows)
  OBVIOUS
<1> PICK all : all = [n \in DOMAIN heads |-> Earliest(rows, heads[n])]
  OBVIOUS
<1> PICK R : R = Range(run)
  OBVIOUS
<1>2. /\ heads \in Seq(DOMAIN rows)
      /\ \A i, j \in DOMAIN heads : i # j => Target(rows[heads[i]]) # Target(rows[heads[j]])
  <2>1. /\ Heads(rows) \in Seq(DOMAIN rows)
        /\ \A i, j \in DOMAIN Heads(rows) :
               i # j => Target(rows[Heads(rows)[i]]) # Target(rows[Heads(rows)[j]])
    BY ONLY <1>1, HeadsAre
  <2> QED BY <2>1
<1>3. /\ Len(heads) \in Nat /\ DOMAIN heads = 1..Len(heads)
      /\ \A i \in DOMAIN heads : heads[i] \in DOMAIN rows
  BY <1>2, LenProperties, ElementOfSeq, ZenonT(30)
<1>4. \A i \in DOMAIN heads : all[i] \in R /\ Target(all[i]) = Target(rows[heads[i]])
  BY <1>1, <1>3, EarliestIs
<1>5. all \in Seq(R)
  <2>1. all \in [1..Len(heads) -> R]
    BY <1>3, <1>4
  <2> QED BY <1>3, <2>1, AsSeq
<1> PICK H : H = {r \in R : HasInverse(r)}
  OBVIOUS
<1> PICK wanted : wanted = Among(H, all)
  OBVIOUS
<1>6. wanted \in Seq(R)
  BY <1>5, AmongHas
<1>7. PICK e : Picks(e, H, all, wanted)
  BY <1>5, AmongPicks
<1> PICK m : m = Len(wanted)
  OBVIOUS
<1>8. m \in Nat /\ DOMAIN wanted = 1..m /\ wanted \in [1..m -> R]
  BY <1>6, LenProperties
<1>9. \A i \in 1..m : wanted[i] \in H
  BY <1>5, <1>8, AmongHas, SeqHas
<1>10. ASSUME NEW i \in 1..m, NEW j \in 1..m, i # j PROVE Target(wanted[i]) # Target(wanted[j])
  <2>1. /\ e[i] \in DOMAIN all /\ e[j] \in DOMAIN all /\ wanted[i] = all[e[i]]
        /\ wanted[j] = all[e[j]]
    BY <1>7, <1>8 DEF Picks
  <2>2. e[i] \in DOMAIN heads /\ e[j] \in DOMAIN heads
    BY <2>1
  <2>3. i < j \/ j < i
    BY <1>8, <1>10
  <2>4. e[i] < e[j] \/ e[j] < e[i]
    BY <1>7, <1>8, <2>3 DEF Picks
  <2>5. e[i] # e[j]
    BY <1>3, <2>2, <2>4
  <2> QED BY <1>2, <1>4, <2>1, <2>2, <2>5
<1>11. InversesOfRun(run) = [i \in 1..m |-> InverseOf(wanted[i])]
  BY <1>8 DEF InversesOfRun
<1>12. \A i \in 1..m : HasInverse(wanted[i])
  BY <1>9
<1>13. m \in Nat /\ wanted \in [1..m -> Range(run)]
  BY <1>8
<1> QED BY ONLY <1>10, <1>11, <1>12, <1>13

-----------------------------------------------------------------------------
(***************************************************************************)
(* What a press writes.                                                    *)
(***************************************************************************)
Signature(x, u, act, next) == x.user = u /\ x.act = act /\ x.undoes = next

Inverted(r, act, next) == [InverseOf(r) EXCEPT !.act = act, !.undoes = next]

\* The inverse of a row as a press of an act's reversal writes it.
LEMMA InverseIs ==
    ASSUME NEW n \in Nat, NEW a \in Nat, NEW r \in Rows(n, a), HasInverse(r), NEW next \in 1..a,
           NEW x, x = Inverted(r, a + 1, next)
    PROVE  /\ x \in Drafts(n, a + 1) /\ Signature(x, r.user, a + 1, next) /\ x.thing = r.thing
           /\ x.field = r.field
           /\ x.verb = IF r.verb = "create" THEN "delete"
                       ELSE IF r.verb = "delete" THEN "create" ELSE "field"
           /\ x.value = IF r.verb = "create" THEN Absent ELSE r.previous
<1>1. r \in Drafts(n, a) /\ Preceded(r, n) /\ Written(r, n)
  BY DraftHas DEF Rows
<1>2. a + 1 \in 1..(a + 1) /\ next \in 0..(a + 1) /\ next < a + 1 /\ 1..a \subseteq 1..(a + 1)
      /\ 0..a \subseteq 0..(a + 1)
  OBVIOUS
<1> DEFINE Base == [user : Users, act : 1..(a + 1), undoes : 0..(a + 1), verb : Verbs,
                    thing : Things, field : Fields \cup {"all"}, value : Worths(n),
                    previous : Worths(n)]
<1>3. r \in Base /\ r.act \in 1..a
  BY <1>1, <1>2 DEF Drafts
<1>4. ASSUME NEW v \in Verbs, NEW w \in Worths(n),
             InverseOf(r) = [r EXCEPT !.verb = v, !.value = w]
      PROVE  /\ x \in Base /\ Signature(x, r.user, a + 1, next) /\ x.thing = r.thing
             /\ x.field = r.field /\ x.verb = v /\ x.value = w
  <2> PICK z : z = [r EXCEPT !.verb = v, !.value = w]
    OBVIOUS
  <2>1. /\ z \in Base /\ z.user = r.user /\ z.thing = r.thing /\ z.field = r.field
        /\ z.verb = v /\ z.value = w
    BY <1>3
  <2>2. x = [z EXCEPT !.act = a + 1, !.undoes = next]
    BY <1>4 DEF Inverted
  <2>3. /\ x \in Base /\ x.act = a + 1 /\ x.undoes = next /\ x.user = z.user
        /\ x.thing = z.thing /\ x.field = z.field /\ x.verb = z.verb /\ x.value = z.value
    BY <1>2, <2>1, <2>2
  <2> QED BY <2>1, <2>3 DEF Signature
<1>5. ASSUME NEW y \in Base, Signature(y, r.user, a + 1, next), Written(y, n)
      PROVE  y \in Drafts(n, a + 1)
  BY <1>2, <1>5 DEF Drafts, Signature
<1> HIDE DEF Base
<1>6. CASE r.verb = "create"
  <2>1. InverseOf(r) = [r EXCEPT !.verb = "delete", !.value = Absent]
    BY <1>6 DEF InverseOf
  <2>2. Absent \in Worths(n) /\ "delete" \in Verbs
    BY DEF Worths, Verbs
  <2>3. /\ x \in Base /\ Signature(x, r.user, a + 1, next) /\ x.thing = r.thing
        /\ x.field = r.field /\ x.verb = "delete" /\ x.value = Absent
    BY <1>4, <2>1, <2>2, Zenon
  <2>4. Written(x, n)
    <3>1. r.field = "all"
      BY <1>1, <1>6 DEF Written
    <3> QED BY <2>3, <3>1 DEF Written
  <2> QED BY <1>5, <1>6, <2>3, <2>4
<1>7. CASE r.verb = "delete"
  <2>1. InverseOf(r) = [r EXCEPT !.verb = "create", !.value = r.previous]
    BY <1>7 DEF InverseOf
  <2>2. r.previous \in Whole(n) /\ r.previous \in Worths(n) /\ "create" \in Verbs
    BY <1>1, <1>7 DEF Worths, Verbs, HasInverse, Preceded
  <2>3. /\ x \in Base /\ Signature(x, r.user, a + 1, next) /\ x.thing = r.thing
        /\ x.field = r.field /\ x.verb = "create" /\ x.value = r.previous
    BY <1>4, <2>1, <2>2, Zenon
  <2>4. Written(x, n)
    <3>1. r.field = "all"
      BY <1>1, <1>7 DEF Written
    <3> QED BY <2>2, <2>3, <3>1 DEF Written
  <2> QED BY <1>5, <1>7, <2>3, <2>4
<1>8. CASE r.verb = "field"
  <2>1. InverseOf(r) = [r EXCEPT !.value = r.previous]
    BY <1>8 DEF InverseOf
  <2>2. [r EXCEPT !.value = r.previous] = [r EXCEPT !.verb = "field", !.value = r.previous]
    BY <1>3, <1>8 DEF Base
  <2>3. r.previous \in Part(r.field, n) /\ r.previous \in Worths(n) /\ "field" \in Verbs
    BY <1>1, <1>8, DraftHas DEF Verbs, Preceded
  <2>4. /\ x \in Base /\ Signature(x, r.user, a + 1, next) /\ x.thing = r.thing
        /\ x.field = r.field /\ x.verb = "field" /\ x.value = r.previous
    BY <1>4, <2>1, <2>2, <2>3, Zenon
  <2>5. Written(x, n)
    <3>1. r.field \in Fields
      BY <1>1, <1>8 DEF Written
    <3> QED BY <2>3, <2>4, <3>1 DEF Written
  <2> QED BY <1>5, <1>8, <2>4, <2>5
<1> QED BY <1>1, <1>6, <1>7, <1>8, DraftHas DEF Verbs

SignedAs(s, m, u, act, next, n) ==
    /\ s \in [1..m -> Drafts(n, act)]
    /\ \A i \in 1..m : /\ Signature(s[i], u, act, next)
                       /\ \E r \in Range(log) : r.thing = s[i].thing
    /\ \A i, j \in 1..m : i # j => Target(s[i]) # Target(s[j])

\* The inverses a press writes are drafts of one new act, which says what it reverses.
LEMMA SignedIs ==
    ASSUME NEW n \in Nat, acts \in Nat, log \in Seq(Rows(n, acts)), NEW u, NEW next \in 1..acts
    PROVE  \E m \in Nat : SignedAs(Signed(u, next), m, u, acts + 1, next, n)
<1> PICK V : V = Rows(n, acts)
  OBVIOUS
<1> PICK run : run = Run(u, next)
  OBVIOUS
<1>1. run \in Seq(V) /\ \A r \in Range(run) : r \in Range(log) /\ r.user = u /\ r.act = next
  BY RunIs
<1>2. PICK m \in Nat : \E from \in [1..m -> Range(run)] :
              /\ InversesOfRun(run) = [i \in 1..m |-> InverseOf(from[i])]
              /\ \A i \in 1..m : HasInverse(from[i])
              /\ \A i, j \in 1..m : i # j => Target(from[i]) # Target(from[j])
  BY ONLY <1>1, InversesAre
<1>3. PICK from \in [1..m -> Range(run)] :
              /\ InversesOfRun(run) = [i \in 1..m |-> InverseOf(from[i])]
              /\ \A i \in 1..m : HasInverse(from[i])
              /\ \A i, j \in 1..m : i # j => Target(from[i]) # Target(from[j])
  BY <1>2
<1> PICK s : s = [i \in 1..m |-> Inverted(from[i], acts + 1, next)]
  OBVIOUS
<1>4. Signed(u, next) = s
  <2> PICK inverses : inverses = InversesOfRun(run)
    OBVIOUS
  <2>1. Signed(u, next) =
          [i \in DOMAIN inverses |-> [inverses[i] EXCEPT !.act = acts + 1, !.undoes = next]]
    BY DEF Signed
  <2>2. DOMAIN inverses = 1..m /\ \A i \in 1..m : inverses[i] = InverseOf(from[i])
    BY <1>3
  <2> QED BY <2>1, <2>2 DEF Inverted
<1>5. ASSUME NEW i \in 1..m
      PROVE  /\ s[i] \in Drafts(n, acts + 1) /\ Signature(s[i], u, acts + 1, next)
             /\ s[i].thing = from[i].thing /\ s[i].field = from[i].field
             /\ s[i].verb = IF from[i].verb = "create" THEN "delete"
                            ELSE IF from[i].verb = "delete" THEN "create" ELSE "field"
             /\ from[i].verb \in Verbs /\ from[i] \in Range(log)
  <2> PICK r : r = from[i]
    OBVIOUS
  <2>1. r \in Range(run) /\ HasInverse(r)
    BY <1>3
  <2>2. r \in Range(log) /\ r.user = u /\ r \in Rows(n, acts)
    <3>1. r \in Range(log) /\ r.user = u
      BY ONLY <1>1, <2>1
    <3>2. r \in V
      BY ONLY <1>1, <2>1, SeqHas
    <3> QED BY <3>1, <3>2
  <2>3. r.verb \in Verbs
    BY <2>2, DraftHas DEF Rows
  <2> PICK x : x = s[i]
    OBVIOUS
  <2>4. x = Inverted(r, acts + 1, next)
    OBVIOUS
  <2>5. /\ x \in Drafts(n, acts + 1) /\ Signature(x, r.user, acts + 1, next) /\ x.thing = r.thing
        /\ x.field = r.field
        /\ x.verb = IF r.verb = "create" THEN "delete"
                    ELSE IF r.verb = "delete" THEN "create" ELSE "field"
    BY <2>1, <2>2, <2>4, InverseIs
  <2> QED BY <2>2, <2>3, <2>5
<1>6. s \in [1..m -> Drafts(n, acts + 1)]
  <2> PICK W : W = Drafts(n, acts + 1)
    OBVIOUS
  <2>1. \A i \in 1..m : s[i] \in W
    BY <1>5
  <2>2. s = [i \in 1..m |-> s[i]]
    OBVIOUS
  <2> QED BY <2>1, <2>2
<1>7. ASSUME NEW i \in 1..m, NEW j \in 1..m, i # j PROVE Target(s[i]) # Target(s[j])
  <2>1. Target(from[i]) # Target(from[j])
    BY <1>3, <1>7
  <2> PICK r, t : r = from[i] /\ t = from[j]
    OBVIOUS
  <2> PICK x, y : x = s[i] /\ y = s[j]
    OBVIOUS
  <2>2. /\ x.thing = r.thing /\ x.field = r.field /\ r.verb \in Verbs
        /\ x.verb = IF r.verb = "create" THEN "delete"
                    ELSE IF r.verb = "delete" THEN "create" ELSE "field"
    BY <1>5
  <2>3. /\ y.thing = t.thing /\ y.field = t.field /\ t.verb \in Verbs
        /\ y.verb = IF t.verb = "create" THEN "delete"
                    ELSE IF t.verb = "delete" THEN "create" ELSE "field"
    BY <1>5
  <2>4. x.verb = y.verb => r.verb = t.verb
    BY ONLY <2>2, <2>3 DEF Verbs
  <2>5. Target(r) # Target(t)
    BY <2>1
  <2>6. Target(x) # Target(y)
    BY ONLY <2>2, <2>3, <2>4, <2>5 DEF Target
  <2> QED BY <2>6
<1>8. SignedAs(s, m, u, acts + 1, next, n)
  BY <1>5, <1>6, <1>7 DEF SignedAs
<1> QED BY <1>4, <1>8

-----------------------------------------------------------------------------
(***************************************************************************)
(* The log and the show while a press writes one inverse after another.    *)
(***************************************************************************)
States(n, a) == [show : Shows(n), log : Seq(Rows(n, a))]

\* An inverse is written, and its row says what was there before.
WrittenBack(state, x, y) ==
    /\ ~Refused(state.show, x.verb, x.thing)
    /\ Likewise(y, x) /\ y.previous = ValueBefore(state.show, x.verb, x.thing, x.field)
    /\ TakenBack(state, x).show = Applied(state.show, x.verb, x.thing, x.value)
    /\ TakenBack(state, x).log = Logged(state.log, y)

\* Writing one inverse logs a row of it, or is refused and changes nothing.
LEMMA TakenBackIs ==
    ASSUME NEW n \in Nat, NEW a \in Nat, NEW state \in States(n, a), NEW x \in Drafts(n, a)
    PROVE  /\ TakenBack(state, x) \in States(n, a)
           /\ \/ Refused(state.show, x.verb, x.thing) /\ TakenBack(state, x) = state
              \/ \E y \in Rows(n, a) : WrittenBack(state, x, y)
<1> PICK rows, l : rows = state.show /\ l = state.log
  OBVIOUS
<1>1. rows \in Shows(n) /\ l \in Seq(Rows(n, a))
  BY DEF States
<1>2. CASE Refused(rows, x.verb, x.thing)
  BY <1>2 DEF TakenBack
<1>3. CASE ~Refused(rows, x.verb, x.thing)
  <2> PICK p : p = ValueBefore(rows, x.verb, x.thing, x.field)
    OBVIOUS
  <2> PICK y : y = [x EXCEPT !.previous = p]
    OBVIOUS
  <2>1. /\ x.verb \in Verbs /\ x.thing \in Things /\ Written(x, n)
    BY DraftHas
  <2>2. p \in Worths(n) /\ \A z : z.verb = x.verb /\ z.field = x.field /\ z.previous = p => Preceded(z, n)
    <3>1. ASSUME NEW z, z.verb = x.verb, z.field = x.field, z.previous = p
          PROVE  z.previous \in Worths(n) /\ Preceded(z, n)
      BY <1>1, <1>3, <2>1, <3>1, ValueBeforeIs
    <3>2. PICK z : z = [verb |-> x.verb, field |-> x.field, previous |-> p]
      OBVIOUS
    <3>3. z.verb = x.verb /\ z.field = x.field /\ z.previous = p
      BY <3>2
    <3>4. p \in Worths(n)
      BY <3>1, <3>3
    <3> QED BY <3>1, <3>4
  <2>3. y \in Rows(n, a) /\ Likewise(y, x) /\ y.previous = p
    <3>1. /\ y \in Drafts(n, a) /\ y.previous = p
          /\ y.user = x.user /\ y.act = x.act /\ y.undoes = x.undoes /\ y.verb = x.verb
          /\ y.thing = x.thing /\ y.field = x.field /\ y.value = x.value
          /\ Preceded(y, n) => y \in Rows(n, a)
      BY <2>2, DraftWith
    <3> QED BY <2>2, <3>1 DEF Likewise
  <2>4. TakenBack(state, x) =
          [show |-> Applied(rows, x.verb, x.thing, x.value), log |-> Logged(l, y)]
    BY <1>3 DEF TakenBack
  <2>5. Applied(rows, x.verb, x.thing, x.value) \in Shows(n)
    BY <1>1, <1>3, <2>1, AppliedIs
  <2>6. Logged(l, y) \in Seq(Rows(n, a))
    BY <1>1, <2>3, LoggedIsTyped DEF LoggedRow
  <2>7. TakenBack(state, x) \in States(n, a)
    BY <2>4, <2>5, <2>6 DEF States
  <2>8. WrittenBack(state, x, y)
    BY <1>3, <2>3, <2>4 DEF WrittenBack
  <2> QED BY <2>3, <2>7, <2>8
<1> QED BY <1>2, <1>3

TakenBackRun(run, state, inverses, n) ==
    /\ run[0] = state /\ run[n] = FoldLeft(TakenBack, state, inverses)
    /\ \A i \in 1..n : run[i] = TakenBack(run[i - 1], inverses[i])

\* A press writes its inverses one after another, each on what the one before left.
LEMMA TakenBackRuns ==
    ASSUME NEW V, NEW state \in V, NEW inverses, NEW n \in Nat, DOMAIN inverses = 1..n,
           \A i \in 1..n, s \in V : TakenBack(s, inverses[i]) \in V
    PROVE  \E run \in [0..n -> V] : TakenBackRun(run, state, inverses, n)
<1>0. PICK F : F = [i \in 1..n |-> [x \in V |-> TakenBack(x, inverses[i])]]
  OBVIOUS
<1>2. F \in [1..n -> [V -> V]]
  BY <1>0
<1>4. PICK g \in [SUBSET (1..n) -> V] : Solves(g, F, state, n)
  BY <1>2, FoldHasSolution
<1> DEFINE Body(h) == [T \in SUBSET (1..n) |->
                IF T = {} THEN state ELSE TakenBack(h[T \ {Max(T)}], inverses[Max(T)])]
<1>5. ASSUME NEW T \in SUBSET (1..n), T # {} PROVE Max(T) \in 1..n /\ T \ {Max(T)} \in SUBSET (1..n)
  <2>1. T \in SUBSET Nat /\ T # {} /\ \A i \in T : i <= n
    BY <1>5
  <2>2. Max(T) \in T
    BY <2>1, MaxBounds
  <2> QED BY <2>2
<1>6. g = Body(g)
  <2>1. ASSUME NEW T \in SUBSET (1..n), T # {}
        PROVE  F[Max(T)][g[T \ {Max(T)}]] = TakenBack(g[T \ {Max(T)}], inverses[Max(T)])
    BY <1>0, <1>5, <2>1
  <2>2. g = [T \in SUBSET (1..n) |-> g[T]]
    OBVIOUS
  <2>3. \A T \in SUBSET (1..n) :
            g[T] = IF T = {} THEN state ELSE F[Max(T)][g[T \ {Max(T)}]]
    BY <1>4 DEF Solves
  <2>4. \A T \in SUBSET (1..n) :
            g[T] = IF T = {} THEN state ELSE TakenBack(g[T \ {Max(T)}], inverses[Max(T)])
    BY <2>1, <2>3
  <2> QED BY <2>2, <2>4
<1> PICK h : h = (CHOOSE f : f = Body(f))
  OBVIOUS
<1>7. h = Body(h)
  BY <1>6
<1>8. FoldLeft(TakenBack, state, inverses) = h[1..n]
  <2>1. FoldLeft(TakenBack, state, inverses) =
          (CHOOSE f : f = [T \in SUBSET DOMAIN inverses |->
              IF T = {} THEN state
              ELSE TakenBack(f[T \ {Max(T)}], inverses[Max(T)])])[DOMAIN inverses]
    BY Zenon DEF FoldLeft, MapThenFoldSet
  <2> QED BY <2>1, Zenon
<1>9. FoldedBy(h, F, state, n, V)
  <2>1. h[{}] = state
    BY <1>7
  <2>2. ASSUME NEW T \in SUBSET (1..n), T # {}, h[T \ {Max(T)}] \in V
        PROVE  h[T] = F[Max(T)][h[T \ {Max(T)}]]
    <3>1. h[T] = TakenBack(h[T \ {Max(T)}], inverses[Max(T)])
      BY <1>7, <2>2
    <3> QED BY <1>0, <1>5, <2>2, <3>1
  <2> QED BY <2>1, <2>2 DEF FoldedBy
<1> HIDE DEF Body
<1>10. n \in Nat /\ state \in V
  OBVIOUS
<1>11. \E run \in [0..n -> V] : Runs(run, F, state, n, h[1..n])
  BY ONLY <1>2, <1>9, <1>10, FoldRuns
<1>12. PICK run \in [0..n -> V] : Runs(run, F, state, n, h[1..n])
  BY <1>11
<1>13. \A i \in 1..n : run[i] = TakenBack(run[i - 1], inverses[i])
  <2> SUFFICES ASSUME NEW i \in 1..n PROVE run[i] = TakenBack(run[i - 1], inverses[i])
    OBVIOUS
  <2>1. i - 1 \in 0..n
    OBVIOUS
  <2>2. run[i - 1] \in V
    BY <2>1
  <2>3. run[i] = F[i][run[i - 1]]
    BY <1>12 DEF Runs
  <2> QED BY <1>0, <2>2, <2>3
<1>14. TakenBackRun(run, state, inverses, n)
  BY <1>8, <1>12, <1>13 DEF TakenBackRun, Runs
<1> QED BY <1>14

-----------------------------------------------------------------------------
(***************************************************************************)
(* A press adds rows to the end of the log, of one new act, and moves none.*)
(***************************************************************************)
Longer(l, s, i, u, act, next) ==
    LET m == Len(log)
        news == (m + 1)..Len(l)
    IN  /\ m <= Len(l)
        /\ \A k \in 1..m : l[k] = log[k]
        /\ \A k \in news : /\ Signature(l[k], u, act, next)
                           /\ \E r \in Range(log) : r.thing = l[k].thing
                           /\ \E j \in 1..i : Target(l[k]) = Target(s[j])
        /\ \A j, k \in news : j # k => Target(l[j]) # Target(l[k])

\* The row of an inverse is written at the end: its act has none on that target yet.
LEMMA InverseAppended ==
    ASSUME NEW n \in Nat, acts \in Nat, log \in Seq(Rows(n, acts)), NEW u, NEW next, NEW s,
           NEW m \in Nat, SignedAs(s, m, u, acts + 1, next, n), NEW i \in 1..m,
           NEW l \in Seq(Rows(n, acts + 1)), Longer(l, s, i - 1, u, acts + 1, next),
           NEW y \in Rows(n, acts + 1), Likewise(y, s[i])
    PROVE  Logged(l, y) = Append(l, y)
<1> PICK b : b = acts + 1
  OBVIOUS
<1> PICK x : x = s[i]
  OBVIOUS
<1> PICK V : V = Rows(n, b)
  OBVIOUS
<1> PICK p, q : p = Len(log) /\ q = Len(l)
  OBVIOUS
<1>1. /\ Signature(x, u, b, next) /\ \A j \in 1..(i - 1) : Target(s[j]) # Target(x)
  <2>1. \A j \in 1..(i - 1) : j \in 1..m /\ j # i
    OBVIOUS
  <2>2. \A j \in 1..m : j # i => Target(s[j]) # Target(x)
    BY DEF SignedAs
  <2> QED BY <2>1, <2>2 DEF SignedAs
<1>2. /\ p \in Nat /\ q \in Nat /\ p <= q /\ DOMAIN l = 1..q
      /\ \A k \in 1..p : l[k] = log[k] /\ log[k] \in Rows(n, acts)
      /\ \A r \in Range(l) : \E k \in 1..q : l[k] = r
  BY SeqHas DEF Longer
<1>3. \A k \in (p + 1)..q : \E j \in 1..(i - 1) : Target(l[k]) = Target(s[j])
  BY DEF Longer
<1>4. Signature(y, u, b, next) /\ Target(y) = Target(x)
  BY <1>1 DEF Likewise, Signature, Target
<1>5. ASSUME NEW r \in Range(l), SameTarget(r, y) PROVE FALSE
  <2>1. PICK k \in 1..q : l[k] = r
    BY <1>2
  <2>2. r.act = b /\ Target(r) = Target(y)
    BY <1>4, <1>5 DEF SameTarget, Signature, Target
  <2>3. CASE k \in 1..p
    <3>1. r \in Drafts(n, acts)
      BY <1>2, <2>1, <2>3 DEF Rows
    <3>2. r.act \in 1..acts
      BY <3>1, DraftHas
    <3> QED BY <2>2, <3>2
  <2>4. CASE k \in (p + 1)..q
    <3>1. PICK j \in 1..(i - 1) : Target(r) = Target(s[j])
      BY <1>3, <2>1, <2>4
    <3> QED BY <1>1, <1>4, <2>2, <3>1
  <2> QED BY <1>2, <2>3, <2>4
<1>6. \A r \in Range(l) : ~SameTarget(r, y)
  BY <1>5
<1>7. b \in Nat /\ V = Rows(n, b) /\ l \in Seq(V) /\ y \in V /\ n \in Nat
  OBVIOUS
<1> QED BY ONLY <1>6, <1>7, LoggedIsNew

\* One inverse more leaves the log longer by rows of the new act only.
LEMMA StillLonger ==
    ASSUME NEW n \in Nat, acts \in Nat, log \in Seq(Rows(n, acts)), NEW u, NEW next, NEW s,
           NEW m \in Nat, SignedAs(s, m, u, acts + 1, next, n), NEW i \in 1..m,
           NEW state \in States(n, acts + 1), Longer(state.log, s, i - 1, u, acts + 1, next)
    PROVE  Longer(TakenBack(state, s[i]).log, s, i, u, acts + 1, next)
<1> PICK b : b = acts + 1
  OBVIOUS
<1>0. b \in Nat /\ acts < b
  OBVIOUS
<1> PICK x : x = s[i]
  OBVIOUS
<1> PICK V : V = Rows(n, b)
  OBVIOUS
<1>1. /\ x \in Drafts(n, b) /\ Signature(x, u, b, next) /\ \E r \in Range(log) : r.thing = x.thing
      /\ \A j \in 1..(i - 1) : Target(s[j]) # Target(x)
  <2>1. \A j \in 1..(i - 1) : j \in 1..m /\ j # i
    OBVIOUS
  <2>2. \A j \in 1..m : j # i => Target(s[j]) # Target(x)
    BY DEF SignedAs
  <2>3. \A j \in 1..(i - 1) : Target(s[j]) # Target(x)
    BY <2>1, <2>2
  <2> QED BY <2>3 DEF SignedAs
<1> PICK l : l = state.log
  OBVIOUS
<1>2. l \in Seq(V)
  BY DEF States
<1> PICK p : p = Len(log)
  OBVIOUS
<1> PICK q : q = Len(l)
  OBVIOUS
<1>3. /\ p \in Nat /\ q \in Nat /\ p <= q /\ DOMAIN l = 1..q /\ DOMAIN log = 1..p
      /\ \A k \in 1..p : l[k] = log[k] /\ log[k] \in Rows(n, acts)
      /\ \A r \in Range(l) : \E k \in 1..q : l[k] = r
  BY <1>2, SeqHas, SMTT(20) DEF Longer
<1>4. /\ \A k \in (p + 1)..q : /\ Signature(l[k], u, b, next)
                                /\ \E r \in Range(log) : r.thing = l[k].thing
                                /\ \E j \in 1..(i - 1) : Target(l[k]) = Target(s[j])
      /\ \A j, k \in (p + 1)..q : j # k => Target(l[j]) # Target(l[k])
  BY DEF Longer
<1>5. \A j \in 1..(i - 1) : j \in 1..i
  OBVIOUS
<1>6. CASE TakenBack(state, x) = state
  <2>1. Longer(l, s, i, u, b, next)
    <3>1. \A k \in (p + 1)..q : \E j \in 1..i : Target(l[k]) = Target(s[j])
      BY <1>4, <1>5, SMTT(20)
    <3>2. p <= q /\ \A k \in 1..p : l[k] = log[k]
      BY <1>3
    <3> QED BY <1>4, <3>1, <3>2 DEF Longer
  <2> QED BY <1>6, <2>1
<1>7. ASSUME NEW y \in V, Likewise(y, x), TakenBack(state, x).log = Logged(l, y)
      PROVE  Longer(TakenBack(state, x).log, s, i, u, b, next)
  <2>1. /\ Signature(y, u, b, next) /\ y.thing = x.thing /\ Target(y) = Target(x)
    BY <1>1, <1>7 DEF Likewise, Signature, Target
  <2>2. Logged(l, y) = Append(l, y)
    BY <1>2, <1>7, InverseAppended, SMTT(20)
  <2> PICK t : t = Append(l, y)
    OBVIOUS
  <2>3. /\ Len(t) = q + 1 /\ t[q + 1] = y /\ \A k \in 1..q : t[k] = l[k]
    BY <1>2, <1>3, <1>7, AppendProperties
  <2>4. ASSUME NEW k \in (p + 1)..(q + 1)
        PROVE  \/ k \in (p + 1)..q /\ t[k] = l[k]
               \/ k = q + 1 /\ t[k] = y
    <3>1. k \in Int /\ k >= p + 1 /\ k <= q + 1 /\ p \in Nat /\ q \in Nat
      BY <1>3
    <3>2. k = q + 1 \/ (k \in (p + 1)..q /\ k \in 1..q)
      BY ONLY <3>1
    <3>3. CASE k = q + 1
      BY <2>3, <3>3
    <3>4. CASE k \in (p + 1)..q /\ k \in 1..q
      BY ONLY <2>3, <3>4
    <3> QED BY <3>2, <3>3, <3>4
  <2>5. ASSUME NEW k \in (p + 1)..(q + 1)
        PROVE  /\ Signature(t[k], u, b, next)
               /\ \E r \in Range(log) : r.thing = t[k].thing
               /\ \E j \in 1..i : Target(t[k]) = Target(s[j])
    <3>1. CASE k \in (p + 1)..q /\ t[k] = l[k]
      BY <1>4, <1>5, <3>1
    <3>2. CASE k = q + 1 /\ t[k] = y
      <4>1. i \in 1..i /\ Target(y) = Target(s[i])
        BY <2>1
      <4> QED BY <1>1, <2>1, <3>2, <4>1
    <3> QED BY <2>4, <3>1, <3>2
  <2>6. ASSUME NEW k \in (p + 1)..q PROVE Target(l[k]) # Target(y)
    BY <1>1, <1>4, <2>1
  <2>7. ASSUME NEW j \in (p + 1)..(q + 1), NEW k \in (p + 1)..(q + 1), j # k
        PROVE  Target(t[j]) # Target(t[k])
    <3>1. CASE j \in (p + 1)..q /\ t[j] = l[j] /\ k \in (p + 1)..q /\ t[k] = l[k]
      BY <1>4, <2>7, <3>1, SMTT(20)
    <3> QED BY <2>4, <2>6, <2>7, <3>1
  <2>8. p <= Len(t) /\ \A k \in 1..p : t[k] = log[k]
    BY <1>3, <2>3
  <2>9. Longer(t, s, i, u, b, next)
    <3> PICK z : z = Len(t)
      OBVIOUS
    <3>1. z = q + 1
      BY <2>3
    <3>2. \A k \in (p + 1)..z : /\ Signature(t[k], u, b, next)
                                /\ \E r \in Range(log) : r.thing = t[k].thing
                                /\ \E j \in 1..i : Target(t[k]) = Target(s[j])
      BY ONLY <2>5, <3>1
    <3>3. \A j, k \in (p + 1)..z : j # k => Target(t[j]) # Target(t[k])
      BY ONLY <2>7, <3>1
    <3>4. p = Len(log) /\ z = Len(t)
      OBVIOUS
    <3> QED BY ONLY <2>8, <3>2, <3>3, <3>4 DEF Longer
  <2> QED BY <1>7, <2>2, <2>9
<1>8. \/ TakenBack(state, x) = state
      \/ \E y \in V : Likewise(y, x) /\ TakenBack(state, x).log = Logged(l, y)
  <2>1. n \in Nat /\ b \in Nat /\ state \in States(n, b) /\ x \in Drafts(n, b)
    BY <1>0, <1>1
  <2>2. \/ TakenBack(state, x) = state
        \/ \E y \in Rows(n, b) : WrittenBack(state, x, y)
    BY ONLY <2>1, TakenBackIs
  <2> QED BY <2>2 DEF WrittenBack
<1> QED BY <1>6, <1>7, <1>8

AfterAs(after, u, act, next, n) ==
    LET m == Len(log)
        news == (m + 1)..Len(after.log)
    IN  /\ after.show \in Shows(n) /\ after.log \in Seq(Rows(n, act))
        /\ m <= Len(after.log)
        /\ \A k \in 1..m : after.log[k] = log[k]
        /\ \A k \in news : /\ Signature(after.log[k], u, act, next)
                           /\ \E r \in Range(log) : r.thing = after.log[k].thing
        /\ \A j, k \in news : j # k => Target(after.log[j]) # Target(after.log[k])

\* What a whole press leaves: a show, and a log longer by rows of the new act only.
LEMMA AfterIs ==
    ASSUME NEW n \in Nat, acts \in Nat, show \in Shows(n), log \in Seq(Rows(n, acts)),
           NEW u, NEW next \in 1..acts
    PROVE  AfterAs(After(u, next), u, acts + 1, next, n)
<1> PICK b : b = acts + 1
  OBVIOUS
<1>0. b \in Nat /\ acts <= b
  OBVIOUS
<1> PICK s : s = Signed(u, next)
  OBVIOUS
<1>1. PICK m \in Nat : SignedAs(s, m, u, b, next, n)
  BY SignedIs
<1> PICK V : V = States(n, b)
  OBVIOUS
<1> PICK start : start = [show |-> show, log |-> log]
  OBVIOUS
<1>2. start \in V
  <2>1. Rows(n, acts) \subseteq Rows(n, b)
    BY <1>0, RowsGrow
  <2>2. log \in Seq(Rows(n, b))
    <3>1. Len(log) \in Nat /\ log \in [1..Len(log) -> Rows(n, acts)]
      BY SeqHas
    <3>2. log \in [1..Len(log) -> Rows(n, b)]
      BY <2>1, <3>1
    <3> QED BY <3>1, <3>2, AsSeq
  <2> QED BY <2>2 DEF States
<1>3. /\ DOMAIN s = 1..m
      /\ \A i \in 1..m, state \in V : TakenBack(state, s[i]) \in V
  <2>1. DOMAIN s = 1..m /\ \A i \in 1..m : s[i] \in Drafts(n, b)
    BY <1>1 DEF SignedAs
  <2> QED BY <1>0, <2>1, TakenBackIs
<1>4. PICK run \in [0..m -> V] : TakenBackRun(run, start, s, m)
  BY <1>2, <1>3, TakenBackRuns
<1> DEFINE T == {i \in 0..m : Longer(run[i].log, s, i, u, b, next)}
<1>5. 0 \in T
  <2>1. run[0].log = log
    BY <1>4 DEF TakenBackRun
  <2>2. Len(log) \in Nat
    BY SeqHas
  <2>3. \A k \in (Len(log) + 1)..Len(log) : FALSE
    BY <2>2
  <2>4. Longer(log, s, 0, u, b, next)
    BY <2>2, <2>3 DEF Longer
  <2> QED BY <2>1, <2>4
<1>6. ASSUME NEW i \in 1..m, i - 1 \in T PROVE i \in T
  <2> PICK state : state = run[i - 1]
    OBVIOUS
  <2>1. state \in V /\ run[i] = TakenBack(state, s[i]) /\ i \in 0..m
    BY <1>4 DEF TakenBackRun
  <2>2. Longer(state.log, s, i - 1, u, b, next)
    BY <1>6
  <2>3. Longer(TakenBack(state, s[i]).log, s, i, u, b, next)
    BY <1>1, <2>1, <2>2, StillLonger
  <2> QED BY <2>1, <2>3
<1>7. m \in T
  <2> HIDE DEF T
  <2>1. 0..m \subseteq T
    BY <1>5, <1>6, UpTo
  <2> QED BY <2>1
<1>8. After(u, next) = run[m] /\ run[m] \in V
  <2>1. After(u, next) = FoldLeft(TakenBack, start, s)
    BY DEF After
  <2> QED BY <1>4, <2>1 DEF TakenBackRun
<1>9. Longer(run[m].log, s, m, u, b, next)
  BY <1>7
<1> PICK after : after = run[m]
  OBVIOUS
<1>10. after.show \in Shows(n) /\ after.log \in Seq(Rows(n, b))
  BY <1>8 DEF States
<1>11. AfterAs(after, u, b, next, n)
  BY <1>9, <1>10 DEF AfterAs, Longer
<1> QED BY <1>8, <1>11

-----------------------------------------------------------------------------
(***************************************************************************)
(* What the log is asked for: the newest act of a kind, and what lies at   *)
(* the end of a chain of reversals.                                        *)
(***************************************************************************)
LEMMA SeqGrows ==
    ASSUME NEW S, NEW T, S \subseteq T, NEW s \in Seq(S)
    PROVE  s \in Seq(T)
<1>1. Len(s) \in Nat /\ s \in [1..Len(s) -> S]
  BY SeqHas
<1>2. s \in [1..Len(s) -> T]
  BY <1>1
<1> QED BY <1>1, <1>2, AsSeq

\* The acts of a log are the acts of its rows.
LEMMA KeysAre ==
    ASSUME NEW n \in Nat, NEW a \in Nat, NEW rows \in Seq(Rows(n, a))
    PROVE  /\ Keys(rows) \subseteq 1..a
           /\ \A r \in Range(rows) : r \in Rows(n, a) /\ r \in Drafts(n, a) /\ r.act \in Keys(rows)
           /\ \A act \in Keys(rows) : \E r \in Range(rows) : r.act = act
<1>1. \A r \in Range(rows) : r \in Rows(n, a) /\ r \in Drafts(n, a)
  BY SeqHas DEF Rows
<1>2. \A r \in Range(rows) : r.act \in 1..a
  BY <1>1, DraftHas
<1> QED BY <1>1, <1>2 DEF Keys

\* What an act reverses is what a row of it says.
LEMMA ReversesIs ==
    ASSUME NEW n \in Nat, NEW a \in Nat, NEW rows \in Seq(Rows(n, a)), NEW act \in Keys(rows)
    PROVE  \E r \in Range(rows) : r.act = act /\ r.undoes = Reverses(rows, act)
<1>1. \E r \in Range(rows) : r.act = act
  BY KeysAre
<1> PICK r : r = (CHOOSE q \in Range(rows) : q.act = act)
  OBVIOUS
<1>2. r \in Range(rows) /\ r.act = act
  BY <1>1
<1> QED BY <1>2 DEF Reverses

\* The newest row of an act is a row of it, and none comes after it.
LEMMA NewestRowIs ==
    ASSUME NEW n \in Nat, NEW a \in Nat, NEW rows \in Seq(Rows(n, a)), NEW act \in Keys(rows)
    PROVE  /\ NewestRow(rows, act) \in 1..Len(rows) /\ rows[NewestRow(rows, act)].act = act
           /\ \A i \in 1..Len(rows) : rows[i].act = act => i <= NewestRow(rows, act)
<1> PICK m : m = Len(rows)
  OBVIOUS
<1> PICK S : S = {i \in DOMAIN rows : rows[i].act = act}
  OBVIOUS
<1>1. m \in Nat /\ DOMAIN rows = 1..m /\ \A r \in Range(rows) : \E i \in 1..m : rows[i] = r
  BY SeqHas
<1>2. S \in SUBSET Nat /\ S # {} /\ \A i \in S : i <= m
  <2>1. PICK r \in Range(rows) : r.act = act
    BY KeysAre
  <2>2. PICK i \in 1..m : rows[i] = r
    BY <1>1
  <2>3. i \in S
    BY <1>1, <2>1, <2>2
  <2> QED BY <1>1, <2>3
<1>3. Max(S) \in S /\ \A i \in S : i <= Max(S)
  BY <1>1, <1>2, MaxBounds
<1>4. NewestRow(rows, act) = Max(S)
  BY DEF NewestRow
<1> QED BY <1>1, <1>3, <1>4

Fit(rows, parity) ==
    {a \in Keys(rows) : ChainDepth(rows, a) % 2 = parity /\ InEffect(rows, a)}

NewestOf(rows, S, act) ==
    act \in S /\ \A b \in S : NewestRow(rows, b) <= NewestRow(rows, act)

\* The act found at a parity is the newest of those that fit, or there is none that does.
LEMMA AtParityIs ==
    ASSUME NEW n \in Nat, NEW k \in Nat, NEW rows \in Seq(Rows(n, k)), NEW parity
    PROVE  \/ AtParity(rows, parity) = None /\ Fit(rows, parity) = {}
           \/ NewestOf(rows, Fit(rows, parity), AtParity(rows, parity))
<1> PICK fit : fit = Fit(rows, parity)
  OBVIOUS
<1>1. AtParity(rows, parity) =
        IF fit = {} THEN None
        ELSE CHOOSE act \in fit : \A b \in fit : NewestRow(rows, b) <= NewestRow(rows, act)
  BY DEF AtParity, Fit
<1>2. ASSUME fit # {} PROVE \E act \in fit : \A b \in fit : NewestRow(rows, b) <= NewestRow(rows, act)
  <2> PICK m : m = Len(rows)
    OBVIOUS
  <2>1. fit \subseteq Keys(rows)
    BY DEF Fit
  <2>2. \A b \in fit : NewestRow(rows, b) \in 1..m
    BY <2>1, NewestRowIs
  <2> PICK S : S = {NewestRow(rows, b) : b \in fit}
    OBVIOUS
  <2>3. S \in SUBSET Nat /\ S # {} /\ m \in Nat /\ \A i \in S : i <= m
    BY <1>2, <2>2, SeqHas
  <2>4. Max(S) \in S /\ \A i \in S : i <= Max(S)
    BY <2>3, MaxBounds
  <2>5. PICK act \in fit : NewestRow(rows, act) = Max(S)
    BY <2>4
  <2> QED BY <2>4, <2>5
<1>3. CASE fit = {}
  BY <1>1, <1>3
<1>4. CASE fit # {}
  <2> PICK next : next = AtParity(rows, parity)
    OBVIOUS
  <2>1. next = CHOOSE act \in fit : \A b \in fit : NewestRow(rows, b) <= NewestRow(rows, act)
    BY <1>1, <1>4
  <2>2. next \in fit /\ \A b \in fit : NewestRow(rows, b) <= NewestRow(rows, next)
    BY <1>2, <1>4, <2>1, Zenon
  <2> QED BY <2>2 DEF NewestOf
<1> QED BY <1>3, <1>4

\* What is reversed is in the log, and older than what reverses it.
Anchored(rows) == \A r \in Range(rows) : r.undoes # None => r.undoes \in Keys(rows)

\* An act reverses an older one of the log, or none.
LEMMA ReversesOlder ==
    ASSUME NEW n \in Nat, NEW a \in Nat, NEW rows \in Seq(Rows(n, a)), Anchored(rows),
           NEW act \in Keys(rows)
    PROVE  /\ act \in 1..a
           /\ \/ Reverses(rows, act) = None
              \/ Reverses(rows, act) \in Keys(rows) /\ Reverses(rows, act) < act
<1>1. PICK r \in Range(rows) : r.act = act /\ r.undoes = Reverses(rows, act)
  BY ReversesIs
<1>2. r \in Drafts(n, a)
  BY KeysAre
<1>3. r.undoes < r.act /\ r.act \in 1..a
  BY <1>2, DraftHas
<1> QED BY <1>1, <1>3 DEF Anchored

Beginnings(f, K) ==
    [act \in K |-> IF Reverses(log, act) = None THEN act ELSE f[Reverses(log, act)]]

\* Every act's chain has a beginning, found by following what is reversed.
LEMMA OriginsAre ==
    ASSUME NEW n \in Nat, acts \in Nat, log \in Seq(Rows(n, acts)), Anchored(log)
    PROVE  Origins = Beginnings(Origins, Keys(log)) /\ Origins \in [Keys(log) -> Keys(log)]
<1> PICK K : K = Keys(log)
  OBVIOUS
<1> PICK up : up = [act \in K |-> Reverses(log, act)]
  OBVIOUS
<1>1. \A act \in K : act \in 1..acts /\ (up[act] = None \/ (up[act] \in K /\ up[act] < act))
  BY ReversesOlder
<1> DEFINE Body(f, S) == [act \in S |-> IF up[act] = None THEN act ELSE f[up[act]]]
           T == {m \in 0..acts : \E f \in [{a \in K : a <= m} -> K] : f = Body(f, {a \in K : a <= m})}
<1>2. 0 \in T
  <2> PICK Z : Z = {a \in K : a <= 0}
    OBVIOUS
  <2>1. Z = {}
    BY <1>1
  <2>2. \E f \in [Z -> K] : f = Body(f, Z)
    <3> PICK f : f = [a \in Z |-> 0]
      OBVIOUS
    <3>1. \A a \in Z : FALSE
      BY <2>1
    <3>2. f \in [Z -> K] /\ f = Body(f, Z)
      BY <3>1
    <3> QED BY <3>2
  <2>3. 0 \in 0..acts
    OBVIOUS
  <2> HIDE DEF Body
  <2> QED BY <2>2, <2>3
<1>3. ASSUME NEW m \in 1..acts, m - 1 \in T PROVE m \in T
  <2> PICK B, C : B = {a \in K : a <= m - 1} /\ C = {a \in K : a <= m}
    OBVIOUS
  <2>1. PICK f \in [B -> K] : f = Body(f, B)
    BY <1>3
  <2>2. \A a \in C : /\ a \in K
                     /\ a \in B \/ a = m
                     /\ up[a] = None \/ up[a] \in B
                     /\ a \in B => a # m
    BY <1>1
  <2> PICK g : g = [a \in C |-> IF a = m THEN (IF up[m] = None THEN m ELSE f[up[m]]) ELSE f[a]]
    OBVIOUS
  <2>3. g \in [C -> K]
    <3> SUFFICES ASSUME NEW a \in C PROVE g[a] \in K
      OBVIOUS
    <3> QED BY <2>1, <2>2
  <2>4. B \subseteq C
    BY <1>1
  <2>5. \A a \in B : g[a] = f[a]
    BY <2>2, <2>4
  <2>6. ASSUME NEW a \in C PROVE g[a] = IF up[a] = None THEN a ELSE g[up[a]]
    <3>1. CASE a = m
      BY <2>2, <2>5, <3>1
    <3>2. CASE a # m
      <4>1. a \in B
        BY <2>2, <3>2
      <4>2. f[a] = IF up[a] = None THEN a ELSE f[up[a]]
        BY <2>1, <4>1
      <4> QED BY <2>2, <2>5, <4>1, <4>2
    <3> QED BY <3>1, <3>2
  <2>7. g = Body(g, C)
    <3> HIDE DEF T
    <3>1. g = [a \in C |-> g[a]]
      OBVIOUS
    <3> PICK h : h = Body(g, C)
      OBVIOUS
    <3>2. h = [a \in C |-> h[a]]
      OBVIOUS
    <3>3. ASSUME NEW a \in C PROVE h[a] = g[a]
      <4>1. h[a] = IF up[a] = None THEN a ELSE g[up[a]]
        OBVIOUS
      <4> QED BY <2>6, <4>1
    <3> HIDE DEF Body
    <3>4. h = g
      BY <3>1, <3>2, <3>3
    <3> QED BY <3>4
  <2>8. m \in 0..acts
    OBVIOUS
  <2>9. \E h \in [C -> K] : h = Body(h, C)
    BY <2>3, <2>7
  <2> HIDE DEF Body
  <2> QED BY <2>8, <2>9
<1>4. acts \in T
  <2> HIDE DEF T
  <2>1. 0..acts \subseteq T
    BY <1>2, <1>3, UpTo
  <2> QED BY <2>1
<1>5. {a \in K : a <= acts} = K
  BY <1>1
<1>6. PICK f \in [K -> K] : f = Body(f, K)
  BY <1>4, <1>5
<1>7. \A h : Beginnings(h, K) = Body(h, K)
  BY DEF Beginnings
<1>8. Origins = CHOOSE h : h = Beginnings(h, K)
  BY Zenon DEF Origins, Beginnings
<1>9. Origins = Beginnings(Origins, K)
  <2>1. f = Beginnings(f, K)
    BY <1>6, <1>7
  <2> QED BY <1>8, <2>1, Zenon
<1> PICK origin : origin = Origins
  OBVIOUS
<1>10. origin = [act \in K |-> IF up[act] = None THEN act ELSE origin[up[act]]]
  BY <1>7, <1>9
<1> DEFINE R == {m \in 0..acts : \A a \in K : a <= m => origin[a] \in K}
<1>11. 0 \in R
  BY <1>1
<1>12. ASSUME NEW m \in 1..acts, m - 1 \in R PROVE m \in R
  <2> SUFFICES ASSUME NEW a \in K, a <= m PROVE origin[a] \in K
    OBVIOUS
  <2>1. a \in 1..acts /\ (up[a] = None \/ (up[a] \in K /\ up[a] < a))
    BY <1>1
  <2>2. origin[a] = IF up[a] = None THEN a ELSE origin[up[a]]
    BY <1>10
  <2>3. up[a] # None => up[a] \in K /\ up[a] <= m - 1
    <3>1. up[a] # None => up[a] \in 1..acts
      BY <1>1, <2>1
    <3> QED BY <2>1, <3>1
  <2> QED BY <1>12, <2>2, <2>3
<1>13. acts \in R
  <2> HIDE DEF R
  <2>1. 0..acts \subseteq R
    BY <1>11, <1>12, UpTo
  <2> QED BY <2>1
<1>14. \A a \in K : origin[a] \in K
  BY <1>1, <1>13
<1>15. origin \in [K -> K]
  BY <1>10, <1>14
<1> QED BY <1>9, <1>15

-----------------------------------------------------------------------------
(***************************************************************************)
(* Types, and what makes them inductive: a gesture has one row to a target *)
(* because a row that made something was the first to write it, and what a *)
(* press reverses is in the log.                                           *)
(***************************************************************************)
Pressing == {"act", "undo", "redo"}

Bounded ==
    /\ size \in Sizes
    /\ writes \in 0..size[1] /\ presses \in 0..size[2]
    /\ acts \in 0..(writes + presses)

Logs ==
    /\ show \in Shows(size[1])
    /\ log \in Seq(Rows(size[1], acts))
    /\ Once(log)
    /\ Anchored(log)
    /\ \A r \in Range(log) : hands[r.thing] # {}

Histories ==
    /\ open \in [Users -> 0..acts]
    /\ hands \in [Things -> SUBSET (Users \cup {Nobody})]
    /\ done \in [Users -> Seq(1..acts)] /\ undone \in [Users -> Seq(1..acts)]
    /\ lastly \in [Users -> Pressing]
    /\ last.user \in Users \cup {Nobody}

TypeInv == Bounded /\ Logs /\ Histories

\* The inductive invariant says every variable has its type.
LEMMA TypeInvImplies == TypeInv => TypeOK
<1> SUFFICES ASSUME TypeInv PROVE TypeOK
  OBVIOUS
<1> PICK n : n = size[1]
  OBVIOUS
<1>1. n \in Nat /\ acts \in Nat
  <2>1. size \in Nat \X Nat
    BY SizesAssumption DEF TypeInv, Bounded
  <2>2. n \in Nat /\ size[2] \in Nat
    BY <2>1
  <2> QED BY <2>2 DEF TypeInv, Bounded
<1>2. show \in Shows(n) /\ log \in Seq(Rows(n, acts)) /\ Once(log)
  BY DEF TypeInv, Logs
<1>3. \A t \in Things : show[t] = Absent \/ show[t] \in [Fields -> 0..size[1]]
  BY <1>2 DEF Shows, Whole
<1>4. \A r \in Range(log) :
        /\ {r.act, r.undoes} \subseteq 0..acts /\ r.undoes < r.act
        /\ r.user \in Users /\ r.thing \in Things
        /\ r.verb \in {"create", "delete", "field"}
  <2> SUFFICES ASSUME NEW r \in Range(log)
               PROVE  /\ {r.act, r.undoes} \subseteq 0..acts /\ r.undoes < r.act
                      /\ r.user \in Users /\ r.thing \in Things
                      /\ r.verb \in {"create", "delete", "field"}
    OBVIOUS
  <2>1. r \in Drafts(n, acts)
    BY <1>1, <1>2, KeysAre
  <2> QED BY <1>1, <2>1, DraftHas DEF Verbs
<1>5. \A i, j \in DOMAIN log : i # j /\ SameTarget(log[i], log[j]) => FALSE
  BY <1>2 DEF Once
<1>6. \A u \in Users : Range(done[u]) \cup Range(undone[u]) \subseteq 1..acts
  <2> SUFFICES ASSUME NEW u \in Users PROVE Range(done[u]) \cup Range(undone[u]) \subseteq 1..acts
    OBVIOUS
  <2>1. done[u] \in Seq(1..acts) /\ undone[u] \in Seq(1..acts)
    BY DEF TypeInv, Histories
  <2>2. \A s \in Seq(1..acts) : Range(s) \subseteq 1..acts
    BY SeqHas
  <2> QED BY <2>1, <2>2
<1>7. open \in [Users -> 0..acts] /\ last.user \in Users \cup {Nobody}
  BY DEF TypeInv, Histories
<1> QED BY <1>3, <1>4, <1>5, <1>6, <1>7 DEF TypeOK

\* The types hold at the start.
LEMMA TypeInit == Init => TypeInv
<1> SUFFICES ASSUME Init PROVE TypeInv
  OBVIOUS
<1> USE DEF Init
<1>1. size \in Nat \X Nat
  BY SizesAssumption
<1> PICK n : n = size[1]
  OBVIOUS
<1>2. n \in Nat /\ size[2] \in Nat
  BY <1>1
<1>3. Bounded
  BY <1>1, <1>2 DEF Bounded
<1>4. Logs
  <2>1. Fresh(0) \in Whole(n)
    BY <1>2 DEF Fresh, Whole
  <2>2. show \in Shows(n)
    BY <2>1 DEF Shows
  <2>3. log \in Seq(Rows(n, acts)) /\ DOMAIN log = {} /\ Range(log) = {}
    BY EmptySeq, NothingIsSeq DEF Range
  <2> QED BY <2>2, <2>3 DEF Logs, Once, Anchored
<1>5. Histories
  <2>1. open \in [Users -> 0..acts]
    BY DEF None
  <2>2. <<>> \in Seq(1..acts)
    BY EmptySeq
  <2>3. done \in [Users -> Seq(1..acts)] /\ undone \in [Users -> Seq(1..acts)]
    BY <2>2
  <2>4. hands \in [Things -> SUBSET (Users \cup {Nobody})]
    OBVIOUS
  <2>5. lastly \in [Users -> Pressing] /\ last.user \in Users \cup {Nobody}
    BY DEF Pressing, NoPress
  <2> QED BY <2>1, <2>3, <2>4, <2>5 DEF Histories
<1> QED BY <1>3, <1>4, <1>5 DEF TypeInv

\* The rows a client may write.
Deed(verb, field) ==
    \/ verb = "field" /\ field \in Fields
    \/ verb \in {"create", "delete"} /\ field = "all"

Entry(u, act, verb, thing, field) ==
    [user |-> u, act |-> act, undoes |-> None, verb |-> verb,
     thing |-> thing, field |-> field, value |-> Value(verb, field),
     previous |-> ValueBefore(show, verb, thing, field)]

ActOf(u) == IF open[u] = None THEN acts + 1 ELSE open[u]

\* A command's own row is one that may be logged.
LEMMA EntryIs ==
    ASSUME NEW n \in Nat, NEW b \in Nat, writes \in Nat, writes + 1 <= n, show \in Shows(n),
           NEW u \in Users, NEW act \in 1..b, NEW verb, NEW thing \in Things, NEW field,
           Deed(verb, field), ~Refused(show, verb, thing)
    PROVE  /\ Entry(u, act, verb, thing, field) \in Rows(n, b)
           /\ Written(Entry(u, act, verb, thing, field), n)
<1> PICK v, p : v = Value(verb, field) /\ p = ValueBefore(show, verb, thing, field)
  OBVIOUS
<1> PICK x : x = [user |-> u, act |-> act, undoes |-> None, verb |-> verb,
                  thing |-> thing, field |-> field, value |-> v, previous |-> p]
  OBVIOUS
<1>1. Entry(u, act, verb, thing, field) = x
  BY DEF Entry
<1>2. /\ x.user = u /\ x.act = act /\ x.undoes = None /\ x.verb = verb /\ x.thing = thing
      /\ x.field = field /\ x.value = v /\ x.previous = p
  OBVIOUS
<1>3. verb \in Verbs /\ field \in Fields \cup {"all"}
  BY DEF Deed, Verbs
<1>4. v \in Worths(n) /\ Written(x, n)
  <2>1. writes + 1 \in 0..n
    OBVIOUS
  <2>2. CASE verb = "create"
    <3>1. v = Fresh(writes + 1)
      BY <2>2 DEF Value
    <3>2. v \in Whole(n)
      BY <2>1, <3>1 DEF Fresh, Whole
    <3> QED BY <1>2, <2>2, <3>2 DEF Written, Worths, Deed
  <2>3. CASE verb = "delete"
    <3>1. v = Absent
      BY <2>3 DEF Value
    <3> QED BY <1>2, <2>3, <3>1 DEF Written, Worths, Deed
  <2>4. CASE verb = "field"
    <3>1. v = [f \in {field} |-> writes + 1]
      BY <2>4 DEF Value
    <3>2. v \in Part(field, n) /\ field \in Fields
      BY <2>1, <2>4, <3>1 DEF Part, Deed
    <3> QED BY <1>2, <2>4, <3>2 DEF Written, Worths
  <2> QED BY <1>3, <2>2, <2>3, <2>4 DEF Verbs
<1>5. x.previous \in Worths(n) /\ Preceded(x, n)
  <2>1. ~Refused(show, x.verb, x.thing) /\ x.thing \in Things /\ x.verb \in Verbs
    BY <1>2, <1>3
  <2>2. x.previous = ValueBefore(show, x.verb, x.thing, x.field)
    BY <1>2
  <2> QED BY <1>4, <2>1, <2>2, ValueBeforeIs
<1>6. x \in [user : Users, act : 1..b, undoes : 0..b, verb : Verbs, thing : Things,
             field : Fields \cup {"all"}, value : Worths(n), previous : Worths(n)]
  BY <1>2, <1>3, <1>4, <1>5 DEF None
<1>7. x.undoes < x.act
  BY <1>2 DEF None
<1>8. x \in Rows(n, b)
  BY <1>4, <1>5, <1>6, <1>7 DEF Rows, Drafts
<1> QED BY <1>1, <1>4, <1>8

\* A row logged leaves every act in the log, and its own with them.
LEMMA LoggedKeys ==
    ASSUME NEW V, NEW rows, NEW x, NEW y, NEW l, LoggedAs(rows, x, y, l, V)
    PROVE  Keys(l) = Keys(rows) \cup {x.act}
<1>1. /\ y.act = x.act
      /\ Range(l) = {r \in Range(rows) : ~SameTarget(r, x)} \cup {y}
  BY DEF LoggedAs
<1>2. ASSUME NEW r \in Range(rows) PROVE r.act \in Keys(l)
  BY <1>1 DEF Keys, SameTarget
<1>3. \A r \in Range(l) : r \in Range(rows) \/ r.act = x.act
  BY <1>1
<1>4. x.act \in Keys(l)
  BY <1>1 DEF Keys
<1> QED BY <1>2, <1>3, <1>4 DEF Keys

\* A write of a client: the row it logs, over a log of acts so far.
Wrote(u, verb, thing, field) ==
    \E x, y : /\ x = Entry(u, ActOf(u), verb, thing, field)
              /\ x \in Rows(size[1], acts') /\ Written(x, size[1]) /\ ActOf(u) \in 1..acts'
              /\ LoggedAs(log, x, y, log', Rows(size[1], acts'))

\* The counters are numbers within their bounds.
LEMMA BoundedIs ==
    ASSUME Bounded
    PROVE  /\ size[1] \in Nat /\ size[2] \in Nat /\ writes \in Nat /\ presses \in Nat
           /\ acts \in Nat /\ acts <= writes + presses /\ writes <= size[1] /\ presses <= size[2]
<1>1. size[1] \in Nat /\ size[2] \in Nat
  BY SizesAssumption DEF Bounded
<1>2. writes \in Nat /\ presses \in Nat /\ writes <= size[1] /\ presses <= size[2]
  BY <1>1 DEF Bounded
<1> QED BY <1>1, <1>2 DEF Bounded

\* A write is one row logged, of the open gesture or of a new act.
LEMMA WroteIs ==
    ASSUME TypeInv, NEW u \in Users, NEW verb, NEW thing \in Things, NEW field, NEW keep,
           Deed(verb, field), Write(u, verb, thing, field, keep)
    PROVE  /\ Wrote(u, verb, thing, field)
           /\ acts' \in Nat /\ acts <= acts' /\ acts' <= acts + 1
           /\ log \in Seq(Rows(size[1], acts'))
<1> PICK n, b, act : n = size[1] /\ b = acts' /\ act = ActOf(u)
  OBVIOUS
<1>1. /\ n \in Nat /\ writes \in Nat /\ acts \in Nat /\ show \in Shows(n)
      /\ log \in Seq(Rows(n, acts)) /\ Once(log) /\ open[u] \in 0..acts
  BY BoundedIs DEF TypeInv, Logs, Histories
<1>2. /\ writes < n /\ ~Refused(show, verb, thing)
      /\ b = (IF open[u] = None THEN acts + 1 ELSE acts)
  BY DEF Write
<1>3. act = (IF open[u] = None THEN acts + 1 ELSE open[u])
  BY DEF ActOf
<1>4. b \in Nat /\ acts <= b /\ b <= acts + 1 /\ act \in 1..b /\ writes + 1 <= n
  BY <1>1, <1>2, <1>3 DEF None
<1> PICK V : V = Rows(n, b)
  OBVIOUS
<1>5. log \in Seq(V)
  <2>1. Rows(n, acts) \subseteq Rows(n, b)
    BY <1>1, <1>4, RowsGrow
  <2> QED BY <1>1, <2>1, SeqGrows
<1> PICK x : x = Entry(u, act, verb, thing, field)
  OBVIOUS
<1>6. x \in V /\ Written(x, n)
  BY <1>1, <1>2, <1>4, EntryIs
<1>7. log' = Logged(log, x)
  BY <1>3 DEF Write, Entry
<1>8. x.verb = verb /\ x.thing = thing
  BY DEF Entry
<1>9. ASSUME x.verb = "create", NEW r \in Range(log) PROVE ~SameTarget(r, x)
  <2>1. hands[thing] = {}
    BY <1>8, <1>9 DEF Write
  <2>2. hands[r.thing] # {}
    BY <1>9 DEF TypeInv, Logs
  <2> QED BY <1>8, <2>1, <2>2 DEF SameTarget
<1>10. \E y : LoggedAs(log, x, y, Logged(log, x), V)
  BY <1>1, <1>4, <1>5, <1>6, <1>9, LoggedIs
<1>11. PICK y : LoggedAs(log, x, y, Logged(log, x), V)
  BY <1>10
<1>12. Wrote(u, verb, thing, field)
  <2>1. /\ x = Entry(u, ActOf(u), verb, thing, field) /\ x \in Rows(size[1], acts')
        /\ Written(x, size[1]) /\ ActOf(u) \in 1..acts'
        /\ LoggedAs(log, x, y, log', Rows(size[1], acts'))
    BY <1>4, <1>6, <1>7, <1>11
  <2> QED BY <2>1, Zenon DEF Wrote
<1>13. acts' \in Nat /\ acts <= acts' /\ acts' <= acts + 1
  BY <1>4
<1>14. log \in Seq(Rows(size[1], acts'))
  BY <1>5
<1> QED BY ONLY <1>12, <1>13, <1>14

\* A user's write keeps the types.
LEMMA TypeWrite ==
    ASSUME TypeInv, NEW u \in Users, NEW verb, NEW thing \in Things, NEW field, NEW keep,
           Deed(verb, field), Write(u, verb, thing, field, keep)
    PROVE  TypeInv'
<1> PICK n, b, act : n = size[1] /\ b = acts' /\ act = ActOf(u)
  OBVIOUS
<1>1. /\ n \in Nat /\ writes \in Nat /\ presses \in Nat /\ acts \in Nat /\ show \in Shows(n)
      /\ acts <= writes + presses
      /\ log \in Seq(Rows(n, acts)) /\ Anchored(log) /\ open[u] \in 0..acts
      /\ \A r \in Range(log) : hands[r.thing] # {}
      /\ hands \in [Things -> SUBSET (Users \cup {Nobody})]
  BY BoundedIs DEF TypeInv, Logs, Histories
<1>2. b \in Nat /\ acts <= b /\ b <= acts + 1 /\ Wrote(u, verb, thing, field)
  BY WroteIs
<1> PICK V : V = Rows(n, b)
  OBVIOUS
<1>3. PICK x, y : /\ x = Entry(u, act, verb, thing, field) /\ Written(x, n)
                  /\ act \in 1..b /\ LoggedAs(log, x, y, log', V)
  BY <1>2 DEF Wrote
<1>4. /\ x.user = u /\ x.act = act /\ x.undoes = None /\ x.thing = thing /\ x.verb = verb
      /\ x.value = Value(verb, field)
  BY <1>3 DEF Entry
<1>5. /\ y.act = act /\ y.undoes = None /\ y.thing = thing /\ log' \in Seq(V) /\ Once(log')
      /\ Range(log') = {r \in Range(log) : ~SameTarget(r, x)} \cup {y}
  BY <1>3, <1>4 DEF LoggedAs
<1>6. size' = size /\ presses' = presses /\ writes' = writes + 1 /\ writes < n
  BY DEF Write
<1>7. Bounded'
  <2>1. size \in Sizes /\ presses \in 0..size[2]
    BY DEF TypeInv, Bounded
  <2>2. b \in 0..(writes + 1 + presses) /\ writes + 1 \in 0..n
    BY <1>1, <1>2, <1>6
  <2> QED BY <1>6, <2>1, <2>2 DEF Bounded
<1>8. Logs'
  <2>1. show' \in Shows(n)
    <3>1. show' = Applied(show, x.verb, x.thing, x.value) /\ ~Refused(show, x.verb, x.thing)
      BY <1>4 DEF Write
    <3> QED BY <1>1, <1>3, <1>4, <3>1, AppliedIs
  <2>2. Keys(log') = Keys(log) \cup {act}
    BY <1>3, <1>4, LoggedKeys
  <2>3. Anchored(log')
    <3> SUFFICES ASSUME NEW r \in Range(log'), r.undoes # None PROVE r.undoes \in Keys(log')
      BY DEF Anchored
    <3>1. r \in Range(log)
      BY <1>5
    <3> QED BY <1>1, <2>2, <3>1 DEF Anchored
  <2>4. hands' = [hands EXCEPT ![thing] = @ \cup {u}]
    BY DEF Write
  <2>5. ASSUME NEW r \in Range(log') PROVE hands'[r.thing] # {}
    <3>1. CASE r \in Range(log)
      <4>1. r.thing \in Things /\ hands[r.thing] # {}
        BY <1>1, <3>1, KeysAre, DraftHas
      <4> QED BY <1>1, <2>4, <4>1
    <3>2. CASE r = y
      BY <1>1, <1>5, <2>4, <3>2
    <3> QED BY <1>5, <3>1, <3>2
  <2> QED BY <1>5, <1>6, <2>1, <2>3, <2>5 DEF Logs
<1>9. Histories'
  <2>1. 0..acts \subseteq 0..b /\ 1..acts \subseteq 1..b /\ act \in 0..b
    BY <1>1, <1>2, <1>3
  <2>2. open' \in [Users -> 0..b]
    <3>1. open' = [open EXCEPT ![u] = IF keep THEN act ELSE None]
      BY DEF Write, ActOf
    <3>2. open \in [Users -> 0..acts]
      BY DEF TypeInv, Histories
    <3>3. None \in 0..b
      BY <1>2 DEF None
    <3> QED BY <2>1, <3>1, <3>2, <3>3
  <2>3. hands' \in [Things -> SUBSET (Users \cup {Nobody})]
    BY <1>1 DEF Write
  <2>4. /\ done \in [Users -> Seq(1..acts)] /\ undone \in [Users -> Seq(1..acts)]
        /\ lastly \in [Users -> Pressing]
    BY DEF TypeInv, Histories
  <2>5. done \in [Users -> Seq(1..b)] /\ undone \in [Users -> Seq(1..b)]
    <3>1. \A s \in Seq(1..acts) : s \in Seq(1..b)
      BY <2>1, SeqGrows
    <3> QED BY <2>4, <3>1
  <2>6. done' \in [Users -> Seq(1..b)] /\ lastly' \in [Users -> Pressing]
    <3>1. CASE open[u] = None
      <4>1. /\ done' = [done EXCEPT ![u] = Append(@, acts + 1)]
            /\ lastly' = [lastly EXCEPT ![u] = "act"] /\ b = acts + 1
        BY <3>1 DEF Write
      <4>2. done[u] \in Seq(1..b) /\ acts + 1 \in 1..b
        BY <1>1, <2>5, <4>1
      <4>3. Append(done[u], acts + 1) \in Seq(1..b)
        BY <4>2, AppendProperties
      <4> QED BY <2>4, <2>5, <4>1, <4>3 DEF Pressing
    <3>2. CASE open[u] # None
      BY <2>4, <2>5, <3>2 DEF Write
    <3> QED BY <3>1, <3>2
  <2>7. undone' = undone /\ last'.user = Nobody
    BY DEF Write
  <2> QED BY <2>2, <2>3, <2>5, <2>6, <2>7 DEF Histories
<1> QED BY <1>7, <1>8, <1>9 DEF TypeInv

\* The console's own write keeps the types.
LEMMA TypeConsoleWrite ==
    ASSUME TypeInv, NEW thing \in Things, ConsoleWrite(thing)
    PROVE  TypeInv'
<1> USE DEF ConsoleWrite
<1> PICK n : n = size[1]
  OBVIOUS
<1>1. /\ n \in Nat /\ size \in Sizes /\ writes \in Nat /\ presses \in Nat
      /\ presses \in 0..size[2] /\ acts \in Nat /\ show \in Shows(n)
      /\ acts <= writes + presses
      /\ hands \in [Things -> SUBSET (Users \cup {Nobody})]
  <2>1. size \in Sizes /\ presses \in 0..size[2]
    BY DEF TypeInv, Bounded
  <2> QED BY <2>1, BoundedIs DEF TypeInv, Logs, Histories
<1>2. Bounded'
  BY <1>1 DEF Bounded
<1>3. show' \in Shows(n)
  <2> PICK x : x = [verb |-> "field", thing |-> thing, field |-> "level",
                    value |-> Value("field", "level")]
    OBVIOUS
  <2>1. /\ x.verb = "field" /\ x.thing = thing /\ x.field = "level"
        /\ x.value = Value("field", "level")
    OBVIOUS
  <2>2. Value("field", "level") = [f \in {"level"} |-> writes + 1] /\ writes + 1 \in 0..n
    BY <1>1 DEF Value
  <2>3. Written(x, n)
    BY <2>1, <2>2, FieldsDiffer DEF Written, Part
  <2>4. ~Refused(show, x.verb, x.thing)
    BY <2>1
  <2> QED BY <1>1, <2>1, <2>3, <2>4, AppliedIs
<1>4. hands' = [hands EXCEPT ![thing] = @ \cup {Nobody}]
  OBVIOUS
<1>5. Logs'
  <2>1. /\ log \in Seq(Rows(n, acts)) /\ Once(log) /\ Anchored(log)
        /\ \A r \in Range(log) : hands[r.thing] # {}
    BY DEF TypeInv, Logs
  <2>2. \A t \in Things : hands[t] # {} => hands'[t] # {}
    BY <1>1, <1>4
  <2>3. \A r \in Range(log) : r.thing \in Things
    BY <1>1, <2>1, KeysAre, DraftHas
  <2> QED BY <1>3, <2>1, <2>2, <2>3 DEF Logs
<1>6. Histories'
  <2>1. hands' \in [Things -> SUBSET (Users \cup {Nobody})]
    BY <1>1, <1>4
  <2>2. last'.user = Nobody
    OBVIOUS
  <2> QED BY <2>1, <2>2 DEF TypeInv, Histories
<1> QED BY <1>2, <1>5, <1>6 DEF TypeInv

\* What a press leaves in the log: all that was there, and rows of the new act.
LEMMA AfterHas ==
    ASSUME NEW n \in Nat, acts \in Nat, log \in Seq(Rows(n, acts)), NEW u, NEW next, NEW after,
           AfterAs(after, u, acts + 1, next, n)
    PROVE  /\ Range(log) \subseteq Range(after.log)
           /\ \A r \in Range(after.log) :
                  \/ r \in Range(log)
                  \/ /\ Signature(r, u, acts + 1, next)
                     /\ \E s \in Range(log) : s.thing = r.thing
           /\ Keys(log) \subseteq Keys(after.log)
           /\ \A act \in Keys(after.log) : act \in Keys(log) \/ act = acts + 1
           /\ acts + 1 \in Keys(after.log) <=> after.log # log
           /\ Once(log) => Once(after.log)
<1> PICK b, l, m, q : b = acts + 1 /\ l = after.log /\ m = Len(log) /\ q = Len(l)
  OBVIOUS
<1>1. /\ b \in Nat /\ l \in Seq(Rows(n, b)) /\ m <= q
      /\ \A k \in 1..m : l[k] = log[k]
      /\ \A k \in (m + 1)..q : Signature(l[k], u, b, next) /\ \E r \in Range(log) : r.thing = l[k].thing
      /\ \A j, k \in (m + 1)..q : j # k => Target(l[j]) # Target(l[k])
  BY DEF AfterAs
<1>2. /\ m \in Nat /\ DOMAIN log = 1..m
      /\ \A k \in 1..m : log[k] \in Range(log) /\ log[k] \in Rows(n, acts)
      /\ \A r \in Range(log) : \E k \in 1..m : log[k] = r
  BY SeqHas
<1>3. /\ q \in Nat /\ DOMAIN l = 1..q /\ \A k \in 1..q : l[k] \in Range(l)
      /\ \A r \in Range(l) : \E k \in 1..q : l[k] = r
  <2>1. l \in Seq(Rows(n, b))
    BY <1>1
  <2>2. /\ Len(l) \in Nat /\ DOMAIN l = 1..Len(l)
        /\ \A k \in 1..Len(l) : l[k] \in Range(l)
        /\ \A r \in Range(l) : \E k \in 1..Len(l) : l[k] = r
    BY ONLY <2>1, SeqHas
  <2> QED BY <2>2
<1>4. /\ \A k \in 1..m : k \in 1..q
      /\ \A k \in 1..q : k \in 1..m \/ k \in (m + 1)..q
      /\ \A k \in (m + 1)..q : k \in 1..q
  BY <1>1, <1>2, <1>3
<1>5. Range(log) \subseteq Range(l)
  <2> SUFFICES ASSUME NEW r \in Range(log) PROVE r \in Range(l)
    OBVIOUS
  <2>1. PICK k \in 1..m : log[k] = r
    BY <1>2
  <2>2. l[k] = r /\ k \in 1..q
    BY <1>1, <1>4, <2>1
  <2> QED BY <1>3, <2>2
<1>6. ASSUME NEW r \in Range(l)
      PROVE  \/ r \in Range(log)
             \/ Signature(r, u, b, next) /\ \E s \in Range(log) : s.thing = r.thing
  <2>1. PICK k \in 1..q : l[k] = r
    BY <1>3
  <2>2. CASE k \in 1..m
    BY <1>1, <1>2, <2>1, <2>2
  <2>3. CASE k \in (m + 1)..q
    BY <1>1, <2>1, <2>3
  <2> QED BY <1>4, <2>1, <2>2, <2>3
<1>7. Keys(log) \subseteq Keys(l) /\ \A act \in Keys(l) : act \in Keys(log) \/ act = b
  BY <1>5, <1>6 DEF Keys, Signature
<1>8. \A k \in 1..m : log[k].act \in 1..acts
  BY <1>2, DraftHas DEF Rows
<1>9. b \in Keys(l) <=> l # log
  <2>1. ASSUME l # log PROVE b \in Keys(l)
    <3>1. m # q
      <4> SUFFICES ASSUME m = q PROVE l = log
        BY <2>1
      <4>1. l \in [1..q -> Rows(n, b)]
        BY <1>1, SeqHas
      <4>2. log \in [1..m -> Rows(n, acts)]
        BY SeqHas
      <4>3. l \in [1..m -> Rows(n, b)]
        BY <4>1, m = q
      <4> QED BY <1>1, <4>2, <4>3
    <3>2. q \in (m + 1)..q
      BY <1>1, <1>2, <1>3, <3>1
    <3>3. l[q].act = b /\ l[q] \in Range(l)
      BY <1>1, <1>3, <1>4, <3>2 DEF Signature
    <3> QED BY <3>3 DEF Keys
  <2>2. ASSUME b \in Keys(log) PROVE FALSE
    <3>1. PICK r \in Range(log) : r.act = b
      BY <2>2 DEF Keys
    <3>2. b \in 1..acts
      BY <1>2, <1>8, <3>1
    <3> QED BY <1>1, <3>2
  <2> QED BY <2>1, <2>2
<1>10. ASSUME Once(log), NEW i \in 1..q, NEW j \in 1..q, SameTarget(l[i], l[j]) PROVE i = j
  <2>1. l[i].act = l[j].act /\ Target(l[i]) = Target(l[j])
    BY <1>10 DEF SameTarget, Target
  <2>2. ASSUME NEW k \in 1..m PROVE l[k].act \in 1..acts
    BY <1>1, <1>8
  <2>3. ASSUME NEW k \in (m + 1)..q PROVE l[k].act = b
    BY <1>1 DEF Signature
  <2>4. b \notin 1..acts
    BY <1>1
  <2>5. CASE i \in 1..m /\ j \in 1..m
    BY <1>1, <1>2, <1>10, <2>5 DEF Once
  <2>6. CASE i \in (m + 1)..q /\ j \in (m + 1)..q
    BY <1>1, <2>1, <2>6
  <2> QED BY <1>4, <2>1, <2>2, <2>3, <2>4, <2>5, <2>6
<1>11. Once(log) => Once(l)
  BY <1>3, <1>10 DEF Once
<1> QED BY <1>5, <1>6, <1>7, <1>9, <1>11

NextTo(u, redo) == IF redo THEN NextToRedo(u) ELSE NextToUndo(u)

\* What a press is about is an act of the user's, in the log.
LEMMA NextIs ==
    ASSUME TypeInv, NEW u \in Users, NEW redo \in BOOLEAN, NextTo(u, redo) # None
    PROVE  /\ NextTo(u, redo) \in Keys(Mine(u)) /\ NextTo(u, redo) \in Keys(log)
           /\ NextTo(u, redo) \in 1..acts
<1> PICK n : n = size[1]
  OBVIOUS
<1>1. n \in Nat /\ acts \in Nat /\ log \in Seq(Rows(n, acts))
  BY BoundedIs DEF TypeInv, Logs
<1>2. Mine(u) \in Seq(Rows(n, acts)) /\ \A r \in Range(Mine(u)) : r \in Range(log)
  BY <1>1, MineIs
<1>3. ASSUME NEW parity, AtParity(Mine(u), parity) # None
      PROVE  AtParity(Mine(u), parity) \in Keys(Mine(u))
  <2>1. AtParity(Mine(u), parity) \in Fit(Mine(u), parity)
    BY <1>1, <1>2, <1>3, AtParityIs DEF NewestOf
  <2> QED BY <2>1 DEF Fit
<1>4. NextTo(u, redo) \in Keys(Mine(u))
  BY <1>3 DEF NextTo, NextToRedo, NextToUndo
<1>5. Keys(Mine(u)) \subseteq Keys(log)
  BY <1>2 DEF Keys
<1>6. Keys(log) \subseteq 1..acts
  BY <1>1, KeysAre
<1> QED BY <1>4, <1>5, <1>6

\* Leaving an act out of a stack leaves a stack.
LEMMA WithoutIs ==
    ASSUME NEW V, NEW s \in Seq(V), NEW x
    PROVE  Without(s, x) \in Seq(V)
<1> PICK S : S = Range(s) \ {x}
  OBVIOUS
<1>1. Among(S, s) \in Seq(V)
  BY AmongHas
<1> QED BY <1>1 DEF Without

\* A press of undo or of redo keeps the types.
LEMMA TypePress ==
    ASSUME TypeInv, NEW u \in Users, NEW redo \in BOOLEAN, Press(u, redo)
    PROVE  TypeInv'
<1> PICK n, b : n = size[1] /\ b = acts + 1
  OBVIOUS
<1> PICK next : next = NextTo(u, redo)
  OBVIOUS
<1> PICK after : after = After(u, next)
  OBVIOUS
<1> PICK origin : origin = Origin(next)
  OBVIOUS
<1>1. /\ n \in Nat /\ writes \in Nat /\ presses \in Nat /\ acts \in Nat /\ show \in Shows(n)
      /\ acts <= writes + presses
      /\ log \in Seq(Rows(n, acts)) /\ Anchored(log) /\ Once(log)
      /\ \A r \in Range(log) : hands[r.thing] # {}
      /\ hands \in [Things -> SUBSET (Users \cup {Nobody})]
  BY BoundedIs DEF TypeInv, Logs, Histories
<1>2. /\ presses < size[2] /\ next # None /\ presses' = presses + 1 /\ acts' = b
      /\ show' = after.show /\ log' = after.log /\ writes' = writes /\ size' = size
      /\ open' = open
      /\ hands' = [t \in Things |-> IF after.show[t] # show[t] THEN hands[t] \cup {u} ELSE hands[t]]
      /\ last' = [user |-> IF redo \/ after.log = log THEN Nobody ELSE u, show |-> show]
  BY DEF Press, NextTo
<1>3. \/ UNCHANGED <<done, undone, lastly>>
      \/ /\ lastly' = [lastly EXCEPT ![u] = IF redo THEN "redo" ELSE "undo"]
         /\ \/ /\ done' = [done EXCEPT ![u] = Without(@, origin)]
               /\ undone' = [undone EXCEPT ![u] = Append(@, origin)]
            \/ /\ done' = [done EXCEPT ![u] = Append(@, origin)]
               /\ undone' = [undone EXCEPT ![u] = Without(@, origin)]
  BY DEF Press, NextTo
<1>4. next \in Keys(log) /\ next \in 1..acts
  BY <1>2, NextIs
<1>5. AfterAs(after, u, b, next, n)
  BY <1>1, <1>4, AfterIs
<1>6. /\ Range(log) \subseteq Range(after.log)
      /\ \A r \in Range(after.log) :
             \/ r \in Range(log)
             \/ Signature(r, u, b, next) /\ \E s \in Range(log) : s.thing = r.thing
      /\ Keys(log) \subseteq Keys(after.log)
      /\ Once(after.log)
  BY <1>1, <1>5, AfterHas
<1>7. Bounded'
  <2>1. size \in Sizes /\ writes \in 0..n /\ size[2] \in Nat
    BY BoundedIs DEF TypeInv, Bounded
  <2>2. b \in 0..(writes + (presses + 1)) /\ presses + 1 \in 0..size[2]
    BY <1>1, <1>2, <2>1
  <2> QED BY <1>2, <2>1, <2>2 DEF Bounded
<1>8. Logs'
  <2>1. after.show \in Shows(n) /\ after.log \in Seq(Rows(n, b))
    BY <1>5 DEF AfterAs
  <2>2. ASSUME NEW r \in Range(after.log), r.undoes # None PROVE r.undoes \in Keys(after.log)
    <3>1. CASE r \in Range(log)
      <4>1. r.undoes \in Keys(log)
        BY <1>1, <2>2, <3>1 DEF Anchored
      <4> QED BY <1>6, <4>1
    <3>2. CASE Signature(r, u, b, next)
      <4>1. r.undoes = next
        BY <3>2 DEF Signature
      <4> QED BY <1>4, <1>6, <4>1
    <3> QED BY <1>6, <3>1, <3>2
  <2>3. \A t \in Things : hands[t] # {} => hands'[t] # {}
    BY <1>1, <1>2
  <2>4. \A r \in Range(log) : r.thing \in Things
    BY <1>1, KeysAre, DraftHas
  <2>5. \A r \in Range(after.log) : hands'[r.thing] # {}
    <3>1. \A r \in Range(after.log) : \E s \in Range(log) : s.thing = r.thing
      BY <1>6
    <3> QED BY <1>1, <2>3, <2>4, <3>1
  <2>6. Anchored(after.log)
    BY <2>2 DEF Anchored
  <2> QED BY <1>2, <1>6, <2>1, <2>5, <2>6 DEF Logs
<1>9. Histories'
  <2>1. /\ open \in [Users -> 0..acts] /\ lastly \in [Users -> Pressing]
        /\ done \in [Users -> Seq(1..acts)] /\ undone \in [Users -> Seq(1..acts)]
    BY DEF TypeInv, Histories
  <2>2. 0..acts \subseteq 0..b /\ 1..acts \subseteq 1..b
    BY <1>1
  <2>3. done \in [Users -> Seq(1..b)] /\ undone \in [Users -> Seq(1..b)]
    <3>1. \A s \in Seq(1..acts) : s \in Seq(1..b)
      BY <2>2, SeqGrows
    <3> QED BY <2>1, <3>1
  <2>4. origin \in 1..b
    <3>1. origin \in Keys(log)
      BY <1>1, <1>4, OriginsAre DEF Origin
    <3>2. Keys(log) \subseteq 1..acts
      BY <1>1, KeysAre
    <3> QED BY <2>2, <3>1, <3>2
  <2>5. \A s \in Seq(1..b) : Append(s, origin) \in Seq(1..b) /\ Without(s, origin) \in Seq(1..b)
    BY <2>4, AppendProperties, WithoutIs
  <2>6. done' \in [Users -> Seq(1..b)] /\ undone' \in [Users -> Seq(1..b)]
    <3> PICK D : D = Seq(1..b)
      OBVIOUS
    <3>1. done[u] \in D /\ undone[u] \in D
      BY <2>3
    <3>2. /\ Append(done[u], origin) \in D /\ Without(done[u], origin) \in D
          /\ Append(undone[u], origin) \in D /\ Without(undone[u], origin) \in D
      BY <2>5, <3>1
    <3>3. done \in [Users -> D] /\ undone \in [Users -> D]
      BY <2>3
    <3>4. done' \in [Users -> D] /\ undone' \in [Users -> D]
      BY ONLY <1>3, <3>2, <3>3
    <3> QED BY <3>4
  <2>7. lastly' \in [Users -> Pressing]
    BY <1>3, <2>1 DEF Pressing
  <2>8. hands' \in [Things -> SUBSET (Users \cup {Nobody})]
    BY <1>1, <1>2
  <2>9. open' \in [Users -> 0..b]
    BY <1>2, <2>1, <2>2
  <2>10. last'.user \in Users \cup {Nobody}
    BY <1>2
  <2> QED BY <1>2, <2>6, <2>7, <2>8, <2>9, <2>10 DEF Histories
<1> QED BY <1>7, <1>8, <1>9 DEF TypeInv

\* Every step keeps the types.
LEMMA TypeStep ==
    ASSUME TypeInv, [Next]_vars
    PROVE  TypeInv'
<1>1. ASSUME NEW u \in Users, NEW t \in Things, NEW f \in Fields, NEW keep \in BOOLEAN,
             Write(u, "field", t, f, keep)
      PROVE  TypeInv'
  <2>1. Deed("field", f)
    BY DEF Deed
  <2> QED BY <1>1, <2>1, TypeWrite
<1>2. ASSUME NEW u \in Users, NEW t \in Things, NEW verb \in {"create", "delete"},
             NEW keep \in BOOLEAN, Write(u, verb, t, "all", keep)
      PROVE  TypeInv'
  <2>1. Deed(verb, "all")
    BY DEF Deed
  <2> QED BY <1>2, <2>1, TypeWrite
<1>3. CASE UNCHANGED vars
  BY <1>3 DEF vars, TypeInv, Bounded, Logs, Histories
<1> QED BY <1>1, <1>2, <1>3, TypeConsoleWrite, TypePress DEF Next

\* Types hold throughout: an undo names an older act, and a gesture keeps one row
\* of the log to a target.
THEOREM UndoTypes == Spec => []TypeOK
<1>1. Spec => []TypeInv
  BY TypeInit, TypeStep, PTL DEF Spec
<1> QED BY <1>1, TypeInvImplies, PTL

-----------------------------------------------------------------------------
(***************************************************************************)
(* Each user's acts are chains: an act of their own, what reversed it, what *)
(* reversed that.  by is whose an act is, of what it reverses, deep how far *)
(* from the beginning of its chain it is, root that beginning, and top the  *)
(* end.                                                                     *)
(***************************************************************************)
Family(rows, K, a, p, by, of, deep, root, top) ==
    /\ K = Keys(rows)
    /\ by \in [K -> Users] /\ of \in [K -> 0..a] /\ deep \in [K -> 0..p]
    /\ root \in [K -> K] /\ top \in [K -> K]
    /\ \A r \in Range(rows) : by[r.act] = r.user /\ of[r.act] = r.undoes
    /\ \A k \in K : of[k] = None => deep[k] = 0 /\ root[k] = k
    /\ \A k \in K : of[k] # None =>
          /\ of[k] \in K /\ by[of[k]] = by[k] /\ deep[k] = deep[of[k]] + 1
          /\ root[k] = root[of[k]] /\ top[k] = top[of[k]] /\ top[of[k]] # of[k]
    /\ \A k \in K : top[k] # k => \E b \in K : of[b] = k
    /\ \A k \in K : /\ k <= top[k] /\ top[top[k]] = top[k] /\ by[top[k]] = by[k]
                    /\ root[top[k]] = root[k] /\ top[root[k]] = top[k] /\ by[root[k]] = by[k]
                    /\ of[root[k]] = None

Even(d) == d % 2 = 0

\* Each reversal turns even into odd and odd into even.
LEMMA EvenTurns == \A d \in Nat : Even(d + 1) <=> ~Even(d)
BY DEF Even

Parity(redo) == IF redo THEN 1 ELSE 0

\* An act is undone at even depth and redone at odd.
LEMMA ParityIs ==
    ASSUME NEW redo \in BOOLEAN, NEW d \in Nat
    PROVE  d % 2 = Parity(redo) <=> (Even(d) <=> ~redo)
BY DEF Even, Parity

\* A stack holds what stands, or what was taken back, by when it came to that.
Piled(s, u, taken, K, by, of, deep, top) ==
    /\ \A i \in DOMAIN s : /\ s[i] \in K /\ of[s[i]] = None /\ by[s[i]] = u
                           /\ Even(deep[top[s[i]]]) <=> ~taken
    /\ \A o \in K : of[o] = None /\ by[o] = u /\ (Even(deep[top[o]]) <=> ~taken)
            => \E i \in DOMAIN s : s[i] = o
    /\ \A i, j \in DOMAIN s : i < j => top[s[i]] < top[s[j]]

Pending(u, act, K, by, of) ==
    act # None => /\ act \in K /\ by[act] = u /\ of[act] = None
                  /\ \A k \in K : by[k] = u => k <= act

\* What the user did last is an act of their own, or one that reverses another.
Latest(u, did, K, by, of) ==
    /\ (\A k \in K : by[k] # u) => did = "act"
    /\ \A k \in K : by[k] = u /\ (\A b \in K : by[b] = u => b <= k)
                       => (of[k] = None <=> did = "act")

-----------------------------------------------------------------------------
(***************************************************************************)
(* As far back as the log is looked at, a user's part of it has their acts. *)
(***************************************************************************)
LEMMA MineHas ==
    ASSUME NEW n \in Nat, acts \in Nat, log \in Seq(Rows(n, acts)), Len(log) <= Depth,
           NEW u \in Users, NEW K, NEW p, NEW by, NEW of, NEW deep, NEW root, NEW top,
           Family(log, K, acts, p, by, of, deep, root, top)
    PROVE  /\ Mine(u) \in Seq(Rows(n, acts))
           /\ Range(Mine(u)) = {r \in Range(log) : r.user = u}
           /\ Keys(Mine(u)) = {k \in K : by[k] = u}
           /\ \A k \in Keys(Mine(u)) : Reverses(Mine(u), k) = of[k]
           /\ Ordered(log) => Ordered(Mine(u))
<1> PICK rows : rows = Mine(u)
  OBVIOUS
<1>1. \A r \in Range(log) : r.user # Nobody
  <2>1. \A r \in Range(log) : r.user \in Users
    BY KeysAre, DraftHas
  <2> QED BY <2>1, NobodyAssumption
<1>2. Recent = log
  BY <1>1, RecentIs
<1>3. rows \in Seq(Rows(n, acts)) /\ Range(rows) = {r \in Range(log) : r.user = u}
  BY <1>2, MineIs
<1>4. \A r \in Range(log) : r.act \in K /\ by[r.act] = r.user /\ of[r.act] = r.undoes
  BY KeysAre DEF Family
<1>5. Keys(rows) = {k \in K : by[k] = u}
  <2>1. \A k \in K : \E r \in Range(log) : r.act = k
    BY KeysAre DEF Family
  <2>2. \A r \in Range(rows) : r.act \in K /\ by[r.act] = u
    BY <1>3, <1>4
  <2>3. ASSUME NEW k \in K, by[k] = u PROVE k \in Keys(rows)
    <3>1. PICK r \in Range(log) : r.act = k
      BY <2>1
    <3>2. r \in Range(rows)
      BY <1>3, <1>4, <2>3, <3>1
    <3> QED BY <3>1, <3>2 DEF Keys
  <2>4. \A k \in Keys(rows) : k \in K /\ by[k] = u
    BY <2>2 DEF Keys
  <2> QED BY <2>3, <2>4
<1>6. ASSUME NEW k \in Keys(rows) PROVE Reverses(rows, k) = of[k]
  <2>1. PICK r \in Range(rows) : r.act = k /\ r.undoes = Reverses(rows, k)
    BY <1>3, ReversesIs
  <2> QED BY <1>3, <1>4, <2>1
<1>7. ASSUME Ordered(log) PROVE Ordered(rows)
  <2> PICK S : S = {r \in Range(log) : r.user = u}
    OBVIOUS
  <2>1. rows = Among(S, log)
    BY <1>2 DEF Mine
  <2>2. PICK e : Picks(e, S, log, rows)
    BY <2>1, AmongPicks
  <2>3. /\ e \in [DOMAIN rows -> DOMAIN log]
        /\ \A i \in DOMAIN rows : rows[i] = log[e[i]]
        /\ \A i, j \in DOMAIN rows : i < j => e[i] < e[j]
    BY <2>2 DEF Picks
  <2> SUFFICES ASSUME NEW i \in DOMAIN rows, NEW j \in DOMAIN rows, i < j, rows[i].user = rows[j].user
               PROVE  rows[i].act <= rows[j].act
    BY DEF Ordered
  <2>4. e[i] \in DOMAIN log /\ e[j] \in DOMAIN log /\ e[i] < e[j]
    BY <2>3
  <2> QED BY <1>7, <2>3, <2>4 DEF Ordered
<1> QED BY <1>3, <1>5, <1>6, <1>7

Stepped(f, rows) ==
    [act \in Keys(rows) |->
        IF Reverses(rows, act) = None THEN 0
        ELSE IF Reverses(rows, act) \in Keys(rows) THEN 1 + f[Reverses(rows, act)] ELSE 1]

\* The distance from where a chain began is what walking it back counts (ChainDepth).
LEMMA StepsAre ==
    ASSUME NEW n \in Nat, acts \in Nat, log \in Seq(Rows(n, acts)), Len(log) <= Depth,
           NEW u \in Users, NEW K, NEW p \in Nat, NEW by, NEW of, NEW deep, NEW root, NEW top,
           Family(log, K, acts, p, by, of, deep, root, top), Anchored(log)
    PROVE  \A k \in Keys(Mine(u)) : Steps(Mine(u))[k] = deep[k]
<1> PICK rows, D : rows = Mine(u) /\ D = Keys(Mine(u))
  OBVIOUS
<1>1. /\ rows \in Seq(Rows(n, acts)) /\ D = {k \in K : by[k] = u}
      /\ \A k \in D : Reverses(rows, k) = of[k]
  BY MineHas
<1>2. /\ D \subseteq 1..acts
      /\ \A k \in D : of[k] = None \/ (of[k] \in D /\ of[k] < k)
  <2>1. D \subseteq 1..acts
    BY <1>1, KeysAre
  <2>2. ASSUME NEW k \in D, of[k] # None PROVE of[k] \in D /\ of[k] < k
    <3>1. of[k] \in K /\ by[of[k]] = u
      BY <1>1, <2>2 DEF Family
    <3>2. PICK r \in Range(rows) : r.act = k /\ r.undoes = Reverses(rows, k)
      BY <1>1, ReversesIs
    <3>3. r \in Drafts(n, acts)
      BY <1>1, KeysAre
    <3>4. r.undoes < r.act
      BY <3>3, DraftHas
    <3> QED BY <1>1, <3>1, <3>2, <3>4
  <2> QED BY <2>1, <2>2
<1>3. /\ \A k \in D : deep[k] \in Nat
      /\ \A k \in D : deep[k] = IF of[k] = None THEN 0 ELSE 1 + deep[of[k]]
  <2>1. \A k \in K : deep[k] \in 0..p
    BY DEF Family
  <2>2. \A k \in K : deep[k] \in Nat
    BY <2>1
  <2>3. \A k \in K : /\ of[k] = None => deep[k] = 0
                     /\ of[k] # None => of[k] \in K /\ deep[k] = deep[of[k]] + 1
    BY DEF Family
  <2>4. \A k \in K : deep[k] = IF of[k] = None THEN 0 ELSE 1 + deep[of[k]]
    BY <2>2, <2>3
  <2> QED BY <1>1, <2>2, <2>4
<1>4. \A f : Stepped(f, rows) = [k \in D |-> IF of[k] = None THEN 0 ELSE 1 + f[of[k]]]
  BY <1>1, <1>2 DEF Stepped
<1> PICK d : d = [k \in D |-> deep[k]]
  OBVIOUS
<1>5. d = Stepped(d, rows)
  <2>3. Stepped(d, rows) = [k \in D |-> IF of[k] = None THEN 0 ELSE 1 + d[of[k]]]
    BY ONLY <1>4, Zenon
  <2>4. \A k \in D : deep[k] = IF of[k] = None THEN 0 ELSE 1 + d[of[k]]
    BY <1>2, <1>3
  <2>5. [k \in D |-> IF of[k] = None THEN 0 ELSE 1 + d[of[k]]] = [k \in D |-> deep[k]]
    BY ONLY <2>4
  <2> QED BY <2>3, <2>5
<1> PICK steps : steps = (CHOOSE f : f = Stepped(f, rows))
  OBVIOUS
<1>6. steps = Stepped(steps, rows)
  BY <1>5, Zenon
<1>7. Steps(rows) = steps
  BY Zenon DEF Steps, Stepped
<1>8. steps = [k \in D |-> IF of[k] = None THEN 0 ELSE 1 + steps[of[k]]]
  BY ONLY <1>4, <1>6, ZenonT(30)
<1> DEFINE T == {m \in 0..acts : \A k \in D : k <= m => steps[k] = deep[k]}
<1>9. 0 \in T
  BY <1>2
<1>10. ASSUME NEW m \in 1..acts, m - 1 \in T PROVE m \in T
  <2> SUFFICES ASSUME NEW k \in D, k <= m PROVE steps[k] = deep[k]
    OBVIOUS
  <2>1. k \in 1..acts /\ (of[k] = None \/ (of[k] \in D /\ of[k] < k /\ of[k] \in 1..acts))
    BY <1>2
  <2>2. steps[k] = IF of[k] = None THEN 0 ELSE 1 + steps[of[k]]
    BY <1>8
  <2>3. of[k] # None => of[k] \in D /\ of[k] <= m - 1
    BY <2>1
  <2>4. of[k] # None => steps[of[k]] = deep[of[k]]
    BY <1>10, <2>3
  <2> QED BY <1>3, <2>2, <2>4
<1>11. acts \in T
  <2> HIDE DEF T
  <2>1. 0..acts \subseteq T
    BY <1>9, <1>10, UpTo
  <2> QED BY <2>1
<1>12. \A k \in D : steps[k] = deep[k]
  BY <1>2, <1>11
<1> QED BY <1>7, <1>12

Standing(f, rows) ==
    [act \in Keys(rows) |-> \A r \in Range(rows) : r.undoes = act => ~f[r.act]]

\* An act is in effect if as many reversals are above it as cancel out.
LEMMA AppliesAre ==
    ASSUME NEW n \in Nat, acts \in Nat, log \in Seq(Rows(n, acts)), Len(log) <= Depth,
           NEW u \in Users, NEW K, NEW p \in Nat, NEW by, NEW of, NEW deep, NEW root, NEW top,
           Family(log, K, acts, p, by, of, deep, root, top)
    PROVE  \A k \in Keys(Mine(u)) :
              InEffect(Mine(u), k) <=> (Even(deep[k]) <=> Even(deep[top[k]]))
<1> PICK rows, D : rows = Mine(u) /\ D = Keys(Mine(u))
  OBVIOUS
<1>1. /\ rows \in Seq(Rows(n, acts)) /\ D = {k \in K : by[k] = u}
      /\ Range(rows) = {r \in Range(log) : r.user = u}
  BY MineHas
<1>2. D \subseteq 1..acts /\ D \subseteq K
  <2>1. D \subseteq 1..acts
    BY <1>1, KeysAre
  <2> QED BY <1>1, <2>1
<1> DEFINE good(k) == Even(deep[k]) <=> Even(deep[top[k]])
\* What reverses an act is the user's, newer, and the other way round.
<1>3. ASSUME NEW k \in D, NEW r \in Range(rows), r.undoes = k
      PROVE  r.act \in D /\ k < r.act /\ top[k] # k /\ (good(r.act) <=> ~good(k))
  <2>1. /\ r \in Drafts(n, acts) /\ r.act \in D
    BY <1>1, KeysAre
  <2>2. r.undoes < r.act /\ r \in Range(log) /\ k \in 1..acts /\ r.act \in 1..acts
    BY <1>1, <1>2, <2>1, DraftHas
  <2>3. of[r.act] = k /\ k # None
    BY <1>2, <1>3, <2>2 DEF Family, None
  <2>4. /\ deep[r.act] = deep[k] + 1 /\ top[r.act] = top[k] /\ top[k] # k
    BY <1>2, <2>1, <2>3 DEF Family
  <2>5. deep[k] \in Nat
    <3>1. deep[k] \in 0..p
      BY <1>2 DEF Family
    <3> QED BY <3>1
  <2>6. Even(deep[r.act]) <=> ~Even(deep[k])
    BY <2>4, <2>5, EvenTurns
  <2>7. good(r.act) <=> ~good(k)
    BY <2>4, <2>6, Zenon
  <2> QED BY <1>3, <2>1, <2>2, <2>4, <2>7
<1>4. ASSUME NEW k \in D, top[k] # k PROVE \E r \in Range(rows) : r.undoes = k
  <2>1. PICK b \in K : of[b] = k
    BY <1>2, <1>4 DEF Family
  <2>2. k # None
    BY <1>2 DEF None
  <2>3. by[b] = u
    BY <1>1, <2>1, <2>2 DEF Family
  <2>4. PICK r \in Range(rows) : r.act = b
    <3>1. b \in Keys(rows)
      BY <1>1, <2>3
    <3> QED BY <3>1 DEF Keys
  <2>5. r.undoes = k
    <3>1. r \in Range(log)
      BY <1>1, <2>4
    <3>2. of[r.act] = r.undoes
      BY <3>1 DEF Family
    <3> QED BY <2>1, <2>4, <3>2
  <2> QED BY <2>5
<1>5. ASSUME NEW k \in D
      PROVE  good(k) <=> \A r \in Range(rows) : r.undoes = k => ~good(r.act)
  <2>1. CASE top[k] = k
    <3>1. \A r \in Range(rows) : r.undoes # k
      BY <1>3, <2>1
    <3>2. good(k)
      BY <2>1
    <3> QED BY <3>1, <3>2
  <2>2. CASE top[k] # k
    <3>1. PICK r \in Range(rows) : r.undoes = k
      BY <1>4, <2>2
    <3> HIDE DEF good
    <3> QED BY <1>3, <3>1
  <2> QED BY <2>1, <2>2
<1> PICK e : e = [k \in D |-> good(k)]
  OBVIOUS
<1>6. e = Standing(e, rows)
  <2>1. \A k \in D : e[k] = (\A r \in Range(rows) : r.undoes = k => ~e[r.act])
    <3> SUFFICES ASSUME NEW k \in D PROVE e[k] = (\A r \in Range(rows) : r.undoes = k => ~e[r.act])
      OBVIOUS
    <3>1. e[k] = good(k)
      OBVIOUS
    <3>2. \A r \in Range(rows) : r.undoes = k => r.act \in D /\ e[r.act] = good(r.act)
      BY <1>3
    <3>3. good(k) \in BOOLEAN
      OBVIOUS
    <3>4. good(k) <=> \A r \in Range(rows) : r.undoes = k => ~good(r.act)
      BY <1>5
    <3> PICK g : g = good(k)
      OBVIOUS
    <3>5. g \in BOOLEAN /\ e[k] = g
      BY <3>1, <3>3
    <3> HIDE DEF good
    <3>6. \A r \in Range(rows) : r.undoes = k => (e[r.act] <=> good(r.act))
      BY <3>2, Zenon
    <3>7. (\A r \in Range(rows) : r.undoes = k => ~good(r.act))
            <=> (\A r \in Range(rows) : r.undoes = k => ~e[r.act])
      BY ONLY <3>6, Zenon
    <3>8. g <=> \A r \in Range(rows) : r.undoes = k => ~e[r.act]
      BY <3>4, <3>7, Zenon
    <3>9. g = (\A r \in Range(rows) : r.undoes = k => ~e[r.act])
      BY ONLY <3>5, <3>8, Zenon
    <3> QED BY ONLY <3>5, <3>9
  <2> HIDE DEF good
  <2>2. e = [k \in D |-> e[k]]
    OBVIOUS
  <2>3. D = Keys(rows)
    OBVIOUS
  <2>4. [k \in D |-> e[k]] = [k \in D |-> \A r \in Range(rows) : r.undoes = k => ~e[r.act]]
    BY ONLY <2>1, Zenon
  <2> QED BY ONLY <2>2, <2>3, <2>4, Zenon DEF Standing
<1> PICK applied : applied = (CHOOSE f : f = Standing(f, rows))
  OBVIOUS
<1>7. applied = Standing(applied, rows)
  BY <1>6, Zenon
<1>8. Applies(rows) = applied
  BY Zenon DEF Applies, Standing
<1>9. \A k \in D : applied[k] <=> \A r \in Range(rows) : r.undoes = k => ~applied[r.act]
  <2>1. applied = [k \in D |-> \A r \in Range(rows) : r.undoes = k => ~applied[r.act]]
    <3>1. D = Keys(rows)
      OBVIOUS
    <3> QED BY ONLY <1>7, <3>1, Zenon DEF Standing
  <2> QED BY ONLY <2>1, Zenon
<1> HIDE DEF good
<1> DEFINE T == {m \in 0..acts : \A k \in D : k > acts - m => (applied[k] <=> good(k))}
<1>10. 0 \in T
  BY <1>2
<1>11. ASSUME NEW m \in 1..acts, m - 1 \in T PROVE m \in T
  <2> SUFFICES ASSUME NEW k \in D, k > acts - m PROVE applied[k] <=> good(k)
    OBVIOUS
  <2>1. \A r \in Range(rows) : r.undoes = k => (applied[r.act] <=> good(r.act))
    <3> SUFFICES ASSUME NEW r \in Range(rows), r.undoes = k PROVE applied[r.act] <=> good(r.act)
      OBVIOUS
    <3>1. r.act \in D /\ k < r.act
      BY <1>3
    <3>2. r.act > acts - (m - 1)
      <4>1. k \in Int /\ r.act \in Int
        BY <1>2, <3>1
      <4> QED BY <3>1, <4>1
    <3> QED BY <1>11, <3>1, <3>2
  <2>2. good(k) <=> \A r \in Range(rows) : r.undoes = k => ~good(r.act)
    BY <1>5
  <2>3. applied[k] <=> \A r \in Range(rows) : r.undoes = k => ~applied[r.act]
    BY <1>9
  <2> QED BY ONLY <2>1, <2>2, <2>3, Zenon
<1>12. acts \in T
  <2> HIDE DEF T
  <2>1. 0..acts \subseteq T
    BY <1>10, <1>11, UpTo
  <2> QED BY <2>1
<1>13. \A k \in D : applied[k] <=> good(k)
  BY <1>2, <1>12
<1>14. \A k \in D : InEffect(rows, k) <=> applied[k]
  BY <1>8, Zenon DEF InEffect
<1> QED BY <1>13, <1>14, Zenon DEF good

\* The lesser of two numbers is the first when it is no greater.
LEMMA MinIs ==
    ASSUME NEW a \in Nat, NEW b \in Nat, a <= b
    PROVE  Min({a, b}) = a
<1>1. \E x \in {a, b} : \A y \in {a, b} : x <= y
  OBVIOUS
<1> PICK m : m = Min({a, b})
  OBVIOUS
<1>2. m \in {a, b} /\ \A y \in {a, b} : m <= y
  BY <1>1, Zenon DEF Min
<1> QED BY <1>2

\* What fits a parity is what is at it itself and at the end of its chain.
LEMMA FitIs ==
    ASSUME NEW n \in Nat, acts \in Nat, log \in Seq(Rows(n, acts)), Len(log) <= Depth,
           NEW u \in Users, NEW K, NEW p \in Nat, NEW by, NEW of, NEW deep, NEW root, NEW top,
           Family(log, K, acts, p, by, of, deep, root, top), Anchored(log), p <= Chain,
           NEW taken \in BOOLEAN
    PROVE  Fit(Mine(u), Parity(taken)) =
              {k \in Keys(Mine(u)) : (Even(deep[k]) <=> ~taken) /\ (Even(deep[top[k]]) <=> ~taken)}
<1> PICK rows, D : rows = Mine(u) /\ D = Keys(Mine(u))
  OBVIOUS
<1>1. D = {k \in K : by[k] = u}
  BY MineHas
<1>2. ASSUME NEW k \in D PROVE deep[k] \in Nat /\ ChainDepth(rows, k) = deep[k]
  <2>1. deep[k] \in 0..p
    BY <1>1 DEF Family
  <2>2. deep[k] \in Nat /\ deep[k] <= Chain + 1 /\ Chain + 1 \in Nat
    BY <2>1, LookBackAssumption
  <2>3. Steps(rows)[k] = deep[k]
    BY StepsAre
  <2> QED BY <2>2, <2>3, MinIs DEF ChainDepth
<1>3. ASSUME NEW k \in D
      PROVE  /\ ChainDepth(rows, k) % 2 = Parity(taken) <=> (Even(deep[k]) <=> ~taken)
             /\ InEffect(rows, k) <=> (Even(deep[k]) <=> Even(deep[top[k]]))
  <2>1. ChainDepth(rows, k) % 2 = Parity(taken) <=> (Even(deep[k]) <=> ~taken)
    BY <1>2, ParityIs
  <2>2. InEffect(rows, k) <=> (Even(deep[k]) <=> Even(deep[top[k]]))
    BY AppliesAre
  <2> QED BY <2>1, <2>2, Zenon
<1>4. ASSUME NEW k \in D
      PROVE  ChainDepth(rows, k) % 2 = Parity(taken) /\ InEffect(rows, k)
               <=> (Even(deep[k]) <=> ~taken) /\ (Even(deep[top[k]]) <=> ~taken)
  BY <1>3, Zenon
<1>5. Fit(rows, Parity(taken)) =
        {k \in D : ChainDepth(rows, k) % 2 = Parity(taken) /\ InEffect(rows, k)}
  BY Zenon DEF Fit
<1> QED BY <1>4, <1>5, Zenon

\* What is found is the end of the chain of what the stack has last.
LEMMA TopIs ==
    ASSUME NEW n \in Nat, acts \in Nat, log \in Seq(Rows(n, acts)), Len(log) <= Depth,
           NEW u \in Users, NEW K, NEW p \in Nat, NEW by, NEW of, NEW deep, NEW root, NEW top,
           Family(log, K, acts, p, by, of, deep, root, top), Anchored(log), p <= Chain,
           Ordered(log), NEW taken \in BOOLEAN, NEW s \in Seq(1..acts),
           Piled(s, u, taken, K, by, of, deep, top)
    PROVE  AtParity(Mine(u), Parity(taken)) = IF s = <<>> THEN None ELSE top[s[Len(s)]]
<1> PICK rows, D : rows = Mine(u) /\ D = Keys(Mine(u))
  OBVIOUS
<1> PICK fit, next : fit = Fit(rows, Parity(taken)) /\ next = AtParity(rows, Parity(taken))
  OBVIOUS
<1> PICK m : m = Len(s)
  OBVIOUS
<1>1. /\ D = {k \in K : by[k] = u} /\ rows \in Seq(Rows(n, acts)) /\ Ordered(rows)
      /\ D \subseteq 1..acts
  <2>1. D = {k \in K : by[k] = u} /\ rows \in Seq(Rows(n, acts)) /\ Ordered(rows)
    BY MineHas
  <2> QED BY <2>1, KeysAre
<1>2. m \in Nat /\ DOMAIN s = 1..m /\ (m = 0 <=> s = <<>>)
  BY SeqHas, EmptySeq
<1>3. \A k \in D : k \in fit <=> (Even(deep[k]) <=> ~taken) /\ (Even(deep[top[k]]) <=> ~taken)
  <2>1. fit = {k \in D : (Even(deep[k]) <=> ~taken) /\ (Even(deep[top[k]]) <=> ~taken)}
    BY FitIs
  <2> QED BY ONLY <2>1, Zenon
<1>4. fit \subseteq D
  BY DEF Fit
\* The ends of the stacked chains are there to be found.
<1>5. ASSUME NEW i \in 1..m PROVE top[s[i]] \in fit
  <2> PICK o : o = s[i]
    OBVIOUS
  <2>1. o \in K /\ by[o] = u /\ (Even(deep[top[o]]) <=> ~taken)
    BY <1>2, Zenon DEF Piled
  <2>2. top[o] \in K /\ by[top[o]] = u /\ top[top[o]] = top[o]
    BY <2>1 DEF Family
  <2>3. top[o] \in D
    BY <1>1, <2>2
  <2> QED BY <1>3, <2>1, <2>2, <2>3, Zenon
\* And what is found is in one of those chains.
<1>6. ASSUME NEW k \in fit PROVE \E i \in 1..m : k <= top[s[i]] /\ top[k] = top[s[i]]
  <2>1. k \in D /\ k \in K /\ by[k] = u /\ (Even(deep[top[k]]) <=> ~taken)
    BY <1>1, <1>3, <1>4, Zenon
  <2> PICK o : o = root[k]
    OBVIOUS
  <2>2. o \in K /\ of[o] = None /\ by[o] = u /\ top[o] = top[k] /\ k <= top[k]
    BY <2>1 DEF Family
  <2>3. PICK i \in DOMAIN s : s[i] = o
    BY <2>1, <2>2, Zenon DEF Piled
  <2> QED BY <1>2, <2>2, <2>3
<1>7. CASE s = <<>>
  <2>1. fit = {}
    BY <1>2, <1>6, <1>7
  <2>2. next = None
    BY <1>1, <2>1, AtParityIs DEF NewestOf
  <2> QED BY <1>7, <2>2
<1>8. CASE s # <<>>
  <2>1. m \in 1..m
    BY <1>2, <1>8
  <2> PICK t : t = top[s[m]]
    OBVIOUS
  <2>2. t \in fit
    BY <1>5, <2>1
  <2>3. NewestOf(rows, fit, next)
    BY <1>1, <2>2, AtParityIs
  <2>4. next \in fit /\ NewestRow(rows, t) <= NewestRow(rows, next)
    BY <2>2, <2>3 DEF NewestOf
  <2>5. t <= next
    <3> PICK i, j : i = NewestRow(rows, t) /\ j = NewestRow(rows, next)
      OBVIOUS
    <3>1. t \in Keys(rows) /\ next \in Keys(rows) /\ t \in 1..acts /\ next \in 1..acts
      BY <1>1, <1>4, <2>2, <2>4
    <3>2. i \in 1..Len(rows) /\ rows[i].act = t
      BY <1>1, <3>1, NewestRowIs
    <3>3. j \in 1..Len(rows) /\ rows[j].act = next
      BY <1>1, <3>1, NewestRowIs
    <3>4. DOMAIN rows = 1..Len(rows) /\ Len(rows) \in Nat
      BY <1>1, SeqHas
    <3>5. rows[i].user = u /\ rows[j].user = u
      <4>1. \A r \in Range(rows) : r.user = u
        BY MineHas
      <4>2. rows[i] \in Range(rows) /\ rows[j] \in Range(rows)
        BY <1>1, <3>2, <3>3, SeqHas
      <4> QED BY <4>1, <4>2
    <3>6. CASE i < j
      BY <1>1, <3>2, <3>3, <3>4, <3>5, <3>6 DEF Ordered
    <3>7. CASE i = j
      BY <3>1, <3>2, <3>3, <3>7
    <3>8. i < j \/ i = j
      BY <2>4, <3>2, <3>3, <3>4
    <3> QED BY <3>6, <3>7, <3>8
  <2>6. PICK i \in 1..m : next <= top[s[i]]
    BY <1>6, <2>4
  <2>7. top[s[i]] <= t /\ top[s[i]] \in Nat
    <3>1. i < m => top[s[i]] < t
      BY <1>2, <2>1 DEF Piled
    <3>2. top[s[i]] \in 1..acts /\ t \in 1..acts
      BY <1>1, <1>4, <1>5, <2>2
    <3> QED BY <1>2, <3>1, <3>2
  <2>8. next \in Nat /\ t \in Nat
    <3>1. next \in 1..acts /\ t \in 1..acts
      BY <1>1, <1>4, <2>2, <2>4
    <3> QED BY <3>1
  <2>9. next = t
    BY <2>5, <2>6, <2>7, <2>8, SMTT(20)
  <2> QED BY <1>8, <2>9
<1> QED BY <1>7, <1>8

\* Where following a chain back ends is where the chain began.
LEMMA RootsAre ==
    ASSUME NEW n \in Nat, acts \in Nat, log \in Seq(Rows(n, acts)),
           NEW K, NEW p, NEW by, NEW of, NEW deep, NEW root, NEW top,
           Family(log, K, acts, p, by, of, deep, root, top), Anchored(log)
    PROVE  \A k \in K : Origin(k) = root[k]
<1> PICK origin : origin = Origins
  OBVIOUS
<1>1. K = Keys(log) /\ K \subseteq 1..acts
  <2>1. K = Keys(log)
    BY DEF Family
  <2> QED BY <2>1, KeysAre
<1>2. \A k \in K : Reverses(log, k) = of[k]
  <2> SUFFICES ASSUME NEW k \in K PROVE Reverses(log, k) = of[k]
    OBVIOUS
  <2>1. PICK r \in Range(log) : r.act = k /\ r.undoes = Reverses(log, k)
    BY <1>1, ReversesIs
  <2> QED BY <2>1 DEF Family
<1>3. \A k \in K : of[k] = None \/ (of[k] \in K /\ of[k] < k)
  BY <1>1, <1>2, ReversesOlder
<1>4. \A k \in K : origin[k] = IF of[k] = None THEN k ELSE origin[of[k]]
  <2>1. origin = Beginnings(origin, K)
    BY <1>1, OriginsAre
  <2>2. origin = [k \in K |-> IF Reverses(log, k) = None THEN k ELSE origin[Reverses(log, k)]]
    BY ONLY <2>1, Zenon DEF Beginnings
  <2> QED BY <1>2, <2>2
<1>5. \A k \in K : root[k] = IF of[k] = None THEN k ELSE root[of[k]]
  BY DEF Family
<1> DEFINE T == {m \in 0..acts : \A k \in K : k <= m => origin[k] = root[k]}
<1>6. 0 \in T
  BY <1>1
<1>7. ASSUME NEW m \in 1..acts, m - 1 \in T PROVE m \in T
  <2> SUFFICES ASSUME NEW k \in K, k <= m PROVE origin[k] = root[k]
    OBVIOUS
  <2>1. of[k] # None => of[k] \in K /\ of[k] <= m - 1
    <3>1. k \in 1..acts /\ (of[k] # None => of[k] \in 1..acts)
      BY <1>1, <1>3
    <3> QED BY <1>3, <3>1
  <2>2. of[k] # None => origin[of[k]] = root[of[k]]
    BY <1>7, <2>1
  <2> QED BY <1>4, <1>5, <2>2
<1>8. acts \in T
  <2> HIDE DEF T
  <2>1. 0..acts \subseteq T
    BY <1>6, <1>7, UpTo
  <2> QED BY <2>1
<1>9. \A k \in K : origin[k] = root[k]
  BY <1>1, <1>8
<1> QED BY <1>9 DEF Origin

-----------------------------------------------------------------------------
(***************************************************************************)
(* What the log tells of every user, as long as it is looked at whole and  *)
(* chains are followed to their ends.                                      *)
(***************************************************************************)
\* No more presses than a chain is followed for.
Followed == \A s \in Sizes : s[2] <= Chain

AllDone(s, u, K, by, of, deep, top) == Piled(s, u, FALSE, K, by, of, deep, top)
AllUndone(s, u, K, by, of, deep, top) == Piled(s, u, TRUE, K, by, of, deep, top)

UserKept(u, d, un, act, did, K, by, of, deep, top) ==
    /\ AllDone(d, u, K, by, of, deep, top)
    /\ AllUndone(un, u, K, by, of, deep, top)
    /\ Pending(u, act, K, by, of)
    /\ Latest(u, did, K, by, of)

Tells(rows, a, p, d, t, o, l, K, by, of, deep, root, top) ==
    /\ Family(rows, K, a, p, by, of, deep, root, top)
    /\ \A u \in Users : UserKept(u, d[u], t[u], o[u], l[u], K, by, of, deep, top)

ChainsOf(rows, a, p, d, t, o, l) ==
    /\ Ordered(rows)
    /\ \E K, by, of, deep, root, top : Tells(rows, a, p, d, t, o, l, K, by, of, deep, root, top)

Told(K, by, of, deep, root, top) ==
    Tells(log, acts, presses, done, undone, open, lastly, K, by, of, deep, root, top)

Chains == ChainsOf(log, acts, presses, done, undone, open, lastly)

\* The types of what is looked at for a user.
LEMMA StacksHave ==
    ASSUME TypeInv, NEW u \in Users
    PROVE  /\ size[1] \in Nat /\ acts \in Nat /\ presses \in Nat
           /\ log \in Seq(Rows(size[1], acts)) /\ Anchored(log)
           /\ done[u] \in Seq(1..acts) /\ undone[u] \in Seq(1..acts)
<1>1. done[u] \in Seq(1..acts) /\ undone[u] \in Seq(1..acts)
  BY DEF TypeInv, Histories
<1> QED BY <1>1, BoundedIs DEF TypeInv, Logs

\* The newest act at each parity is the end of the chain of each stack's top.
LEMMA BothTopsAre ==
    ASSUME NEW n \in Nat, acts \in Nat, log \in Seq(Rows(n, acts)), Len(log) <= Depth,
           NEW u \in Users, NEW K, NEW p \in Nat, NEW by, NEW of, NEW deep, NEW root, NEW top,
           Family(log, K, acts, p, by, of, deep, root, top), Anchored(log), p <= Chain,
           Ordered(log), NEW d \in Seq(1..acts), NEW t \in Seq(1..acts),
           AllDone(d, u, K, by, of, deep, top), AllUndone(t, u, K, by, of, deep, top)
    PROVE  /\ AtParity(Mine(u), 0) = IF d = <<>> THEN None ELSE top[Last(d)]
           /\ AtParity(Mine(u), 1) = IF t = <<>> THEN None ELSE top[Last(t)]
<1>1. ASSUME NEW taken \in BOOLEAN, NEW s \in Seq(1..acts), Piled(s, u, taken, K, by, of, deep, top)
      PROVE  AtParity(Mine(u), Parity(taken)) = IF s = <<>> THEN None ELSE top[Last(s)]
  <2>1. AtParity(Mine(u), Parity(taken)) = IF s = <<>> THEN None ELSE top[s[Len(s)]]
    BY <1>1, TopIs
  <2> QED BY <2>1 DEF Last
<1>2. AtParity(Mine(u), Parity(FALSE)) = IF d = <<>> THEN None ELSE top[Last(d)]
  <2>1. Piled(d, u, FALSE, K, by, of, deep, top)
    BY DEF AllDone
  <2> QED BY <1>1, <2>1
<1>3. AtParity(Mine(u), Parity(TRUE)) = IF t = <<>> THEN None ELSE top[Last(t)]
  <2> PICK taken \in BOOLEAN : taken = TRUE
    OBVIOUS
  <2>1. Piled(t, u, taken, K, by, of, deep, top)
    BY DEF AllUndone
  <2>2. AtParity(Mine(u), Parity(taken)) = IF t = <<>> THEN None ELSE top[Last(t)]
    BY <1>1, <2>1
  <2> QED BY <2>2
<1>4. Parity(FALSE) = 0 /\ Parity(TRUE) = 1
  BY DEF Parity
<1> QED BY <1>2, <1>3, <1>4

\* What undo and redo are about are the ends of the chains of the two stacks' tops.
LEMMA NextAre ==
    ASSUME TypeInv, Followed, Len(log) <= Depth, Ordered(log), NEW u \in Users,
           NEW K, NEW by, NEW of, NEW deep, NEW root, NEW top, Told(K, by, of, deep, root, top)
    PROVE  /\ NextToUndo(u) = IF done[u] = <<>> THEN None ELSE top[Last(done[u])]
           /\ NextToRedo(u) = IF lastly[u] = "act" \/ undone[u] = <<>> THEN None
                              ELSE top[Last(undone[u])]
<1> PICK n, p : n = size[1] /\ p = presses
  OBVIOUS
<1>1. /\ n \in Nat /\ acts \in Nat /\ p \in Nat /\ log \in Seq(Rows(n, acts)) /\ Anchored(log)
      /\ done[u] \in Seq(1..acts) /\ undone[u] \in Seq(1..acts)
  BY StacksHave
<1>2. p <= Chain
  <2>1. size \in Sizes /\ presses <= size[2] /\ size[2] \in Nat
    BY BoundedIs DEF TypeInv, Bounded
  <2>2. size[2] <= Chain
    BY <2>1 DEF Followed
  <2> QED BY <1>1, <2>1, <2>2, LookBackAssumption
<1>3. /\ Family(log, K, acts, p, by, of, deep, root, top)
      /\ AllDone(done[u], u, K, by, of, deep, top)
      /\ AllUndone(undone[u], u, K, by, of, deep, top)
      /\ Latest(u, lastly[u], K, by, of)
  BY DEF Told, Tells, UserKept
<1>5. /\ AtParity(Mine(u), 0) = IF done[u] = <<>> THEN None ELSE top[Last(done[u])]
      /\ AtParity(Mine(u), 1) = IF undone[u] = <<>> THEN None ELSE top[Last(undone[u])]
  <2> PICK d, t : d = done[u] /\ t = undone[u]
    OBVIOUS
  <2>1. d \in Seq(1..acts) /\ t \in Seq(1..acts)
    BY <1>1
  <2>2. AllDone(d, u, K, by, of, deep, top) /\ AllUndone(t, u, K, by, of, deep, top)
    BY <1>3
  <2>3. Len(log) <= Depth /\ Ordered(log) /\ u \in Users
    OBVIOUS
  <2>4. /\ AtParity(Mine(u), 0) = IF d = <<>> THEN None ELSE top[Last(d)]
        /\ AtParity(Mine(u), 1) = IF t = <<>> THEN None ELSE top[Last(t)]
    BY ONLY <1>1, <1>2, <1>3, <2>1, <2>2, <2>3, BothTopsAre
  <2> QED BY <2>4
<1> PICK rows : rows = Mine(u)
  OBVIOUS
<1>6. /\ rows \in Seq(Rows(n, acts)) /\ Ordered(rows)
      /\ Range(rows) = {r \in Range(log) : r.user = u} /\ Keys(rows) = {k \in K : by[k] = u}
  BY <1>1, <1>3, MineHas
<1>7. rows # <<>> /\ Last(rows).undoes # None <=> lastly[u] # "act"
  <2>1. CASE rows = <<>>
    <3>1. Range(rows) = {}
      BY <2>1 DEF Range
    <3>2. Keys(rows) = {}
      BY <3>1 DEF Keys
    <3>3. \A k \in K : by[k] # u
      BY <1>6, <3>2
    <3> QED BY <1>3, <2>1, <3>3 DEF Latest
  <2>2. CASE rows # <<>>
    <3> PICK m, r : m = Len(rows) /\ r = rows[m]
      OBVIOUS
    <3>1. /\ m \in Nat /\ DOMAIN rows = 1..m /\ m # 0
          /\ \A i \in 1..m : rows[i] \in Range(rows)
          /\ \A x \in Range(rows) : \E i \in 1..m : rows[i] = x
      BY <1>6, <2>2, SeqHas, EmptySeq
    <3>2. m \in 1..m /\ r \in Range(rows)
      BY <3>1
    <3>3. r.user = u /\ r.act \in K /\ by[r.act] = u /\ r.undoes = of[r.act]
      <4>1. r \in Range(log) /\ r.user = u
        BY <1>6, <3>2
      <4>2. r.act \in Keys(rows)
        BY <3>2 DEF Keys
      <4> QED BY <1>3, <1>6, <4>1, <4>2 DEF Family
    <3>4. ASSUME NEW b \in K, by[b] = u PROVE b <= r.act
      <4>1. b \in Keys(rows)
        BY <1>6, <3>4
      <4>2. PICK x \in Range(rows) : x.act = b
        BY <4>1 DEF Keys
      <4>3. PICK i \in 1..m : rows[i] = x
        BY <3>1
      <4>4. rows[i].user = u
        BY <1>6, <4>3
      <4>5. CASE i < m
        BY <1>6, <3>1, <3>2, <3>3, <4>2, <4>3, <4>4, <4>5 DEF Ordered
      <4>6. CASE i = m
        <5>1. b = r.act /\ b \in 1..acts
          <6>1. Keys(rows) \subseteq 1..acts
            BY <1>1, <1>6, KeysAre
          <6> QED BY <4>1, <4>2, <4>3, <4>6, <6>1
        <5> QED BY <5>1
      <4> QED BY <3>1, <4>5, <4>6
    <3>5. of[r.act] = None <=> lastly[u] = "act"
      BY <1>3, <3>3, <3>4 DEF Latest
    <3>6. Last(rows) = r
      BY DEF Last
    <3> QED BY <2>2, <3>3, <3>5, <3>6
  <2> QED BY <2>1, <2>2
<1>8. NextToUndo(u) = AtParity(Mine(u), 0)
  BY DEF NextToUndo
<1>9. NextToRedo(u) = IF rows # <<>> /\ Last(rows).undoes # None THEN AtParity(Mine(u), 1) ELSE None
  BY DEF NextToRedo
<1> QED BY <1>5, <1>7, <1>8, <1>9

\* The ends of what is stacked are acts in the log.
LEMMA EndsAre ==
    ASSUME TypeInv, NEW u \in Users, NEW taken, NEW s \in Seq(1..acts), s # <<>>,
           NEW K, NEW by, NEW of, NEW deep, NEW root, NEW top,
           Family(log, K, acts, presses, by, of, deep, root, top),
           Piled(s, u, taken, K, by, of, deep, top)
    PROVE  /\ Len(s) \in 1..Len(s) /\ Len(s) \in Nat
           /\ Last(s) = s[Len(s)] /\ Last(s) \in K /\ of[Last(s)] = None /\ by[Last(s)] = u
           /\ top[Last(s)] \in K /\ by[top[Last(s)]] = u /\ top[top[Last(s)]] = top[Last(s)]
           /\ root[top[Last(s)]] = Last(s) /\ top[Last(s)] # None
<1> PICK m : m = Len(s)
  OBVIOUS
<1>1. m \in Nat /\ DOMAIN s = 1..m /\ m # 0
  BY SeqHas, EmptySeq
<1>2. m \in 1..m
  BY <1>1
<1> PICK o : o = s[m]
  OBVIOUS
<1>3. o \in K /\ of[o] = None /\ by[o] = u
  BY <1>1, <1>2 DEF Piled
<1>4. root[o] = o /\ top[o] \in K /\ by[top[o]] = u /\ top[top[o]] = top[o] /\ root[top[o]] = o
  BY <1>3 DEF Family
<1>5. K \subseteq 1..acts
  <2>1. K = Keys(log)
    BY DEF Family
  <2>2. acts \in Nat /\ size[1] \in Nat /\ log \in Seq(Rows(size[1], acts))
    BY StacksHave
  <2> QED BY <2>1, <2>2, KeysAre
<1>6. top[o] # None
  BY <1>4, <1>5 DEF None
<1>7. Last(s) = o
  BY DEF Last
<1> QED BY <1>1, <1>2, <1>3, <1>4, <1>6, <1>7

\* The chains say that each press finds something whenever there is something to find.
LEMMA ChainsFind ==
    ASSUME TypeInv, Followed, Len(log) <= Depth, Chains
    PROVE  FindsWhatThereIs
<1> SUFFICES ASSUME NEW u \in Users
             PROVE  /\ NextToUndo(u) = None <=> done[u] = <<>>
                    /\ NextToRedo(u) = None <=> undone[u] = <<>> \/ lastly[u] = "act"
  BY DEF FindsWhatThereIs
<1>1. PICK K, by, of, deep, root, top : Told(K, by, of, deep, root, top)
  BY DEF Chains, ChainsOf, Told
<1>2. /\ NextToUndo(u) = IF done[u] = <<>> THEN None ELSE top[Last(done[u])]
      /\ NextToRedo(u) = IF lastly[u] = "act" \/ undone[u] = <<>> THEN None
                         ELSE top[Last(undone[u])]
  BY <1>1, NextAre DEF Chains, ChainsOf
<1>3. /\ Family(log, K, acts, presses, by, of, deep, root, top)
      /\ Piled(done[u], u, FALSE, K, by, of, deep, top)
      /\ Piled(undone[u], u, TRUE, K, by, of, deep, top)
      /\ done[u] \in Seq(1..acts) /\ undone[u] \in Seq(1..acts)
  BY <1>1, StacksHave DEF Told, Tells, UserKept, AllDone, AllUndone
<1>4. ASSUME NEW taken, NEW s, s \in Seq(1..acts), s # <<>>, Piled(s, u, taken, K, by, of, deep, top)
      PROVE  top[Last(s)] # None
  BY ONLY TypeInv, u \in Users, <1>3, <1>4, EndsAre
<1>5. done[u] # <<>> => top[Last(done[u])] # None
  BY ONLY <1>3, <1>4, Zenon
<1>6. undone[u] # <<>> => top[Last(undone[u])] # None
  BY ONLY <1>3, <1>4, Zenon
<1> QED BY <1>2, <1>5, <1>6

-----------------------------------------------------------------------------
(***************************************************************************)
(* One act more: a change of the user's own, or what reverses the end of a *)
(* chain of theirs.                                                        *)
(***************************************************************************)
Extended(K, f, b, v) == [k \in K \cup {b} |-> IF k = b THEN v ELSE f[k]]

Extends(K, f, b, w) == [k \in K \cup {b} |-> IF k = b \/ (w # None /\ f[k] = w) THEN b ELSE f[k]]

\* A log with one act more, or with more of one that is the user's newest.
Grown(rows, later, b, u, w) ==
    /\ Keys(later) = Keys(rows) \cup {b}
    /\ \A r \in Range(later) :
          \/ r.act = b /\ r.user = u /\ r.undoes = w
          \/ \E q \in Range(rows) : q.act = r.act /\ q.user = r.user /\ q.undoes = r.undoes

Reversible(w, u, K, by, top) == w # None => w \in K /\ by[w] = u /\ top[w] = w

DeepOf(w, deep) == IF w = None THEN 0 ELSE deep[w] + 1
RootOf(w, root, b) == IF w = None THEN b ELSE root[w]

\* The chains once the act is in them.
Grows(K, a, p, by, of, deep, root, top, u, b, w, by2, of2, deep2, root2, top2) ==
    /\ b = a + 1 /\ K \subseteq 1..a /\ Reversible(w, u, K, by, top)
    /\ by2 = Extended(K, by, b, u) /\ of2 = Extended(K, of, b, w)
    /\ deep2 = Extended(K, deep, b, DeepOf(w, deep))
    /\ root2 = Extended(K, root, b, RootOf(w, root, b))
    /\ top2 = Extends(K, top, b, w)

Grew(K, a, p, by, of, deep, root, top, u, b, w, by2, of2, deep2, root2, top2) ==
    /\ b \in Nat /\ b \notin K /\ K \subseteq 1..a /\ b > a /\ b # None
    /\ by2[b] = u /\ of2[b] = w /\ deep2[b] = DeepOf(w, deep) /\ root2[b] = RootOf(w, root, b)
    /\ top2[b] = b
    /\ \A k \in K : /\ by2[k] = by[k] /\ of2[k] = of[k] /\ deep2[k] = deep[k]
                    /\ root2[k] = root[k]
                    /\ (w = None \/ top[k] # w) => top2[k] = top[k]
                    /\ (w # None /\ top[k] = w) => top2[k] = b

\* What one act more changes in the chains, told act by act.
LEMMA GrowsIs ==
    ASSUME NEW a \in Nat, NEW rows, NEW K, NEW p, NEW by, NEW of, NEW deep, NEW root, NEW top,
           NEW u, NEW b, NEW w, NEW by2, NEW of2, NEW deep2, NEW root2, NEW top2,
           Grows(K, a, p, by, of, deep, root, top, u, b, w, by2, of2, deep2, root2, top2)
    PROVE  Grew(K, a, p, by, of, deep, root, top, u, b, w, by2, of2, deep2, root2, top2)
<1>1. b \in Nat /\ b \notin K /\ K \subseteq 1..a /\ b > a /\ b # None
  BY DEF Grows, None
<1>2. /\ by2[b] = u /\ of2[b] = w /\ deep2[b] = DeepOf(w, deep) /\ root2[b] = RootOf(w, root, b)
      /\ top2[b] = b
  BY DEF Grows, Extended, Extends
<1>3. \A k \in K : k # b
  BY <1>1
<1>4. \A k \in K : /\ by2[k] = by[k] /\ of2[k] = of[k] /\ deep2[k] = deep[k]
                   /\ root2[k] = root[k]
  BY <1>3 DEF Grows, Extended
<1>5. \A k \in K : /\ (w = None \/ top[k] # w) => top2[k] = top[k]
                   /\ (w # None /\ top[k] = w) => top2[k] = b
  BY <1>3 DEF Grows, Extends
<1> QED BY <1>1, <1>2, <1>4, <1>5 DEF Grew

\* The chains of a log stay chains when one act more is logged.
LEMMA FamilyGrows ==
    ASSUME NEW a \in Nat, NEW p \in Nat, NEW p2 \in Nat, NEW rows, NEW later,
           NEW K, NEW by, NEW of, NEW deep, NEW root, NEW top, NEW u \in Users, NEW b, NEW w,
           NEW by2, NEW of2, NEW deep2, NEW root2, NEW top2,
           Family(rows, K, a, p, by, of, deep, root, top),
           Grows(K, a, p, by, of, deep, root, top, u, b, w, by2, of2, deep2, root2, top2),
           Grown(rows, later, b, u, w), p2 = IF w = None THEN p ELSE p + 1
    PROVE  Family(later, K \cup {b}, a + 1, p2, by2, of2, deep2, root2, top2)
<1> PICK L : L = K \cup {b}
  OBVIOUS
<1>1. Grew(K, a, p, by, of, deep, root, top, u, b, w, by2, of2, deep2, root2, top2)
  BY GrowsIs
<1>2. /\ b \in Nat /\ b \notin K /\ K \subseteq 1..a /\ b > a /\ b # None /\ b = a + 1
      /\ by2[b] = u /\ of2[b] = w /\ deep2[b] = DeepOf(w, deep) /\ root2[b] = RootOf(w, root, b)
      /\ top2[b] = b
  BY <1>1 DEF Grew, Grows
<1>3. \A k \in K : /\ by2[k] = by[k] /\ of2[k] = of[k] /\ deep2[k] = deep[k]
                   /\ root2[k] = root[k]
                   /\ (w = None \/ top[k] # w) => top2[k] = top[k]
                   /\ (w # None /\ top[k] = w) => top2[k] = b
  BY <1>1 DEF Grew
<1>4. w # None => w \in K /\ by[w] = u /\ top[w] = w
  BY DEF Grows, Reversible
<1>5. /\ K = Keys(rows)
      /\ by \in [K -> Users] /\ of \in [K -> 0..a] /\ deep \in [K -> 0..p]
      /\ root \in [K -> K] /\ top \in [K -> K]
      /\ \A r \in Range(rows) : by[r.act] = r.user /\ of[r.act] = r.undoes
  BY DEF Family
<1>6. \A k \in K : of[k] = None => deep[k] = 0 /\ root[k] = k
  BY DEF Family
<1>7. \A k \in K : of[k] # None =>
          /\ of[k] \in K /\ by[of[k]] = by[k] /\ deep[k] = deep[of[k]] + 1
          /\ root[k] = root[of[k]] /\ top[k] = top[of[k]] /\ top[of[k]] # of[k]
  BY DEF Family
<1>8. \A k \in K : top[k] # k => \E x \in K : of[x] = k
  BY DEF Family
<1>9. \A k \in K : /\ k <= top[k] /\ top[top[k]] = top[k] /\ by[top[k]] = by[k]
                   /\ root[top[k]] = root[k] /\ top[root[k]] = top[k] /\ by[root[k]] = by[k]
                   /\ of[root[k]] = None
  BY DEF Family
<1>10. \A k \in K : root[k] \in K /\ top[k] \in K
  BY <1>5
<1>11. L = Keys(later)
  BY <1>5 DEF Grown
<1>12. /\ by2 \in [L -> Users] /\ of2 \in [L -> 0..(a + 1)] /\ deep2 \in [L -> 0..p2]
       /\ root2 \in [L -> L] /\ top2 \in [L -> L]
  <2>1. w \in 0..(a + 1) /\ \A k \in K : of[k] \in 0..(a + 1)
    BY <1>2, <1>4, <1>5 DEF None
  <2>2. of2 \in [L -> 0..(a + 1)]
    BY <1>2, <2>1 DEF Grows, Extended
  <2>3. by2 \in [L -> Users]
    BY <1>5 DEF Grows, Extended
  <2>4. \A k \in K : deep[k] \in 0..p2
    BY <1>5
  <2>5. DeepOf(w, deep) \in 0..p2
    BY <1>4, <1>5 DEF DeepOf
  <2>6. deep2 \in [L -> 0..p2]
    BY <2>4, <2>5 DEF Grows, Extended
  <2>7. RootOf(w, root, b) \in L
    BY <1>4, <1>5 DEF RootOf
  <2>8. root2 \in [L -> L]
    BY <1>5, <2>7 DEF Grows, Extended
  <2>9. top2 \in [L -> L]
    BY <1>5 DEF Grows, Extends
  <2> QED BY <2>2, <2>3, <2>6, <2>8, <2>9
<1>13. ASSUME NEW r \in Range(later) PROVE by2[r.act] = r.user /\ of2[r.act] = r.undoes
  <2>1. CASE r.act = b /\ r.user = u /\ r.undoes = w
    BY <1>2, <2>1
  <2>2. ASSUME NEW q \in Range(rows), q.act = r.act, q.user = r.user, q.undoes = r.undoes
        PROVE  by2[r.act] = r.user /\ of2[r.act] = r.undoes
    <3>1. q.act \in K
      BY <1>5 DEF Keys
    <3> QED BY <1>3, <1>5, <2>2, <3>1
  <2> QED BY <2>1, <2>2 DEF Grown
<1>14. ASSUME NEW k \in L, of2[k] = None PROVE deep2[k] = 0 /\ root2[k] = k
  <2>1. CASE k \in K
    BY <1>3, <1>6, <1>14, <2>1
  <2>2. CASE k = b
    BY <1>2, <1>14, <2>2 DEF DeepOf, RootOf
  <2> QED BY <2>1, <2>2
<1>15. ASSUME NEW k \in L, of2[k] # None
       PROVE  /\ of2[k] \in L /\ by2[of2[k]] = by2[k] /\ deep2[k] = deep2[of2[k]] + 1
              /\ root2[k] = root2[of2[k]] /\ top2[k] = top2[of2[k]] /\ top2[of2[k]] # of2[k]
  <2>1. CASE k \in K
    <3> PICK x : x = of[k]
      OBVIOUS
    <3>1. of2[k] = x /\ x # None
      BY <1>3, <1>15, <2>1
    <3>2. /\ x \in K /\ by[x] = by[k] /\ deep[k] = deep[x] + 1
          /\ root[k] = root[x] /\ top[k] = top[x] /\ top[x] # x
      BY <1>7, <2>1, <3>1
    <3>3. top2[k] = top2[x] /\ top2[x] # x
      BY <1>2, <1>3, <2>1, <3>2
    <3> QED BY <1>3, <2>1, <3>1, <3>2, <3>3
  <2>2. CASE k = b
    <3>1. of2[k] = w /\ w # None /\ w \in K /\ by[w] = u /\ top[w] = w
      BY <1>2, <1>4, <1>15, <2>2
    <3>2. by2[w] = u /\ deep2[w] = deep[w] /\ root2[w] = root[w] /\ top2[w] = b /\ w # b
      BY <1>2, <1>3, <3>1
    <3> QED BY <1>2, <2>2, <3>1, <3>2 DEF DeepOf, RootOf
  <2> QED BY <2>1, <2>2
<1>16. ASSUME NEW k \in L, top2[k] # k PROVE \E x \in L : of2[x] = k
  <2>1. k \in K
    BY <1>2, <1>16
  <2>2. CASE top[k] # k
    <3>1. PICK x \in K : of[x] = k
      BY <1>8, <2>1, <2>2
    <3> QED BY <1>3, <3>1
  <2>3. CASE top[k] = k
    <3>1. w = k
      BY <1>3, <1>16, <2>1, <2>3
    <3> QED BY <1>2, <3>1
  <2> QED BY <2>2, <2>3
<1>17. ASSUME NEW k \in L
       PROVE  /\ k <= top2[k] /\ top2[top2[k]] = top2[k] /\ by2[top2[k]] = by2[k]
              /\ root2[top2[k]] = root2[k] /\ top2[root2[k]] = top2[k] /\ by2[root2[k]] = by2[k]
              /\ of2[root2[k]] = None
  <2>1. CASE k \in K
    <3> PICK o, t : o = root[k] /\ t = top[k]
      OBVIOUS
    <3>1. /\ o \in K /\ t \in K /\ k <= t /\ top[t] = t /\ by[t] = by[k] /\ root[t] = o
          /\ top[o] = t /\ by[o] = by[k] /\ of[o] = None
      BY <1>9, <1>10, <2>1
    <3>2. /\ root2[k] = o /\ by2[k] = by[k] /\ of2[o] = None /\ by2[o] = by[k]
          /\ top2[o] = top2[k]
      BY <1>3, <2>1, <3>1
    <3>3. CASE w # None /\ t = w
      <4>1. top2[k] = b
        BY <1>3, <2>1, <3>3
      <4>2. root2[b] = o /\ by[k] = u
        BY <1>2, <1>4, <3>1, <3>3 DEF RootOf
      <4>3. k <= b
        BY <1>2, <2>1
      <4> QED BY <1>2, <3>2, <4>1, <4>2, <4>3
    <3>4. CASE w = None \/ t # w
      <4>1. top2[k] = t /\ top2[t] = t
        BY <1>3, <2>1, <3>1, <3>4
      <4>2. by2[t] = by[t] /\ root2[t] = root[t]
        BY <1>3, <3>1
      <4> QED BY <3>1, <3>2, <4>1, <4>2
    <3> QED BY <3>3, <3>4
  <2>2. CASE k = b
    <3>1. CASE w = None
      <4>1. root2[b] = b
        BY <1>2, <3>1 DEF RootOf
      <4> QED BY <1>2, <2>2, <3>1, <4>1
    <3>2. CASE w # None
      <4> PICK o : o = root[w]
        OBVIOUS
      <4>1. /\ w \in K /\ by[w] = u /\ o \in K /\ top[o] = w /\ by[o] = u /\ of[o] = None
        BY <1>4, <1>9, <1>10, <3>2
      <4>2. top2[o] = b /\ by2[o] = u /\ of2[o] = None
        BY <1>3, <3>2, <4>1
      <4>3. root2[b] = o
        BY <1>2, <3>2 DEF RootOf
      <4> QED BY <1>2, <2>2, <4>2, <4>3
    <3> QED BY <3>1, <3>2
  <2> QED BY <2>1, <2>2
<1>18. Family(later, L, a + 1, p2, by2, of2, deep2, root2, top2)
  BY <1>11, <1>12, <1>13, <1>14, <1>15, <1>16, <1>17 DEF Family
<1> QED BY <1>18

-----------------------------------------------------------------------------
\* What becomes of a stack.
LEMMA FrontHas ==
    ASSUME NEW V, NEW s \in Seq(V), s # <<>>
    PROVE  /\ Front(s) \in Seq(V) /\ Len(s) \in Nat /\ Len(s) \in 1..Len(s)
           /\ DOMAIN s = 1..Len(s) /\ DOMAIN Front(s) = 1..(Len(s) - 1)
           /\ Len(Front(s)) = Len(s) - 1
           /\ \A i \in 1..(Len(s) - 1) : Front(s)[i] = s[i] /\ i \in 1..Len(s) /\ i < Len(s)
<1> PICK m : m = Len(s)
  OBVIOUS
<1>1. m \in Nat /\ DOMAIN s = 1..m /\ m # 0 /\ m \in 1..m
  <2>1. m \in Nat /\ DOMAIN s = 1..m /\ m # 0
    BY SeqHas, EmptySeq
  <2> QED BY <2>1
<1> PICK f : f = [i \in 1..(m - 1) |-> s[i]]
  OBVIOUS
<1>2. Front(s) = f
  <2>1. Front(s) = SubSeq(s, 1, m - 1)
    BY DEF Front
  <2>2. SubSeq(s, 1, m - 1) = f
    BY <1>1
  <2> QED BY <2>1, <2>2
<1>3. f \in [1..(m - 1) -> V] /\ m - 1 \in Nat
  BY <1>1, SeqHas
<1>4. f \in Seq(V) /\ Len(f) = m - 1
  BY <1>3, AsSeq
<1>5. \A i \in 1..(m - 1) : f[i] = s[i] /\ i \in 1..m /\ i < m
  BY <1>1
<1> QED BY <1>1, <1>2, <1>3, <1>4, <1>5

\* Appending to a sequence, place by place.
LEMMA AppendHas ==
    ASSUME NEW V, NEW s \in Seq(V), NEW x \in V
    PROVE  /\ Append(s, x) \in Seq(V) /\ Len(s) \in Nat /\ DOMAIN s = 1..Len(s)
           /\ DOMAIN Append(s, x) = 1..(Len(s) + 1)
           /\ \A i \in 1..Len(s) : Append(s, x)[i] = s[i] /\ i # Len(s) + 1
           /\ Append(s, x)[Len(s) + 1] = x
           /\ \A i \in 1..(Len(s) + 1) : i \in 1..Len(s) \/ i = Len(s) + 1
<1>1. Len(s) \in Nat /\ DOMAIN s = 1..Len(s)
  BY SeqHas
<1>2. /\ Append(s, x) \in Seq(V) /\ Len(Append(s, x)) = Len(s) + 1
      /\ \A i \in 1..Len(s) : Append(s, x)[i] = s[i]
      /\ Append(s, x)[Len(s) + 1] = x
  BY <1>1, AppendProperties
<1>3. DOMAIN Append(s, x) = 1..(Len(s) + 1)
  BY <1>2, SeqHas
<1>4. \A i \in 1..(Len(s) + 1) : i \in 1..Len(s) \/ i = Len(s) + 1
  BY <1>1
<1>5. \A i \in 1..Len(s) : i # Len(s) + 1
  BY <1>1
<1> QED BY <1>1, <1>2, <1>3, <1>4, <1>5

\* Once the last is nowhere else, what is left without it is the rest.
LEMMA WithoutLast ==
    ASSUME NEW V, NEW s \in Seq(V), s # <<>>, \A i \in DOMAIN s : s[i] = Last(s) => i = Len(s)
    PROVE  Without(s, Last(s)) = Front(s)
<1> PICK m, x, t : m = Len(s) /\ x = Last(s) /\ t = Front(s)
  OBVIOUS
<1>1. /\ t \in Seq(V) /\ m \in Nat /\ m \in 1..m /\ DOMAIN s = 1..m /\ Len(t) = m - 1
      /\ \A i \in 1..(m - 1) : t[i] = s[i] /\ i \in 1..m /\ i < m
  BY FrontHas
<1>2. s[m] = x
  BY DEF Last
<1> PICK S : S = Range(s) \ {x}
  OBVIOUS
<1>3. \A i \in 1..m : s[i] \in Range(s) /\ (s[i] = x => i = m)
  BY <1>1, SeqHas
<1>4. \A i \in 1..Len(t) : s[i] = t[i] /\ t[i] \in S
  BY <1>1, <1>3
<1>5. \A i \in 1..Len(s) : i > Len(t) => s[i] \notin S
  <2> SUFFICES ASSUME NEW i \in 1..m, i > m - 1 PROVE s[i] \notin S
    BY <1>1
  <2>1. i = m
    BY <1>1
  <2> QED BY <1>2, <2>1
<1>6. Len(t) <= Len(s)
  BY <1>1
<1>7. Among(S, s) = t
  BY <1>1, <1>4, <1>5, <1>6, AmongPrefix
<1> QED BY <1>7 DEF Without

-----------------------------------------------------------------------------
\* What the act does to the stacks.
Same(o, u, K, by, of, deep, top, L, by2, of2, deep2, top2) ==
    /\ o \in K /\ o \in L /\ of2[o] = of[o] /\ by2[o] = by[o] /\ top2[o] = top[o]
    /\ deep2[top2[o]] = deep[top[o]]

\* A chain that does not end where the act reverses is as it was.
LEMMA ElsewhereSame ==
    ASSUME NEW a \in Nat, NEW p, NEW rows, NEW K, NEW by, NEW of, NEW deep, NEW root, NEW top,
           NEW u, NEW b, NEW w, NEW by2, NEW of2, NEW deep2, NEW root2, NEW top2,
           Family(rows, K, a, p, by, of, deep, root, top),
           Grows(K, a, p, by, of, deep, root, top, u, b, w, by2, of2, deep2, root2, top2),
           NEW o \in K, w = None \/ top[o] # w
    PROVE  Same(o, u, K, by, of, deep, top, K \cup {b}, by2, of2, deep2, top2)
<1>1. Grew(K, a, p, by, of, deep, root, top, u, b, w, by2, of2, deep2, root2, top2)
  BY GrowsIs
<1>2. top[o] \in K
  BY DEF Family
<1> QED BY <1>1, <1>2 DEF Grew, Same

\* The chain the act is put on ends in it.
LEMMA HereLonger ==
    ASSUME NEW a \in Nat, NEW p, NEW rows, NEW K, NEW by, NEW of, NEW deep, NEW root, NEW top,
           NEW u, NEW b, NEW w, NEW by2, NEW of2, NEW deep2, NEW root2, NEW top2,
           Family(rows, K, a, p, by, of, deep, root, top),
           Grows(K, a, p, by, of, deep, root, top, u, b, w, by2, of2, deep2, root2, top2),
           w # None, NEW o \in K, top[o] = w
    PROVE  /\ o \in K \cup {b} /\ of2[o] = of[o] /\ by2[o] = by[o] /\ top2[o] = b
           /\ Even(deep2[top2[o]]) <=> ~Even(deep[top[o]])
           /\ of[o] = None => root[w] = o
<1>1. Grew(K, a, p, by, of, deep, root, top, u, b, w, by2, of2, deep2, root2, top2)
  BY GrowsIs
<1>2. /\ of2[o] = of[o] /\ by2[o] = by[o] /\ top2[o] = b
      /\ deep2[b] = DeepOf(w, deep)
  BY <1>1 DEF Grew
<1>3. w \in K /\ deep[w] \in 0..p
  BY DEF Family
<1>4. deep2[b] = deep[w] + 1 /\ deep[w] \in Nat
  BY <1>2, <1>3 DEF DeepOf
<1>5. Even(deep2[top2[o]]) <=> ~Even(deep[top[o]])
  BY <1>2, <1>4, EvenTurns
<1>6. of[o] = None => root[w] = o
  BY DEF Family
<1> QED BY <1>2, <1>5, <1>6

\* A stack of somebody the act is not of, or none of whose chains it reverses.
LEMMA PiledStays ==
    ASSUME NEW a \in Nat, NEW p, NEW rows, NEW K, NEW by, NEW of, NEW deep, NEW root, NEW top,
           NEW u, NEW b, NEW w, NEW by2, NEW of2, NEW deep2, NEW root2, NEW top2,
           Family(rows, K, a, p, by, of, deep, root, top),
           Grows(K, a, p, by, of, deep, root, top, u, b, w, by2, of2, deep2, root2, top2),
           NEW v, NEW taken \in BOOLEAN, v # u \/ (w = None /\ taken), NEW s,
           Piled(s, v, taken, K, by, of, deep, top)
    PROVE  Piled(s, v, taken, K \cup {b}, by2, of2, deep2, top2)
<1> PICK L : L = K \cup {b}
  OBVIOUS
<1>1. Grew(K, a, p, by, of, deep, root, top, u, b, w, by2, of2, deep2, root2, top2)
  BY GrowsIs
<1>2. by2[b] = u /\ of2[b] = w /\ top2[b] = b /\ deep2[b] = DeepOf(w, deep)
  BY <1>1 DEF Grew
<1>3. ASSUME NEW o \in K, by[o] = v
      PROVE  Same(o, u, K, by, of, deep, top, L, by2, of2, deep2, top2)
  <2>1. w = None \/ top[o] # w
    <3>1. by[top[o]] = v
      BY <1>3 DEF Family
    <3>2. w # None => by[w] = u
      BY DEF Grows, Reversible
    <3> QED BY <3>1, <3>2
  <2> QED BY <2>1, ElsewhereSame
<1>4. \A i \in DOMAIN s : /\ s[i] \in L /\ of2[s[i]] = None /\ by2[s[i]] = v
                          /\ Even(deep2[top2[s[i]]]) <=> ~taken
  <2> SUFFICES ASSUME NEW i \in DOMAIN s
               PROVE  /\ s[i] \in L /\ of2[s[i]] = None /\ by2[s[i]] = v
                      /\ Even(deep2[top2[s[i]]]) <=> ~taken
    OBVIOUS
  <2>1. /\ s[i] \in K /\ of[s[i]] = None /\ by[s[i]] = v
        /\ Even(deep[top[s[i]]]) <=> ~taken
    BY Zenon DEF Piled
  <2> QED BY <1>3, <2>1 DEF Same
<1>5. ASSUME NEW o \in L, of2[o] = None, by2[o] = v, Even(deep2[top2[o]]) <=> ~taken
      PROVE  \E i \in DOMAIN s : s[i] = o
  <2>1. o # b
    <3> SUFFICES ASSUME o = b PROVE FALSE
      OBVIOUS
    <3>1. v = u /\ w = None /\ taken
      BY <1>2, <1>5
    <3>2. deep2[top2[o]] = 0
      BY <1>2, <3>1 DEF DeepOf
    <3>3. Even(deep2[top2[o]])
      BY <3>2 DEF Even
    <3> QED BY <1>5, <3>1, <3>3
  <2>2. o \in K /\ of[o] = None /\ by[o] = v
    BY <1>1, <1>5, <2>1 DEF Grew
  <2>3. Even(deep[top[o]]) <=> ~taken
    BY <1>3, <1>5, <2>2 DEF Same
  <2> QED BY <2>2, <2>3, Zenon DEF Piled
<1>6. \A i, j \in DOMAIN s : i < j => top2[s[i]] < top2[s[j]]
  <2>1. \A i \in DOMAIN s : s[i] \in K /\ by[s[i]] = v
    BY Zenon DEF Piled
  <2>2. \A i \in DOMAIN s : top2[s[i]] = top[s[i]]
    BY <1>3, <2>1 DEF Same
  <2>3. \A i, j \in DOMAIN s : i < j => top[s[i]] < top[s[j]]
    BY Zenon DEF Piled
  <2> QED BY <2>2, <2>3
<1>7. \A o \in L : of2[o] = None /\ by2[o] = v /\ (Even(deep2[top2[o]]) <=> ~taken)
            => \E i \in DOMAIN s : s[i] = o
  BY <1>5
<1>8. Piled(s, v, taken, L, by2, of2, deep2, top2)
  BY <1>4, <1>6, <1>7, Zenon DEF Piled
<1> QED BY <1>8

\* Something new of the user's stands.
LEMMA PiledNew ==
    ASSUME NEW a \in Nat, NEW p, NEW rows, NEW K, NEW by, NEW of, NEW deep, NEW root, NEW top,
           NEW u, NEW b, NEW w, NEW by2, NEW of2, NEW deep2, NEW root2, NEW top2,
           Family(rows, K, a, p, by, of, deep, root, top),
           Grows(K, a, p, by, of, deep, root, top, u, b, w, by2, of2, deep2, root2, top2),
           w = None, NEW taken \in BOOLEAN, ~taken, NEW s \in Seq(1..(a + 1)),
           Piled(s, u, taken, K, by, of, deep, top)
    PROVE  Piled(Append(s, b), u, taken, K \cup {b}, by2, of2, deep2, top2)
<1> PICK L, t, m : L = K \cup {b} /\ t = Append(s, b) /\ m = Len(s)
  OBVIOUS
<1>1. Grew(K, a, p, by, of, deep, root, top, u, b, w, by2, of2, deep2, root2, top2)
  BY GrowsIs
<1>2. /\ by2[b] = u /\ of2[b] = w /\ top2[b] = b /\ deep2[b] = DeepOf(w, deep)
      /\ K \subseteq 1..a /\ b > a /\ b \in Nat /\ b \notin K
  BY <1>1 DEF Grew
<1>3. b \in 1..(a + 1)
  BY DEF Grows
<1>4. /\ m \in Nat /\ DOMAIN s = 1..m /\ DOMAIN t = 1..(m + 1)
      /\ \A i \in 1..m : t[i] = s[i]
      /\ t[m + 1] = b /\ \A i \in 1..(m + 1) : i \in 1..m \/ i = m + 1
  BY <1>3, AppendHas
<1>5. ASSUME NEW o \in K PROVE Same(o, u, K, by, of, deep, top, L, by2, of2, deep2, top2)
  BY ElsewhereSame
<1>6. /\ \A i \in 1..m : /\ s[i] \in K /\ of[s[i]] = None /\ by[s[i]] = u
                         /\ Even(deep[top[s[i]]]) <=> ~taken
      /\ \A o \in K : of[o] = None /\ by[o] = u /\ (Even(deep[top[o]]) <=> ~taken)
            => \E i \in 1..m : s[i] = o
      /\ \A i, j \in 1..m : i < j => top[s[i]] < top[s[j]]
  BY <1>4 DEF Piled
<1>7. Even(deep2[top2[b]])
  <2>1. deep2[top2[b]] = 0
    BY <1>2 DEF DeepOf
  <2> QED BY <2>1 DEF Even
<1>8. ASSUME NEW i \in 1..(m + 1)
      PROVE  /\ t[i] \in L /\ of2[t[i]] = None /\ by2[t[i]] = u
             /\ Even(deep2[top2[t[i]]]) <=> ~taken
  <2>1. CASE i \in 1..m
    <3>1. /\ s[i] \in K /\ of[s[i]] = None /\ by[s[i]] = u
          /\ Even(deep[top[s[i]]]) <=> ~taken
      BY <1>6, <2>1
    <3>2. t[i] = s[i]
      BY <1>4, <2>1
    <3> QED BY <1>5, <3>1, <3>2 DEF Same
  <2>2. CASE i = m + 1
    BY <1>2, <1>4, <1>7, <2>2
  <2> QED BY <1>4, <2>1, <2>2
<1>9. ASSUME NEW o \in L, of2[o] = None, by2[o] = u, Even(deep2[top2[o]]) <=> ~taken
      PROVE  \E i \in 1..(m + 1) : t[i] = o
  <2>1. CASE o = b
    BY <1>4, <2>1
  <2>2. CASE o \in K
    <3>1. of[o] = None /\ by[o] = u /\ (Even(deep[top[o]]) <=> ~taken)
      BY <1>5, <1>9, <2>2 DEF Same
    <3>2. PICK i \in 1..m : s[i] = o
      BY <1>6, <2>2, <3>1
    <3>3. i \in 1..(m + 1)
      BY <1>4
    <3> QED BY <1>4, <3>2, <3>3
  <2> QED BY <2>1, <2>2
<1>10. ASSUME NEW i \in 1..(m + 1), NEW j \in 1..(m + 1), i < j
       PROVE  top2[t[i]] < top2[t[j]]
  <2>1. i \in 1..m
    BY <1>4, <1>10
  <2>2. t[i] = s[i] /\ s[i] \in K /\ top2[s[i]] = top[s[i]]
    BY <1>4, <1>5, <1>6, <2>1 DEF Same
  <2>3. CASE j \in 1..m
    <3>1. t[j] = s[j] /\ s[j] \in K /\ top2[s[j]] = top[s[j]]
      BY <1>4, <1>5, <1>6, <2>3 DEF Same
    <3> QED BY <1>6, <1>10, <2>1, <2>2, <2>3, <3>1
  <2>4. CASE j = m + 1
    <3>1. top[s[i]] \in K
      BY <2>2 DEF Family
    <3>2. top[s[i]] < b
      <4> PICK q : q = top[s[i]]
        OBVIOUS
      <4>1. q \in 1..a /\ a \in Nat /\ b \in Nat /\ b > a
        BY <1>2, <3>1
      <4>2. q < b
        BY ONLY <4>1
      <4> QED BY <4>2
    <3>3. top2[t[j]] = b
      BY <1>2, <1>4, <2>4
    <3> QED BY <2>2, <3>2, <3>3
  <2> QED BY <1>4, <2>3, <2>4
<1>11. Piled(t, u, taken, L, by2, of2, deep2, top2)
  BY <1>4, <1>8, <1>9, <1>10 DEF Piled
<1> QED BY <1>11

\* The last of a stack is reversed, and is on it no more.
LEMMA PiledOff ==
    ASSUME NEW a \in Nat, NEW p, NEW rows, NEW K, NEW by, NEW of, NEW deep, NEW root, NEW top,
           NEW u, NEW b, NEW w, NEW by2, NEW of2, NEW deep2, NEW root2, NEW top2,
           Family(rows, K, a, p, by, of, deep, root, top),
           Grows(K, a, p, by, of, deep, root, top, u, b, w, by2, of2, deep2, root2, top2),
           w # None, NEW taken \in BOOLEAN, NEW s \in Seq(1..a), s # <<>>, w = top[Last(s)],
           Piled(s, u, taken, K, by, of, deep, top)
    PROVE  Piled(Front(s), u, taken, K \cup {b}, by2, of2, deep2, top2)
<1> PICK L, t, m : L = K \cup {b} /\ t = Front(s) /\ m = Len(s)
  OBVIOUS
<1>1. Grew(K, a, p, by, of, deep, root, top, u, b, w, by2, of2, deep2, root2, top2)
  BY GrowsIs
<1>2. /\ by2[b] = u /\ of2[b] = w /\ top2[b] = b
      /\ K \subseteq 1..a /\ b \notin K
  BY <1>1 DEF Grew
<1>3. /\ m \in Nat /\ m \in 1..m /\ DOMAIN s = 1..m /\ DOMAIN t = 1..(m - 1)
      /\ \A i \in 1..(m - 1) : t[i] = s[i] /\ i \in 1..m /\ i < m
  BY FrontHas
<1>4. w = top[s[m]]
  BY DEF Last
<1>5. /\ \A i \in 1..m : /\ s[i] \in K /\ of[s[i]] = None /\ by[s[i]] = u
                         /\ Even(deep[top[s[i]]]) <=> ~taken
      /\ \A o \in K : of[o] = None /\ by[o] = u /\ (Even(deep[top[o]]) <=> ~taken)
            => \E i \in 1..m : s[i] = o
      /\ \A i, j \in 1..m : i < j => top[s[i]] < top[s[j]]
  BY <1>3 DEF Piled
<1>6. \A o \in K : top[o] \in K
  BY DEF Family
<1>7. ASSUME NEW o \in K, top[o] # w
      PROVE  Same(o, u, K, by, of, deep, top, L, by2, of2, deep2, top2)
  BY <1>7, ElsewhereSame
<1>8. ASSUME NEW i \in 1..(m - 1)
      PROVE  /\ t[i] = s[i] /\ s[i] \in K /\ top[s[i]] # w
             /\ Same(s[i], u, K, by, of, deep, top, L, by2, of2, deep2, top2)
  <2>1. t[i] = s[i] /\ i \in 1..m /\ i < m /\ s[i] \in K /\ s[m] \in K
    BY <1>3, <1>5
  <2>2. top[s[i]] < w /\ top[s[i]] \in K /\ w \in K
    BY <1>3, <1>4, <1>5, <1>6, <2>1
  <2>3. top[s[i]] # w
    BY <1>2, <2>2
  <2> QED BY <1>7, <2>1, <2>3
<1>9. ASSUME NEW i \in 1..(m - 1)
      PROVE  /\ t[i] \in L /\ of2[t[i]] = None /\ by2[t[i]] = u
             /\ Even(deep2[top2[t[i]]]) <=> ~taken
  <2>1. /\ of[s[i]] = None /\ by[s[i]] = u /\ (Even(deep[top[s[i]]]) <=> ~taken)
    BY <1>3, <1>5
  <2> QED BY <1>8, <2>1 DEF Same
<1>10. ASSUME NEW o \in L, of2[o] = None, by2[o] = u, Even(deep2[top2[o]]) <=> ~taken
       PROVE  \E i \in 1..(m - 1) : t[i] = o
  <2>1. o \in K
    BY <1>2, <1>10
  <2>2. top[o] # w
    <3> SUFFICES ASSUME top[o] = w PROVE FALSE
      OBVIOUS
    <3>1. Even(deep2[top2[o]]) <=> ~Even(deep[w])
      BY <2>1, HereLonger
    <3>2. Even(deep[w]) <=> ~taken
      BY <1>3, <1>4, <1>5
    <3> QED BY <1>10, <3>1, <3>2
  <2>3. of[o] = None /\ by[o] = u /\ (Even(deep[top[o]]) <=> ~taken)
    BY <1>7, <1>10, <2>1, <2>2 DEF Same
  <2>4. PICK i \in 1..m : s[i] = o
    BY <1>5, <2>1, <2>3
  <2>5. i # m
    BY <1>4, <2>2, <2>4
  <2>6. i \in 1..(m - 1)
    BY <1>3, <2>5
  <2> QED BY <1>3, <2>4, <2>6
<1>11. ASSUME NEW i \in 1..(m - 1), NEW j \in 1..(m - 1), i < j
       PROVE  top2[t[i]] < top2[t[j]]
  <2>1. top2[t[i]] = top[s[i]] /\ top2[t[j]] = top[s[j]]
    BY <1>8 DEF Same
  <2> QED BY <1>3, <1>5, <1>11, <2>1
<1>12. Piled(t, u, taken, L, by2, of2, deep2, top2)
  BY <1>3, <1>9, <1>10, <1>11 DEF Piled
<1> QED BY <1>12

\* And is the last of the other.
LEMMA PiledOn ==
    ASSUME NEW a \in Nat, NEW p, NEW rows, NEW K, NEW by, NEW of, NEW deep, NEW root, NEW top,
           NEW u, NEW b, NEW w, NEW by2, NEW of2, NEW deep2, NEW root2, NEW top2,
           Family(rows, K, a, p, by, of, deep, root, top),
           Grows(K, a, p, by, of, deep, root, top, u, b, w, by2, of2, deep2, root2, top2),
           w # None, NEW taken \in BOOLEAN, NEW x \in K, w = top[x], of[x] = None, by[x] = u,
           Even(deep[w]) <=> taken,
           NEW s \in Seq(1..a), Piled(s, u, taken, K, by, of, deep, top)
    PROVE  Piled(Append(s, x), u, taken, K \cup {b}, by2, of2, deep2, top2)
<1> PICK L, t, m : L = K \cup {b} /\ t = Append(s, x) /\ m = Len(s)
  OBVIOUS
<1>1. Grew(K, a, p, by, of, deep, root, top, u, b, w, by2, of2, deep2, root2, top2)
  BY GrowsIs
<1>2. /\ by2[b] = u /\ of2[b] = w /\ top2[b] = b
      /\ K \subseteq 1..a /\ b > a /\ b \in Nat /\ b \notin K
  BY <1>1 DEF Grew
<1>3. x \in 1..a
  BY <1>2
<1>4. /\ m \in Nat /\ DOMAIN s = 1..m /\ DOMAIN t = 1..(m + 1)
      /\ \A i \in 1..m : t[i] = s[i]
      /\ t[m + 1] = x /\ \A i \in 1..(m + 1) : i \in 1..m \/ i = m + 1
  BY <1>3, AppendHas
<1>5. /\ \A i \in 1..m : /\ s[i] \in K /\ of[s[i]] = None /\ by[s[i]] = u
                         /\ Even(deep[top[s[i]]]) <=> ~taken
      /\ \A o \in K : of[o] = None /\ by[o] = u /\ (Even(deep[top[o]]) <=> ~taken)
            => \E i \in 1..m : s[i] = o
      /\ \A i, j \in 1..m : i < j => top[s[i]] < top[s[j]]
  BY <1>4 DEF Piled
<1>6. \A o \in K : top[o] \in K
  BY DEF Family
<1>7. ASSUME NEW o \in K, top[o] # w
      PROVE  Same(o, u, K, by, of, deep, top, L, by2, of2, deep2, top2)
  BY <1>7, ElsewhereSame
<1>8. ASSUME NEW i \in 1..m
      PROVE  /\ t[i] = s[i] /\ s[i] \in K
             /\ Same(s[i], u, K, by, of, deep, top, L, by2, of2, deep2, top2)
  <2>1. s[i] \in K /\ (Even(deep[top[s[i]]]) <=> ~taken)
    BY <1>5
  <2>2. top[s[i]] # w
    BY <2>1
  <2> QED BY <1>4, <1>7, <2>1, <2>2
<1>9. /\ of2[x] = None /\ by2[x] = u /\ top2[x] = b
      /\ (Even(deep2[top2[x]]) <=> ~taken)
      /\ root[w] = x
  BY HereLonger
<1>10. ASSUME NEW i \in 1..(m + 1)
       PROVE  /\ t[i] \in L /\ of2[t[i]] = None /\ by2[t[i]] = u
              /\ Even(deep2[top2[t[i]]]) <=> ~taken
  <2>1. CASE i \in 1..m
    <3>1. /\ of[s[i]] = None /\ by[s[i]] = u /\ (Even(deep[top[s[i]]]) <=> ~taken)
      BY <1>5, <2>1
    <3> QED BY <1>8, <2>1, <3>1 DEF Same
  <2>2. CASE i = m + 1
    BY <1>4, <1>9, <2>2
  <2> QED BY <1>4, <2>1, <2>2
<1>11. ASSUME NEW o \in L, of2[o] = None, by2[o] = u, Even(deep2[top2[o]]) <=> ~taken
       PROVE  \E i \in 1..(m + 1) : t[i] = o
  <2>1. o \in K
    BY <1>2, <1>11
  <2>2. CASE top[o] = w
    <3>1. of[o] = None
      BY <1>1, <1>11, <2>1 DEF Grew
    <3>2. root[w] = o
      BY <2>1, <2>2, <3>1, HereLonger
    <3> QED BY <1>4, <1>9, <3>2
  <2>3. CASE top[o] # w
    <3>1. of[o] = None /\ by[o] = u /\ (Even(deep[top[o]]) <=> ~taken)
      BY <1>7, <1>11, <2>1, <2>3 DEF Same
    <3>2. PICK i \in 1..m : s[i] = o
      BY <1>5, <2>1, <3>1
    <3>3. i \in 1..(m + 1)
      BY <1>4
    <3> QED BY <1>4, <3>2, <3>3
  <2> QED BY <2>2, <2>3
<1>12. ASSUME NEW i \in 1..(m + 1), NEW j \in 1..(m + 1), i < j
       PROVE  top2[t[i]] < top2[t[j]]
  <2>1. i \in 1..m
    BY <1>4, <1>12
  <2>2. t[i] = s[i] /\ s[i] \in K /\ top2[s[i]] = top[s[i]]
    BY <1>8, <2>1 DEF Same
  <2>3. CASE j \in 1..m
    <3>1. t[j] = s[j] /\ top2[s[j]] = top[s[j]]
      BY <1>8, <2>3 DEF Same
    <3> QED BY <1>5, <1>12, <2>1, <2>2, <2>3, <3>1
  <2>4. CASE j = m + 1
    <3>1. top[s[i]] \in K
      BY <1>6, <2>2
    <3>2. top[s[i]] < b
      <4> PICK q : q = top[s[i]]
        OBVIOUS
      <4>1. q \in 1..a /\ a \in Nat /\ b \in Nat /\ b > a
        BY <1>2, <3>1
      <4>2. q < b
        BY ONLY <4>1
      <4> QED BY <4>2
    <3>3. top2[t[j]] = b
      BY <1>4, <1>9, <2>4
    <3> QED BY <2>2, <3>2, <3>3
  <2> QED BY <1>4, <2>3, <2>4
<1>13. Piled(t, u, taken, L, by2, of2, deep2, top2)
  BY <1>4, <1>10, <1>11, <1>12, SMTT(20) DEF Piled
<1> QED BY <1>13

-----------------------------------------------------------------------------
\* What is kept of another user.
LEMMA KeptElse ==
    ASSUME NEW a \in Nat, NEW p, NEW rows, NEW K, NEW by, NEW of, NEW deep, NEW root, NEW top,
           NEW u, NEW b, NEW w, NEW by2, NEW of2, NEW deep2, NEW root2, NEW top2,
           Family(rows, K, a, p, by, of, deep, root, top),
           Grows(K, a, p, by, of, deep, root, top, u, b, w, by2, of2, deep2, root2, top2),
           NEW v, v # u, NEW d, NEW t, NEW act, NEW did,
           UserKept(v, d, t, act, did, K, by, of, deep, top)
    PROVE  UserKept(v, d, t, act, did, K \cup {b}, by2, of2, deep2, top2)
<1> PICK L : L = K \cup {b}
  OBVIOUS
<1>1. Grew(K, a, p, by, of, deep, root, top, u, b, w, by2, of2, deep2, root2, top2)
  BY GrowsIs
<1>2. /\ by2[b] = u /\ b \notin K /\ \A k \in K : by2[k] = by[k] /\ of2[k] = of[k]
  BY <1>1 DEF Grew
<1>3. ASSUME NEW k \in L, by2[k] = v PROVE k \in K /\ by[k] = v /\ of2[k] = of[k]
  BY <1>2, <1>3
<1>0. ASSUME NEW taken \in BOOLEAN, NEW s, Piled(s, v, taken, K, by, of, deep, top)
      PROVE  Piled(s, v, taken, L, by2, of2, deep2, top2)
  BY <1>0, PiledStays
<1>4. AllDone(d, v, L, by2, of2, deep2, top2)
  <2> PICK taken \in BOOLEAN : taken = FALSE
    OBVIOUS
  <2>1. Piled(d, v, taken, K, by, of, deep, top)
    BY DEF UserKept, AllDone
  <2>2. Piled(d, v, taken, L, by2, of2, deep2, top2)
    BY <1>0, <2>1
  <2> QED BY <2>2 DEF AllDone
<1>5. AllUndone(t, v, L, by2, of2, deep2, top2)
  <2> PICK taken \in BOOLEAN : taken = TRUE
    OBVIOUS
  <2>1. Piled(t, v, taken, K, by, of, deep, top)
    BY DEF UserKept, AllUndone
  <2>2. Piled(t, v, taken, L, by2, of2, deep2, top2)
    BY <1>0, <2>1
  <2> QED BY <2>2 DEF AllUndone
<1>6. Pending(v, act, L, by2, of2)
  <2> SUFFICES ASSUME act # None
               PROVE  /\ act \in L /\ by2[act] = v /\ of2[act] = None
                      /\ \A k \in L : by2[k] = v => k <= act
    BY DEF Pending
  <2>1. /\ act \in K /\ by[act] = v /\ of[act] = None /\ \A k \in K : by[k] = v => k <= act
    BY DEF UserKept, Pending
  <2> QED BY <1>2, <1>3, <2>1
<1>7. Latest(v, did, L, by2, of2)
  <2>1. /\ (\A k \in K : by[k] # v) => did = "act"
        /\ \A k \in K : by[k] = v /\ (\A x \in K : by[x] = v => x <= k)
                           => (of[k] = None <=> did = "act")
    BY DEF UserKept, Latest
  <2>2. ASSUME \A k \in L : by2[k] # v PROVE did = "act"
    <3>1. \A k \in K : by[k] # v
      BY <1>2, <2>2
    <3> QED BY <2>1, <3>1
  <2>3. ASSUME NEW k \in L, by2[k] = v, \A x \in L : by2[x] = v => x <= k
        PROVE  of2[k] = None <=> did = "act"
    <3>1. k \in K /\ by[k] = v /\ of2[k] = of[k]
      BY <1>3, <2>3
    <3>2. \A x \in K : by[x] = v => x <= k
      BY <1>2, <2>3
    <3> QED BY <2>1, <3>1, <3>2
  <2> QED BY <2>2, <2>3 DEF Latest
<1>8. UserKept(v, d, t, act, did, L, by2, of2, deep2, top2)
  BY <1>4, <1>5, <1>6, <1>7 DEF UserKept
<1> QED BY <1>8

\* The user's own: the act is the newest.
LEMMA LatestIs ==
    ASSUME NEW a \in Nat, NEW p, NEW rows, NEW K, NEW by, NEW of, NEW deep, NEW root, NEW top,
           NEW u, NEW b, NEW w, NEW by2, NEW of2, NEW deep2, NEW root2, NEW top2,
           Grows(K, a, p, by, of, deep, root, top, u, b, w, by2, of2, deep2, root2, top2),
           NEW did, w = None <=> did = "act"
    PROVE  Latest(u, did, K \cup {b}, by2, of2)
<1>1. Grew(K, a, p, by, of, deep, root, top, u, b, w, by2, of2, deep2, root2, top2)
  BY GrowsIs
<1>2. by2[b] = u /\ of2[b] = w /\ K \subseteq 1..a /\ b > a /\ b \in Nat
  BY <1>1 DEF Grew
<1>3. \A k \in K : ~(b <= k)
  BY <1>2
<1>4. ASSUME NEW k \in K \cup {b}, \A x \in K \cup {b} : by2[x] = u => x <= k PROVE k = b
  BY <1>2, <1>3, <1>4
<1> QED BY <1>2, <1>4 DEF Latest

\* A gesture that is open has not been reversed.
LEMMA PendingIs ==
    ASSUME NEW a \in Nat, NEW p, NEW rows, NEW K, NEW by, NEW of, NEW deep, NEW root, NEW top,
           NEW u, NEW b, NEW w, NEW by2, NEW of2, NEW deep2, NEW root2, NEW top2,
           Grows(K, a, p, by, of, deep, root, top, u, b, w, by2, of2, deep2, root2, top2),
           NEW act, act = None \/ (act = b /\ w = None)
    PROVE  Pending(u, act, K \cup {b}, by2, of2)
<1>1. Grew(K, a, p, by, of, deep, root, top, u, b, w, by2, of2, deep2, root2, top2)
  BY GrowsIs
<1>2. by2[b] = u /\ of2[b] = w /\ K \subseteq 1..a /\ b > a /\ b \in Nat
  BY <1>1 DEF Grew
<1>3. \A k \in K \cup {b} : k <= b
  BY <1>2
<1> QED BY <1>2, <1>3 DEF Pending

\* A user's new change goes on what stands and leaves the rest of the stacks alone.
LEMMA KeptNew ==
    ASSUME NEW a \in Nat, NEW p, NEW rows, NEW K, NEW by, NEW of, NEW deep, NEW root, NEW top,
           NEW u, NEW b, NEW w, NEW by2, NEW of2, NEW deep2, NEW root2, NEW top2,
           Family(rows, K, a, p, by, of, deep, root, top),
           Grows(K, a, p, by, of, deep, root, top, u, b, w, by2, of2, deep2, root2, top2),
           w = None, NEW d \in Seq(1..(a + 1)), NEW t, NEW was, NEW did, NEW act,
           act = None \/ act = b,
           UserKept(u, d, t, was, did, K, by, of, deep, top)
    PROVE  UserKept(u, Append(d, b), t, act, "act", K \cup {b}, by2, of2, deep2, top2)
<1> PICK L : L = K \cup {b}
  OBVIOUS
<1>1. AllDone(Append(d, b), u, L, by2, of2, deep2, top2)
  <2> PICK taken \in BOOLEAN : taken = FALSE
    OBVIOUS
  <2>1. Piled(d, u, taken, K, by, of, deep, top)
    BY DEF UserKept, AllDone
  <2>2. Piled(Append(d, b), u, taken, L, by2, of2, deep2, top2)
    BY <2>1, PiledNew
  <2> QED BY <2>2 DEF AllDone
<1>2. AllUndone(t, u, L, by2, of2, deep2, top2)
  <2> PICK taken \in BOOLEAN : taken = TRUE
    OBVIOUS
  <2>1. Piled(t, u, taken, K, by, of, deep, top)
    BY DEF UserKept, AllUndone
  <2>2. Piled(t, u, taken, L, by2, of2, deep2, top2)
    BY <2>1, PiledStays, ZenonT(30)
  <2> QED BY <2>2 DEF AllUndone
<1>3. Pending(u, act, L, by2, of2)
  BY PendingIs
<1>4. Latest(u, "act", L, by2, of2)
  BY LatestIs
<1>5. UserKept(u, Append(d, b), t, act, "act", L, by2, of2, deep2, top2)
  BY <1>1, <1>2, <1>3, <1>4 DEF UserKept
<1> QED BY <1>5

\* The last of what stands is taken back.
LEMMA KeptUndo ==
    ASSUME NEW a \in Nat, NEW p, NEW rows, NEW K, NEW by, NEW of, NEW deep, NEW root, NEW top,
           NEW u, NEW b, NEW w, NEW by2, NEW of2, NEW deep2, NEW root2, NEW top2,
           Family(rows, K, a, p, by, of, deep, root, top),
           Grows(K, a, p, by, of, deep, root, top, u, b, w, by2, of2, deep2, root2, top2),
           w # None, NEW d \in Seq(1..a), d # <<>>, NEW t \in Seq(1..a), w = top[Last(d)],
           NEW was, NEW did, NEW now, now # "act",
           UserKept(u, d, t, was, did, K, by, of, deep, top)
    PROVE  UserKept(u, Front(d), Append(t, Last(d)), None, now, K \cup {b}, by2, of2, deep2, top2)
<1> PICK L, x : L = K \cup {b} /\ x = Last(d)
  OBVIOUS
<1>1. x \in K /\ of[x] = None /\ by[x] = u /\ Even(deep[w])
  <2>1. Len(d) \in DOMAIN d /\ x = d[Len(d)]
    BY FrontHas DEF Last
  <2> QED BY <2>1 DEF UserKept, AllDone, Piled
<1>2. AllDone(Front(d), u, L, by2, of2, deep2, top2)
  <2> PICK taken \in BOOLEAN : taken = FALSE
    OBVIOUS
  <2>1. Piled(d, u, taken, K, by, of, deep, top)
    BY DEF UserKept, AllDone
  <2>2. Piled(Front(d), u, taken, L, by2, of2, deep2, top2)
    BY <2>1, PiledOff
  <2> QED BY <2>2 DEF AllDone
<1>3. AllUndone(Append(t, x), u, L, by2, of2, deep2, top2)
  <2> PICK taken \in BOOLEAN : taken = TRUE
    OBVIOUS
  <2>1. Piled(t, u, taken, K, by, of, deep, top)
    BY DEF UserKept, AllUndone
  <2>2. Even(deep[w]) <=> taken
    BY <1>1
  <2>3. Piled(Append(t, x), u, taken, L, by2, of2, deep2, top2)
    BY <1>1, <2>1, <2>2, PiledOn
  <2> QED BY <2>3 DEF AllUndone
<1>4. Pending(u, None, L, by2, of2)
  BY PendingIs
<1>5. Latest(u, now, L, by2, of2)
  BY LatestIs
<1>6. UserKept(u, Front(d), Append(t, x), None, now, L, by2, of2, deep2, top2)
  BY <1>2, <1>3, <1>4, <1>5 DEF UserKept
<1> QED BY <1>6

\* The last taken back is put back.
LEMMA KeptRedo ==
    ASSUME NEW a \in Nat, NEW p, NEW rows, NEW K, NEW by, NEW of, NEW deep, NEW root, NEW top,
           NEW u, NEW b, NEW w, NEW by2, NEW of2, NEW deep2, NEW root2, NEW top2,
           Family(rows, K, a, p, by, of, deep, root, top),
           Grows(K, a, p, by, of, deep, root, top, u, b, w, by2, of2, deep2, root2, top2),
           w # None, NEW t \in Seq(1..a), t # <<>>, NEW d \in Seq(1..a), w = top[Last(t)],
           NEW was, NEW did, NEW now, now # "act",
           UserKept(u, d, t, was, did, K, by, of, deep, top)
    PROVE  UserKept(u, Append(d, Last(t)), Front(t), None, now, K \cup {b}, by2, of2, deep2, top2)
<1> PICK L, x : L = K \cup {b} /\ x = Last(t)
  OBVIOUS
<1>1. x \in K /\ of[x] = None /\ by[x] = u /\ ~Even(deep[w])
  <2>1. Len(t) \in DOMAIN t /\ x = t[Len(t)]
    BY FrontHas DEF Last
  <2> QED BY <2>1 DEF UserKept, AllUndone, Piled
<1>2. AllUndone(Front(t), u, L, by2, of2, deep2, top2)
  <2> PICK taken \in BOOLEAN : taken = TRUE
    OBVIOUS
  <2>1. Piled(t, u, taken, K, by, of, deep, top)
    BY DEF UserKept, AllUndone
  <2>2. Piled(Front(t), u, taken, L, by2, of2, deep2, top2)
    BY <2>1, PiledOff
  <2> QED BY <2>2 DEF AllUndone
<1>3. AllDone(Append(d, x), u, L, by2, of2, deep2, top2)
  <2> PICK taken \in BOOLEAN : taken = FALSE
    OBVIOUS
  <2>1. Piled(d, u, taken, K, by, of, deep, top)
    BY DEF UserKept, AllDone
  <2>2. Even(deep[w]) <=> taken
    BY <1>1
  <2>3. Piled(Append(d, x), u, taken, L, by2, of2, deep2, top2)
    BY <1>1, <2>1, <2>2, PiledOn
  <2> QED BY <2>3 DEF AllDone
<1>4. Pending(u, None, L, by2, of2)
  BY PendingIs
<1>5. Latest(u, now, L, by2, of2)
  BY LatestIs
<1>6. UserKept(u, Append(d, x), Front(t), None, now, L, by2, of2, deep2, top2)
  BY <1>2, <1>3, <1>4, <1>5 DEF UserKept
<1> QED BY <1>6

-----------------------------------------------------------------------------
\* Both grown at once, whoever the act is of.
More(p, w) == IF w = None THEN p ELSE p + 1

\* The others' histories are as they were.
Elsewhere(u, d, t, o, l, d2, t2, o2, l2) ==
    \A v \in Users \ {u} : d2[v] = d[v] /\ t2[v] = t[v] /\ o2[v] = o[v] /\ l2[v] = l[v]

\* And the user's tell what is in the log.
Here(u, d, t, o, l, K, by, of, deep, top) ==
    UserKept(u, d[u], t[u], o[u], l[u], K, by, of, deep, top)

\* The log tells the stacks still, when it tells the ones whose user has acted.
LEMMA ChainsGrow ==
    ASSUME NEW a \in Nat, NEW p \in Nat, NEW rows, NEW later,
           NEW K, NEW by, NEW of, NEW deep, NEW root, NEW top, NEW u \in Users, NEW b, NEW w,
           NEW by2, NEW of2, NEW deep2, NEW root2, NEW top2,
           NEW d, NEW t, NEW o, NEW l, NEW d2, NEW t2, NEW o2, NEW l2,
           Tells(rows, a, p, d, t, o, l, K, by, of, deep, root, top),
           Grows(K, a, p, by, of, deep, root, top, u, b, w, by2, of2, deep2, root2, top2),
           Grown(rows, later, b, u, w),
           Elsewhere(u, d, t, o, l, d2, t2, o2, l2),
           Here(u, d2, t2, o2, l2, K \cup {b}, by2, of2, deep2, top2),
           Ordered(later)
    PROVE  /\ ChainsOf(later, a + 1, More(p, w), d2, t2, o2, l2)
           /\ Tells(later, a + 1, More(p, w), d2, t2, o2, l2, K \cup {b}, by2, of2, deep2, root2, top2)
<1> PICK p2 : p2 = More(p, w)
  OBVIOUS
<1>0. p2 \in Nat /\ p2 = IF w = None THEN p ELSE p + 1
  BY DEF More
<1>1. Family(rows, K, a, p, by, of, deep, root, top)
  BY DEF Tells
<1>2. Family(later, K \cup {b}, a + 1, p2, by2, of2, deep2, root2, top2)
  BY <1>0, <1>1, FamilyGrows
<1>3. ASSUME NEW v \in Users
      PROVE  UserKept(v, d2[v], t2[v], o2[v], l2[v], K \cup {b}, by2, of2, deep2, top2)
  <2>1. CASE v = u
    BY <2>1 DEF Here
  <2>2. CASE v # u
    <3>1. UserKept(v, d[v], t[v], o[v], l[v], K, by, of, deep, top)
      BY DEF Tells
    <3>2. UserKept(v, d[v], t[v], o[v], l[v], K \cup {b}, by2, of2, deep2, top2)
      BY <1>1, <2>2, <3>1, KeptElse
    <3>3. d2[v] = d[v] /\ t2[v] = t[v] /\ o2[v] = o[v] /\ l2[v] = l[v]
      BY <2>2 DEF Elsewhere
    <3> QED BY <3>2, <3>3
  <2> QED BY <2>1, <2>2
<1>4. Tells(later, a + 1, p2, d2, t2, o2, l2, K \cup {b}, by2, of2, deep2, root2, top2)
  BY <1>2, <1>3 DEF Tells
<1> QED BY <1>4 DEF ChainsOf

\* An act more, of somebody's own.
LEMMA ChainsNew ==
    ASSUME NEW a \in Nat, NEW p \in Nat, NEW rows, NEW later,
           NEW d \in [Users -> Seq(1..a)], NEW t, NEW o \in [Users -> 0..a], NEW l \in [Users -> Pressing],
           ChainsOf(rows, a, p, d, t, o, l), Keys(rows) \subseteq 1..a,
           NEW u \in Users, NEW b, b = a + 1, NEW act \in {b, None},
           Grown(rows, later, b, u, None), Ordered(later)
    PROVE  ChainsOf(later, a + 1, p, [d EXCEPT ![u] = Append(@, b)], t,
                    [o EXCEPT ![u] = act], [l EXCEPT ![u] = "act"])
<1> PICK d2, o2, l2 : /\ d2 = [d EXCEPT ![u] = Append(@, b)] /\ o2 = [o EXCEPT ![u] = act]
                      /\ l2 = [l EXCEPT ![u] = "act"]
  OBVIOUS
<1>1. PICK K, by, of, deep, root, top : Tells(rows, a, p, d, t, o, l, K, by, of, deep, root, top)
  BY DEF ChainsOf
<1> PICK w : w = None
  OBVIOUS
<1>2. K \subseteq 1..a
  BY <1>1 DEF Tells, Family
<1> PICK by2, of2, deep2, root2, top2 :
        /\ by2 = Extended(K, by, b, u) /\ of2 = Extended(K, of, b, w)
        /\ deep2 = Extended(K, deep, b, DeepOf(w, deep))
        /\ root2 = Extended(K, root, b, RootOf(w, root, b))
        /\ top2 = Extends(K, top, b, w)
  OBVIOUS
<1>3. Grows(K, a, p, by, of, deep, root, top, u, b, w, by2, of2, deep2, root2, top2)
  BY <1>2 DEF Grows, Reversible
<1>4. d[u] \in Seq(1..(a + 1))
  <2>1. 1..a \subseteq 1..(a + 1)
    OBVIOUS
  <2> QED BY <2>1, SeqGrows
<1>5. UserKept(u, d[u], t[u], o[u], l[u], K, by, of, deep, top)
  BY <1>1 DEF Tells
<1>6. Family(rows, K, a, p, by, of, deep, root, top)
  BY <1>1 DEF Tells
<1>7. UserKept(u, Append(d[u], b), t[u], act, "act", K \cup {b}, by2, of2, deep2, top2)
  BY <1>3, <1>4, <1>5, <1>6, KeptNew
<1>8. d2[u] = Append(d[u], b) /\ o2[u] = act /\ l2[u] = "act"
  OBVIOUS
<1>9. Here(u, d2, t, o2, l2, K \cup {b}, by2, of2, deep2, top2)
  BY <1>7, <1>8 DEF Here
<1>10. Elsewhere(u, d, t, o, l, d2, t, o2, l2)
  BY DEF Elsewhere
<1>11. More(p, w) = p
  BY DEF More
<1>12. Grown(rows, later, b, u, w)
  OBVIOUS
<1>13. a \in Nat /\ p \in Nat /\ u \in Users /\ Ordered(later)
  OBVIOUS
<1>14. ChainsOf(later, a + 1, More(p, w), d2, t, o2, l2)
  BY ONLY <1>1, <1>3, <1>9, <1>10, <1>12, <1>13, ChainsGrow
<1> QED BY <1>11, <1>14

\* The end of a chain of the user's is reversed.
Reversing(K, a, by, of, deep, root, top, u, b, w, by2, of2, deep2, root2, top2) ==
    /\ by2 = Extended(K, by, b, u) /\ of2 = Extended(K, of, b, w)
    /\ deep2 = Extended(K, deep, b, DeepOf(w, deep))
    /\ root2 = Extended(K, root, b, RootOf(w, root, b))
    /\ top2 = Extends(K, top, b, w)

\* What a press reverses is the end of a chain, and the press becomes the new end.
LEMMA EndReversed ==
    ASSUME NEW a \in Nat, NEW p, NEW rows, NEW K, NEW by, NEW of, NEW deep, NEW root, NEW top,
           NEW u, NEW b, b = a + 1, NEW x \in K, by[x] = u, of[x] = None,
           Family(rows, K, a, p, by, of, deep, root, top), K \subseteq 1..a,
           NEW by2, NEW of2, NEW deep2, NEW root2, NEW top2,
           Reversing(K, a, by, of, deep, root, top, u, b, top[x], by2, of2, deep2, root2, top2)
    PROVE  /\ Grows(K, a, p, by, of, deep, root, top, u, b, top[x], by2, of2, deep2, root2, top2)
           /\ top[x] # None
<1>1. top[x] \in K /\ by[top[x]] = u /\ top[top[x]] = top[x]
  BY DEF Family
<1>2. top[x] # None
  BY <1>1 DEF None
<1> QED BY <1>1, <1>2 DEF Reversing, Grows, Reversible

\* The chain of what was taken back last ends in the act.
Ending(rows, a, p, d, t, o, l, u, act) ==
    \E K, by, of, deep, root, top :
        Tells(rows, a, p, d, t, o, l, K, by, of, deep, root, top) /\ top[Last(t[u])] = act

\* An undo of the last that stands.
LEMMA ChainsUndo ==
    ASSUME NEW a \in Nat, NEW p \in Nat, NEW rows, NEW later,
           NEW d \in [Users -> Seq(1..a)], NEW t \in [Users -> Seq(1..a)],
           NEW o \in [Users -> 0..a], NEW l \in [Users -> Pressing],
           NEW K, NEW by, NEW of, NEW deep, NEW root, NEW top,
           Tells(rows, a, p, d, t, o, l, K, by, of, deep, root, top), K \subseteq 1..a,
           NEW u \in Users, NEW b, b = a + 1, o[u] = None, d[u] # <<>>, NEW now \in {"undo", "redo"},
           Grown(rows, later, b, u, top[Last(d[u])]), Ordered(later)
    PROVE  /\ ChainsOf(later, a + 1, p + 1, [d EXCEPT ![u] = Front(@)],
                       [t EXCEPT ![u] = Append(@, Last(d[u]))], o, [l EXCEPT ![u] = now])
           /\ Ending(later, a + 1, p + 1, [d EXCEPT ![u] = Front(@)],
                     [t EXCEPT ![u] = Append(@, Last(d[u]))], o, [l EXCEPT ![u] = now], u, b)
<1> PICK x, w : x = Last(d[u]) /\ w = top[Last(d[u])]
  OBVIOUS
<1> PICK d2, t2, l2 : /\ d2 = [d EXCEPT ![u] = Front(@)] /\ t2 = [t EXCEPT ![u] = Append(@, x)]
                      /\ l2 = [l EXCEPT ![u] = now]
  OBVIOUS
<1>1. /\ Family(rows, K, a, p, by, of, deep, root, top)
      /\ UserKept(u, d[u], t[u], o[u], l[u], K, by, of, deep, top)
  BY DEF Tells
<1>2. x \in K /\ by[x] = u /\ of[x] = None
  <2>1. d[u] \in Seq(1..a)
    OBVIOUS
  <2>2. Len(d[u]) \in DOMAIN d[u] /\ x = d[u][Len(d[u])]
    BY <2>1, FrontHas DEF Last
  <2> QED BY <1>1, <2>2 DEF UserKept, AllDone, Piled
<1> PICK by2, of2, deep2, root2, top2 :
        Reversing(K, a, by, of, deep, root, top, u, b, w, by2, of2, deep2, root2, top2)
  BY DEF Reversing
<1>3. /\ Grows(K, a, p, by, of, deep, root, top, u, b, w, by2, of2, deep2, root2, top2)
      /\ w # None
  BY <1>1, <1>2, EndReversed
<1>4. d[u] \in Seq(1..a) /\ t[u] \in Seq(1..a) /\ now # "act"
  OBVIOUS
<1>5. UserKept(u, Front(d[u]), Append(t[u], x), None, now, K \cup {b}, by2, of2, deep2, top2)
  BY <1>1, <1>3, <1>4, KeptUndo, ZenonT(30)
<1>6. Here(u, d2, t2, o, l2, K \cup {b}, by2, of2, deep2, top2)
  <2>1. d2[u] = Front(d[u]) /\ t2[u] = Append(t[u], x) /\ l2[u] = now /\ o[u] = None
    OBVIOUS
  <2> QED BY <1>5, <2>1 DEF Here
<1>7. Elsewhere(u, d, t, o, l, d2, t2, o, l2)
  BY DEF Elsewhere
<1>8. a \in Nat /\ p \in Nat /\ u \in Users /\ Ordered(later) /\ Grown(rows, later, b, u, w)
  OBVIOUS
<1>9. Tells(rows, a, p, d, t, o, l, K, by, of, deep, root, top)
  OBVIOUS
<1>10. /\ ChainsOf(later, a + 1, More(p, w), d2, t2, o, l2)
       /\ Tells(later, a + 1, More(p, w), d2, t2, o, l2, K \cup {b}, by2, of2, deep2, root2, top2)
  BY ONLY <1>3, <1>6, <1>7, <1>8, <1>9, ChainsGrow
<1>11. More(p, w) = p + 1
  BY <1>3 DEF More
<1>12. top2[x] = b
  BY <1>1, <1>2, <1>3, HereLonger
<1>13. Last(t2[u]) = x
  <2>1. x \in 1..a
    BY <1>2
  <2>2. /\ Len(Append(t[u], x)) = Len(t[u]) + 1 /\ Append(t[u], x)[Len(t[u]) + 1] = x
    BY <1>4, <2>1, AppendProperties
  <2> QED BY <2>2 DEF Last
<1>14. Ending(later, a + 1, p + 1, d2, t2, o, l2, u, b)
  BY <1>10, <1>11, <1>12, <1>13 DEF Ending
<1> QED BY <1>10, <1>11, <1>14

\* A redo of the last that was taken back.
LEMMA ChainsRedo ==
    ASSUME NEW a \in Nat, NEW p \in Nat, NEW rows, NEW later,
           NEW d \in [Users -> Seq(1..a)], NEW t \in [Users -> Seq(1..a)],
           NEW o \in [Users -> 0..a], NEW l \in [Users -> Pressing],
           NEW K, NEW by, NEW of, NEW deep, NEW root, NEW top,
           Tells(rows, a, p, d, t, o, l, K, by, of, deep, root, top), K \subseteq 1..a,
           NEW u \in Users, NEW b, b = a + 1, o[u] = None, t[u] # <<>>, NEW now \in {"undo", "redo"},
           Grown(rows, later, b, u, top[Last(t[u])]), Ordered(later)
    PROVE  ChainsOf(later, a + 1, p + 1, [d EXCEPT ![u] = Append(@, Last(t[u]))],
                    [t EXCEPT ![u] = Front(@)], o, [l EXCEPT ![u] = now])
<1> PICK x, w : x = Last(t[u]) /\ w = top[Last(t[u])]
  OBVIOUS
<1> PICK d2, t2, l2 : /\ d2 = [d EXCEPT ![u] = Append(@, x)] /\ t2 = [t EXCEPT ![u] = Front(@)]
                      /\ l2 = [l EXCEPT ![u] = now]
  OBVIOUS
<1>1. /\ Family(rows, K, a, p, by, of, deep, root, top)
      /\ UserKept(u, d[u], t[u], o[u], l[u], K, by, of, deep, top)
  BY DEF Tells
<1>2. x \in K /\ by[x] = u /\ of[x] = None
  <2>1. t[u] \in Seq(1..a)
    OBVIOUS
  <2>2. Len(t[u]) \in DOMAIN t[u] /\ x = t[u][Len(t[u])]
    BY <2>1, FrontHas DEF Last
  <2> QED BY <1>1, <2>2 DEF UserKept, AllUndone, Piled
<1> PICK by2, of2, deep2, root2, top2 :
        Reversing(K, a, by, of, deep, root, top, u, b, w, by2, of2, deep2, root2, top2)
  BY DEF Reversing
<1>3. /\ Grows(K, a, p, by, of, deep, root, top, u, b, w, by2, of2, deep2, root2, top2)
      /\ w # None
  BY <1>1, <1>2, EndReversed
<1>4. d[u] \in Seq(1..a) /\ t[u] \in Seq(1..a) /\ now # "act"
  OBVIOUS
<1>5. UserKept(u, Append(d[u], x), Front(t[u]), None, now, K \cup {b}, by2, of2, deep2, top2)
  BY <1>1, <1>3, <1>4, KeptRedo, ZenonT(30)
<1>6. Here(u, d2, t2, o, l2, K \cup {b}, by2, of2, deep2, top2)
  <2>1. t2[u] = Front(t[u]) /\ d2[u] = Append(d[u], x) /\ l2[u] = now /\ o[u] = None
    OBVIOUS
  <2> QED BY <1>5, <2>1 DEF Here
<1>7. Elsewhere(u, d, t, o, l, d2, t2, o, l2)
  BY DEF Elsewhere
<1>8. a \in Nat /\ p \in Nat /\ u \in Users /\ Ordered(later) /\ Grown(rows, later, b, u, w)
  OBVIOUS
<1>9. Tells(rows, a, p, d, t, o, l, K, by, of, deep, root, top)
  OBVIOUS
<1>10. ChainsOf(later, a + 1, More(p, w), d2, t2, o, l2)
  BY ONLY <1>3, <1>6, <1>7, <1>8, <1>9, ChainsGrow
<1>11. More(p, w) = p + 1
  BY <1>3 DEF More
<1> QED BY <1>10, <1>11

\* A log of the same acts tells the same, whoever's gesture has ended.
LEMMA ChainsStay ==
    ASSUME NEW a \in Nat, NEW a2 \in Nat, a <= a2, NEW p \in Nat, NEW p2 \in Nat, p <= p2,
           NEW rows, NEW later, NEW d, NEW t, NEW o, NEW o2, NEW l,
           ChainsOf(rows, a, p, d, t, o, l),
           Keys(later) = Keys(rows),
           \A r \in Range(later) :
              \/ \E q \in Range(rows) : q.act = r.act /\ q.user = r.user /\ q.undoes = r.undoes
              \/ r.user \in Users /\ o[r.user] # None /\ r.act = o[r.user] /\ r.undoes = None,
           \A v \in Users : o2[v] \in {o[v], None}, Ordered(later)
    PROVE  ChainsOf(later, a2, p2, d, t, o2, l)
<1>1. PICK K, by, of, deep, root, top : Tells(rows, a, p, d, t, o, l, K, by, of, deep, root, top)
  BY DEF ChainsOf
<1>2. /\ K = Keys(rows)
      /\ by \in [K -> Users] /\ of \in [K -> 0..a] /\ deep \in [K -> 0..p]
      /\ root \in [K -> K] /\ top \in [K -> K]
      /\ \A r \in Range(rows) : by[r.act] = r.user /\ of[r.act] = r.undoes
  BY <1>1 DEF Tells, Family
<1>3. \A v \in Users : UserKept(v, d[v], t[v], o[v], l[v], K, by, of, deep, top)
  BY <1>1 DEF Tells
<1>4. ASSUME NEW r \in Range(later) PROVE by[r.act] = r.user /\ of[r.act] = r.undoes
  <2>1. CASE r.user \in Users /\ o[r.user] # None /\ r.act = o[r.user] /\ r.undoes = None
    BY <1>3, <2>1 DEF UserKept, Pending
  <2> QED BY <1>2, <2>1
<1>5. of \in [K -> 0..a2] /\ deep \in [K -> 0..p2]
  <2>1. 0..a \subseteq 0..a2 /\ 0..p \subseteq 0..p2
    OBVIOUS
  <2> QED BY <1>2, <2>1
<1>6. Family(later, K, a2, p2, by, of, deep, root, top)
  BY <1>1, <1>2, <1>4, <1>5 DEF Tells, Family
<1>7. ASSUME NEW v \in Users PROVE UserKept(v, d[v], t[v], o2[v], l[v], K, by, of, deep, top)
  <2>1. Pending(v, o2[v], K, by, of)
    BY <1>3 DEF UserKept, Pending
  <2> QED BY <1>3, <2>1 DEF UserKept
<1>8. Tells(later, a2, p2, d, t, o2, l, K, by, of, deep, root, top)
  BY <1>6, <1>7 DEF Tells
<1> QED BY <1>8 DEF ChainsOf

-----------------------------------------------------------------------------
\* What is last on a stack is on it once.
LEMMA EndOnce ==
    ASSUME NEW a \in Nat, NEW s \in Seq(1..a), s # <<>>, NEW u, NEW taken,
           NEW K, NEW by, NEW of, NEW deep, NEW top, top \in [K -> K], K \subseteq 1..a,
           Piled(s, u, taken, K, by, of, deep, top)
    PROVE  \A i \in DOMAIN s : s[i] = Last(s) => i = Len(s)
<1> PICK m : m = Len(s)
  OBVIOUS
<1>1. m \in Nat /\ m \in 1..m /\ DOMAIN s = 1..m
  BY FrontHas
<1>2. Last(s) = s[m]
  BY DEF Last
<1> SUFFICES ASSUME NEW i \in 1..m, s[i] = s[m], i # m PROVE FALSE
  BY <1>1, <1>2
<1>3. i < m
  BY <1>1
<1>4. top[s[i]] < top[s[m]]
  BY <1>1, <1>3 DEF Piled
<1>5. s[m] \in K
  BY <1>1 DEF Piled
<1> PICK q : q = top[s[m]]
  OBVIOUS
<1>6. q \in 1..a /\ q < q
  BY <1>4, <1>5
<1> QED BY ONLY <1>6

\* Containing is standing at some place.
LEMMA ContainsIs ==
    ASSUME NEW V, NEW s \in Seq(V), NEW x
    PROVE  Contains(s, x) <=> \E i \in DOMAIN s : s[i] = x
<1>1. DOMAIN s = 1..Len(s)
  BY SeqHas
<1> QED BY <1>1 DEF Contains

\* In every state the chains tell, an act's origin is where its chain began.
LEMMA OriginIs ==
    ASSUME TypeInv, NEW K, NEW by, NEW of, NEW deep, NEW root, NEW top,
           Told(K, by, of, deep, root, top)
    PROVE  \A k \in K : Origin(k) = root[k]
<1>1. /\ size[1] \in Nat /\ acts \in Nat /\ log \in Seq(Rows(size[1], acts)) /\ Anchored(log)
  BY BoundedIs DEF TypeInv, Logs
<1>2. Family(log, K, acts, presses, by, of, deep, root, top)
  BY DEF Told, Tells
<1> QED BY ONLY <1>1, <1>2, RootsAre

\* The next to take back is of the last that stands, and the next to put back
\* of the last that was taken back.
LEMMA OriginUndo ==
    ASSUME TypeInv, NEW u \in Users, done[u] # <<>>,
           NEW K, NEW by, NEW of, NEW deep, NEW root, NEW top, Told(K, by, of, deep, root, top)
    PROVE  /\ Origin(top[Last(done[u])]) = Last(done[u])
           /\ Contains(done[u], Last(done[u]))
           /\ Without(done[u], Last(done[u])) = Front(done[u])
<1> PICK s, x : s = done[u] /\ x = Last(done[u])
  OBVIOUS
<1>1. /\ size[1] \in Nat /\ acts \in Nat /\ log \in Seq(Rows(size[1], acts)) /\ Anchored(log)
      /\ s \in Seq(1..acts)
  BY StacksHave
<1>2. /\ Family(log, K, acts, presses, by, of, deep, root, top)
      /\ Piled(s, u, FALSE, K, by, of, deep, top)
  BY DEF Told, Tells, UserKept, AllDone
<1>3. /\ Len(s) \in 1..Len(s) /\ x = s[Len(s)] /\ x \in K /\ top[x] \in K /\ root[top[x]] = x
  <2> PICK taken : taken = FALSE
    OBVIOUS
  <2>1. TypeInv /\ u \in Users /\ s # <<>> /\ s \in Seq(1..acts)
    BY <1>1
  <2>2. /\ Family(log, K, acts, presses, by, of, deep, root, top)
        /\ Piled(s, u, taken, K, by, of, deep, top)
    BY <1>2
  <2>3. /\ Len(s) \in 1..Len(s) /\ Last(s) = s[Len(s)] /\ Last(s) \in K
        /\ top[Last(s)] \in K /\ root[top[Last(s)]] = Last(s)
    BY ONLY <2>1, <2>2, EndsAre
  <2> QED BY <2>3
<1>4. \A k \in K : Origin(k) = root[k]
  BY OriginIs
<1>5. Contains(s, x)
  BY <1>1, <1>3, SeqHas, ContainsIs
<1>6. top \in [K -> K] /\ K \subseteq 1..acts
  <2>1. K = Keys(log) /\ top \in [K -> K]
    BY <1>2 DEF Family
  <2> QED BY <1>1, <2>1, KeysAre
<1>7. \A i \in DOMAIN s : s[i] = Last(s) => i = Len(s)
  BY <1>1, <1>2, <1>6, EndOnce
<1>8. Without(s, Last(s)) = Front(s)
  BY <1>1, <1>7, WithoutLast
<1> QED BY <1>3, <1>4, <1>5, <1>8

\* What redo puts back is the top of what was undone, and it stands nowhere yet.
LEMMA OriginRedo ==
    ASSUME TypeInv, NEW u \in Users, undone[u] # <<>>,
           NEW K, NEW by, NEW of, NEW deep, NEW root, NEW top, Told(K, by, of, deep, root, top)
    PROVE  /\ Origin(top[Last(undone[u])]) = Last(undone[u])
           /\ ~Contains(done[u], Last(undone[u]))
           /\ Without(undone[u], Last(undone[u])) = Front(undone[u])
<1> PICK s, x : s = undone[u] /\ x = Last(undone[u])
  OBVIOUS
<1>1. /\ size[1] \in Nat /\ acts \in Nat /\ log \in Seq(Rows(size[1], acts)) /\ Anchored(log)
      /\ s \in Seq(1..acts) /\ done[u] \in Seq(1..acts)
  BY StacksHave
<1>2. /\ Family(log, K, acts, presses, by, of, deep, root, top)
      /\ Piled(s, u, TRUE, K, by, of, deep, top)
      /\ Piled(done[u], u, FALSE, K, by, of, deep, top)
  BY DEF Told, Tells, UserKept, AllDone, AllUndone
<1>3. /\ Len(s) \in 1..Len(s) /\ x = s[Len(s)] /\ x \in K /\ top[x] \in K /\ root[top[x]] = x
  <2> PICK taken : taken = TRUE
    OBVIOUS
  <2>1. TypeInv /\ u \in Users /\ s # <<>> /\ s \in Seq(1..acts)
    BY <1>1
  <2>2. /\ Family(log, K, acts, presses, by, of, deep, root, top)
        /\ Piled(s, u, taken, K, by, of, deep, top)
    BY <1>2
  <2>3. /\ Len(s) \in 1..Len(s) /\ Last(s) = s[Len(s)] /\ Last(s) \in K
        /\ top[Last(s)] \in K /\ root[top[Last(s)]] = Last(s)
    BY ONLY <2>1, <2>2, EndsAre
  <2> QED BY <2>3
<1>4. \A k \in K : Origin(k) = root[k]
  BY OriginIs
<1>5. ~Contains(done[u], x)
  <2>1. DOMAIN s = 1..Len(s)
    BY <1>1, SeqHas
  <2>2. ~Even(deep[top[x]])
    BY <1>2, <1>3, <2>1 DEF Piled
  <2>3. \A i \in DOMAIN done[u] : Even(deep[top[done[u][i]]])
    BY <1>2 DEF Piled
  <2>4. \A i \in DOMAIN done[u] : done[u][i] # x
    BY <2>2, <2>3
  <2> QED BY <1>1, <2>4, ContainsIs
<1>6. top \in [K -> K] /\ K \subseteq 1..acts
  <2>1. K = Keys(log) /\ top \in [K -> K]
    BY <1>2 DEF Family
  <2> QED BY <1>1, <2>1, KeysAre
<1>7. \A i \in DOMAIN s : s[i] = Last(s) => i = Len(s)
  BY <1>1, <1>2, <1>6, EndOnce
<1>8. Without(s, Last(s)) = Front(s)
  BY <1>1, <1>7, WithoutLast
<1> QED BY <1>3, <1>4, <1>5, <1>8

\* What a press that changes something does to the stacks.
Undid(u, next, top) ==
    /\ done[u] # <<>> /\ next = top[Last(done[u])]
    /\ done' = [done EXCEPT ![u] = Front(@)]
    /\ undone' = [undone EXCEPT ![u] = Append(@, Last(done[u]))]
    /\ lastly' = [lastly EXCEPT ![u] = "undo"]

Redid(u, next, top) ==
    /\ lastly[u] # "act" /\ undone[u] # <<>> /\ next = top[Last(undone[u])]
    /\ done' = [done EXCEPT ![u] = Append(@, Last(undone[u]))]
    /\ undone' = [undone EXCEPT ![u] = Front(@)]
    /\ lastly' = [lastly EXCEPT ![u] = "redo"]

\* A press that writes takes the top off one stack and puts it on the other.
LEMMA PressIs ==
    ASSUME TypeInv, Followed, Len(log) <= Depth, Ordered(log),
           NEW K, NEW by, NEW of, NEW deep, NEW root, NEW top, Told(K, by, of, deep, root, top),
           NEW u \in Users, NEW redo \in BOOLEAN, Press(u, redo), log' # log
    PROVE  Undid(u, NextTo(u, redo), top) \/ Redid(u, NextTo(u, redo), top)
<1> PICK next : next = NextTo(u, redo)
  OBVIOUS
<1> PICK origin : origin = Origin(next)
  OBVIOUS
<1>1. next # None
  BY DEF Press, NextTo
<1>2. log' # log => After(u, next).log # log
  BY DEF Press, NextTo
<1>3. /\ lastly' = [lastly EXCEPT ![u] = IF redo THEN "redo" ELSE "undo"]
      /\ Contains(done[u], origin) => /\ done' = [done EXCEPT ![u] = Without(@, origin)]
                                      /\ undone' = [undone EXCEPT ![u] = Append(@, origin)]
      /\ ~Contains(done[u], origin) => /\ done' = [done EXCEPT ![u] = Append(@, origin)]
                                       /\ undone' = [undone EXCEPT ![u] = Without(@, origin)]
  BY <1>2 DEF Press, NextTo
<1>4. /\ NextToUndo(u) = IF done[u] = <<>> THEN None ELSE top[Last(done[u])]
      /\ NextToRedo(u) = IF lastly[u] = "act" \/ undone[u] = <<>> THEN None
                         ELSE top[Last(undone[u])]
  BY NextAre
<1>5. CASE ~redo
  <2>1. next = NextToUndo(u)
    BY <1>5 DEF NextTo
  <2>2. done[u] # <<>> /\ next = top[Last(done[u])]
    BY <1>1, <1>4, <2>1
  <2>3. /\ origin = Last(done[u]) /\ Contains(done[u], origin)
        /\ Without(done[u], origin) = Front(done[u])
    BY <2>2, OriginUndo
  <2>4. done' = [done EXCEPT ![u] = Front(@)]
    BY <1>3, <2>3
  <2>5. undone' = [undone EXCEPT ![u] = Append(@, Last(done[u]))]
    BY <1>3, <2>3
  <2>6. lastly' = [lastly EXCEPT ![u] = "undo"]
    BY <1>3, <1>5
  <2>7. Undid(u, next, top)
    BY <2>2, <2>4, <2>5, <2>6 DEF Undid
  <2> QED BY <2>7
<1>6. CASE redo
  <2>1. next = NextToRedo(u)
    BY <1>6 DEF NextTo
  <2>2. lastly[u] # "act" /\ undone[u] # <<>> /\ next = top[Last(undone[u])]
    BY <1>1, <1>4, <2>1
  <2>3. /\ origin = Last(undone[u]) /\ ~Contains(done[u], origin)
        /\ Without(undone[u], origin) = Front(undone[u])
    BY <2>2, OriginRedo
  <2>4. done' = [done EXCEPT ![u] = Append(@, Last(undone[u]))]
    BY <1>3, <2>3
  <2>5. undone' = [undone EXCEPT ![u] = Front(@)]
    BY <1>3, <2>3
  <2>6. lastly' = [lastly EXCEPT ![u] = "redo"]
    BY <1>3, <1>6
  <2>7. Redid(u, next, top)
    BY <2>2, <2>4, <2>5, <2>6 DEF Redid
  <2> QED BY <2>7
<1> QED BY <1>5, <1>6

-----------------------------------------------------------------------------
\* Every step keeps the chains, as long as the log is looked at whole.
LEMMA ChainsInit == Init => Chains
<1> SUFFICES ASSUME Init PROVE Chains
  OBVIOUS
<1> USE DEF Init
<1> PICK no : no = [k \in {} |-> k]
  OBVIOUS
<1>1. DOMAIN log = {} /\ Range(log) = {} /\ Keys(log) = {}
  BY DEF Range, Keys
<1>2. Family(log, {}, acts, presses, no, no, no, no, no)
  <2>1. \A S : no \in [{} -> S]
    OBVIOUS
  <2> QED BY <1>1, <2>1 DEF Family
<1>3. ASSUME NEW u \in Users
      PROVE  UserKept(u, done[u], undone[u], open[u], lastly[u], {}, no, no, no, no)
  <2>1. DOMAIN done[u] = {} /\ DOMAIN undone[u] = {} /\ open[u] = None /\ lastly[u] = "act"
    OBVIOUS
  <2> QED BY <2>1 DEF UserKept, AllDone, AllUndone, Piled, Pending, Latest
<1>4. Tells(log, acts, presses, done, undone, open, lastly, {}, no, no, no, no, no)
  BY <1>2, <1>3 DEF Tells
<1>5. Ordered(log)
  BY <1>1 DEF Ordered
<1> QED BY <1>4, <1>5 DEF Chains, ChainsOf

\* A user's write keeps the chains.
LEMMA ChainsWrite ==
    ASSUME TypeInv, Chains, NEW u \in Users, NEW verb, NEW thing \in Things, NEW field,
           NEW keep \in BOOLEAN, Deed(verb, field), Write(u, verb, thing, field, keep)
    PROVE  Chains'
<1> PICK n, act, b : n = size[1] /\ act = ActOf(u) /\ b = acts + 1
  OBVIOUS
<1>1. /\ n \in Nat /\ acts \in Nat /\ presses \in Nat /\ log \in Seq(Rows(n, acts))
      /\ open \in [Users -> 0..acts] /\ lastly \in [Users -> Pressing]
      /\ done \in [Users -> Seq(1..acts)] /\ undone \in [Users -> Seq(1..acts)]
  BY BoundedIs DEF TypeInv, Logs, Histories
<1>2. Wrote(u, verb, thing, field)
  BY WroteIs
<1>3. PICK x, y : /\ x = Entry(u, act, verb, thing, field)
                  /\ LoggedAs(log, x, y, log', Rows(n, acts'))
  BY <1>2 DEF Wrote
<1>4. x.user = u /\ x.act = act /\ x.undoes = None
  BY <1>3 DEF Entry
<1>5. /\ y.user = u /\ y.act = act /\ y.undoes = None
      /\ Range(log') = {r \in Range(log) : ~SameTarget(r, x)} \cup {y}
      /\ Ordered(log) /\ (\A r \in Range(log) : r.user = u => r.act <= act) => Ordered(log')
  BY <1>3, <1>4 DEF LoggedAs
<1>6. Keys(log') = Keys(log) \cup {act}
  BY <1>3, <1>4, LoggedKeys
<1>7. Ordered(log) /\ ChainsOf(log, acts, presses, done, undone, open, lastly)
  BY DEF Chains, ChainsOf
<1>8. Keys(log) \subseteq 1..acts /\ \A r \in Range(log) : r.act \in 1..acts
  <2>1. Keys(log) \subseteq 1..acts
    BY <1>1, KeysAre
  <2> QED BY <2>1 DEF Keys
<1>9. presses' = presses /\ undone' = undone /\ open' = [open EXCEPT ![u] = IF keep THEN act ELSE None]
  BY DEF Write, ActOf
<1>10. CASE open[u] = None
  <2>1. act = b
    BY <1>10 DEF ActOf
  <2>2. /\ acts' = b /\ done' = [done EXCEPT ![u] = Append(@, b)]
        /\ lastly' = [lastly EXCEPT ![u] = "act"]
    BY <1>10 DEF Write
  <2>3. Grown(log, log', b, u, None)
    BY <1>5, <1>6, <2>1 DEF Grown
  <2>4. Ordered(log')
    <3>1. \A r \in Range(log) : r.act <= act
      BY <1>1, <1>8, <2>1
    <3> QED BY <1>5, <1>7, <3>1
  <2> PICK after : after = IF keep THEN act ELSE None
    OBVIOUS
  <2>5. after \in {b, None}
    BY <2>1
  <2>6. /\ acts \in Nat /\ presses \in Nat /\ done \in [Users -> Seq(1..acts)]
        /\ open \in [Users -> 0..acts] /\ lastly \in [Users -> Pressing]
        /\ Keys(log) \subseteq 1..acts /\ u \in Users /\ b = acts + 1
    BY <1>1, <1>8
  <2>7. ChainsOf(log', acts + 1, presses, [done EXCEPT ![u] = Append(@, b)], undone,
                 [open EXCEPT ![u] = after], [lastly EXCEPT ![u] = "act"])
    BY ONLY <1>7, <2>3, <2>4, <2>5, <2>6, ChainsNew
  <2>8. open' = [open EXCEPT ![u] = after]
    BY <1>9
  <2>9. ChainsOf(log', acts', presses', done', undone', open', lastly')
    BY <1>9, <2>2, <2>7, <2>8
  <2> QED BY <2>9 DEF Chains
<1>11. CASE open[u] # None
  <2>1. act = open[u]
    BY <1>11 DEF ActOf
  <2>2. acts' = acts /\ done' = done /\ lastly' = lastly
    BY <1>11 DEF Write
  <2>3. PICK K, by, of, deep, root, top :
            Tells(log, acts, presses, done, undone, open, lastly, K, by, of, deep, root, top)
    BY <1>7 DEF ChainsOf
  <2>4. act \in Keys(log) /\ \A k \in K : by[k] = u => k <= act
    BY <1>11, <2>1, <2>3 DEF Tells, UserKept, Pending, Family
  <2>5. Keys(log') = Keys(log)
    BY <1>6, <2>4
  <2>6. Ordered(log')
    <3>1. \A r \in Range(log) : r.act \in K /\ by[r.act] = r.user
      BY <2>3 DEF Tells, Family, Keys
    <3> QED BY <1>5, <1>7, <2>4, <3>1
  <2>7. \A r \in Range(log') :
           \/ \E q \in Range(log) : q.act = r.act /\ q.user = r.user /\ q.undoes = r.undoes
           \/ r.user \in Users /\ open[r.user] # None /\ r.act = open[r.user] /\ r.undoes = None
    BY <1>5, <1>11, <2>1
  <2>8. \A v \in Users : open'[v] \in {open[v], None}
    BY <1>1, <1>9, <2>1
  <2>9. acts \in Nat /\ acts <= acts /\ presses \in Nat /\ presses <= presses
    BY <1>1
  <2>10. ChainsOf(log', acts, presses, done, undone, open', lastly)
    BY ONLY <1>7, <2>5, <2>6, <2>7, <2>8, <2>9, ChainsStay
  <2>11. ChainsOf(log', acts', presses', done', undone', open', lastly')
    BY <1>9, <2>2, <2>10
  <2> QED BY <2>11 DEF Chains
<1> QED BY <1>10, <1>11

\* A press that logs anything logs one act more, reversing what the press was about.
LEMMA AfterGrown ==
    ASSUME NEW n \in Nat, acts \in Nat, log \in Seq(Rows(n, acts)), Ordered(log),
           NEW u, NEW next, NEW after, AfterAs(after, u, acts + 1, next, n), after.log # log
    PROVE  Grown(log, after.log, acts + 1, u, next) /\ Ordered(after.log)
<1> PICK b, l, m, q : b = acts + 1 /\ l = after.log /\ m = Len(log) /\ q = Len(l)
  OBVIOUS
<1>1. /\ Keys(log) \subseteq Keys(l) /\ \A act \in Keys(l) : act \in Keys(log) \/ act = b
      /\ b \in Keys(l)
      /\ \A r \in Range(l) : r \in Range(log) \/ Signature(r, u, b, next)
  BY AfterHas
<1>2. Grown(log, l, b, u, next)
  <2>1. Keys(l) = Keys(log) \cup {b}
    BY <1>1
  <2> QED BY <1>1, <2>1 DEF Grown, Signature
<1>3. /\ l \in Seq(Rows(n, b)) /\ m <= q
      /\ \A k \in 1..m : l[k] = log[k]
      /\ \A k \in (m + 1)..q : l[k].act = b
  BY DEF AfterAs, Signature
<1>4. m \in Nat /\ DOMAIN log = 1..m /\ \A k \in 1..m : log[k].act \in 1..acts
  <2>1. m \in Nat /\ DOMAIN log = 1..m /\ \A k \in 1..m : log[k] \in Rows(n, acts)
    BY SeqHas
  <2>2. \A r \in Rows(n, acts) : r.act \in 1..acts
    BY DraftHas DEF Rows
  <2> QED BY <2>1, <2>2
<1>5. q \in Nat /\ DOMAIN l = 1..q
  <2>1. Len(l) \in Nat /\ DOMAIN l = 1..Len(l)
    BY ONLY <1>3, SeqHas
  <2> QED BY <2>1
<1>6. ASSUME NEW i \in 1..q, NEW j \in 1..q, i < j, l[i].user = l[j].user
      PROVE  l[i].act <= l[j].act
  <2>1. CASE j \in 1..m
    <3>1. i \in 1..m
      BY <1>4, <1>6, <2>1
    <3> QED BY <1>3, <1>4, <1>6, <2>1, <3>1 DEF Ordered
  <2>2. CASE j \in (m + 1)..q
    <3>1. l[j].act = b
      BY <1>3, <2>2
    <3>2. CASE i \in 1..m
      <4>1. l[i].act \in 1..acts
        BY <1>3, <1>4, <3>2
      <4> PICK z : z = l[i].act
        OBVIOUS
      <4>2. z <= b
        BY <4>1
      <4> QED BY <3>1, <4>2
    <3>3. CASE i \in (m + 1)..q
      BY <1>3, <3>1, <3>3
    <3> QED BY <1>4, <1>5, <3>2, <3>3
  <2> QED BY <1>4, <1>5, <2>1, <2>2
<1>7. Ordered(l)
  BY <1>5, <1>6 DEF Ordered
<1> QED BY <1>2, <1>7

\* What a press counts, and what it leaves when nothing is logged.
LEMMA PressKeeps ==
    ASSUME TypeInv, NEW u \in Users, NEW redo \in BOOLEAN, Press(u, redo)
    PROVE  /\ acts' = acts + 1 /\ presses' = presses + 1 /\ open' = open
           /\ Late \/ open[u] = None
           /\ Len(log) \in Nat /\ Len(log') \in Nat /\ Len(log) <= Len(log')
           /\ log' = log => done' = done /\ undone' = undone /\ lastly' = lastly
           /\ log' # log /\ Ordered(log)
                  => /\ Grown(log, log', acts + 1, u, NextTo(u, redo)) /\ Ordered(log')
<1> PICK n, next, after : /\ n = size[1] /\ next = NextTo(u, redo)
                          /\ after = After(u, NextTo(u, redo))
  OBVIOUS
<1>1. /\ acts' = acts + 1 /\ presses' = presses + 1 /\ open' = open /\ log' = after.log
      /\ Late \/ open[u] = None
      /\ next # None
      /\ after.log = log => done' = done /\ undone' = undone /\ lastly' = lastly
  BY DEF Press, NextTo
<1>2. n \in Nat /\ acts \in Nat /\ show \in Shows(n) /\ log \in Seq(Rows(n, acts))
  BY BoundedIs DEF TypeInv, Logs
<1>3. next \in 1..acts
  BY <1>1, NextIs
<1>4. AfterAs(after, u, acts + 1, next, n)
  BY <1>2, <1>3, AfterIs
<1>5. Len(log) \in Nat /\ Len(log') \in Nat /\ Len(log) <= Len(log')
  <2>1. Len(log) <= Len(after.log) /\ after.log \in Seq(Rows(n, acts + 1))
    BY <1>4 DEF AfterAs
  <2>2. Len(after.log) \in Nat
    BY ONLY <2>1, SeqHas
  <2> QED BY <1>1, <1>2, <2>1, <2>2, SeqHas
<1>6. ASSUME log' # log, Ordered(log)
      PROVE  Grown(log, log', acts + 1, u, next) /\ Ordered(log')
  BY <1>1, <1>2, <1>4, <1>6, AfterGrown
<1> QED BY <1>1, <1>5, <1>6

\* A press keeps the chains.
LEMMA ChainsPress ==
    ASSUME TypeInv, Followed, ~Late, Len(log) <= Depth, Chains,
           NEW u \in Users, NEW redo \in BOOLEAN, Press(u, redo)
    PROVE  Chains'
<1> PICK b, next : b = acts + 1 /\ next = NextTo(u, redo)
  OBVIOUS
<1>1. /\ acts \in Nat /\ presses \in Nat /\ size[1] \in Nat /\ log \in Seq(Rows(size[1], acts))
      /\ open \in [Users -> 0..acts] /\ lastly \in [Users -> Pressing]
      /\ done \in [Users -> Seq(1..acts)] /\ undone \in [Users -> Seq(1..acts)]
  BY BoundedIs DEF TypeInv, Logs, Histories
<1>2. /\ acts' = b /\ presses' = presses + 1 /\ open' = open /\ open[u] = None
      /\ log' = log => done' = done /\ undone' = undone /\ lastly' = lastly
  BY PressKeeps
<1>3. Ordered(log) /\ ChainsOf(log, acts, presses, done, undone, open, lastly)
  BY DEF Chains, ChainsOf
<1>4. CASE log' = log
  <2>1. \A r \in Range(log) :
           \/ \E q \in Range(log) : q.act = r.act /\ q.user = r.user /\ q.undoes = r.undoes
           \/ r.user \in Users /\ open[r.user] # None /\ r.act = open[r.user] /\ r.undoes = None
    OBVIOUS
  <2>2. \A v \in Users : open[v] \in {open[v], None}
    OBVIOUS
  <2>3. acts \in Nat /\ b \in Nat /\ acts <= b /\ presses \in Nat /\ presses + 1 \in Nat
        /\ presses <= presses + 1
    BY <1>1
  <2>4. Keys(log) = Keys(log)
    OBVIOUS
  <2>5. ChainsOf(log, b, presses + 1, done, undone, open, lastly)
    BY ONLY <1>3, <2>1, <2>2, <2>3, <2>4, ChainsStay
  <2>6. ChainsOf(log', acts', presses', done', undone', open', lastly')
    BY <1>2, <1>4, <2>5
  <2> QED BY <2>6 DEF Chains
<1>5. CASE log' # log
  <2>1. Grown(log, log', b, u, next) /\ Ordered(log')
    BY <1>3, <1>5, PressKeeps
  <2>2. PICK K, by, of, deep, root, top :
            Tells(log, acts, presses, done, undone, open, lastly, K, by, of, deep, root, top)
    BY <1>3 DEF ChainsOf
  <2>3. Told(K, by, of, deep, root, top)
    BY <2>2 DEF Told
  <2>4. K \subseteq 1..acts
    <3>1. K = Keys(log)
      BY <2>2 DEF Tells, Family
    <3> QED BY <1>1, <3>1, KeysAre
  <2>5. Undid(u, next, top) \/ Redid(u, next, top)
    BY <1>3, <1>5, <2>3, PressIs
  <2>6. /\ acts \in Nat /\ presses \in Nat
        /\ done \in [Users -> Seq(1..acts)] /\ undone \in [Users -> Seq(1..acts)]
        /\ open \in [Users -> 0..acts] /\ lastly \in [Users -> Pressing]
        /\ u \in Users /\ b = acts + 1 /\ open[u] = None
        /\ "undo" \in {"undo", "redo"} /\ "redo" \in {"undo", "redo"}
    BY <1>1, <1>2
  <2>7. CASE Undid(u, next, top)
    <3>1. done[u] # <<>> /\ Grown(log, log', b, u, top[Last(done[u])]) /\ Ordered(log')
      BY <2>1, <2>7 DEF Undid
    <3>2. ChainsOf(log', acts + 1, presses + 1, [done EXCEPT ![u] = Front(@)],
                   [undone EXCEPT ![u] = Append(@, Last(done[u]))], open,
                   [lastly EXCEPT ![u] = "undo"])
      BY ONLY <2>2, <2>4, <2>6, <3>1, ChainsUndo
    <3>3. ChainsOf(log', acts', presses', done', undone', open', lastly')
      BY <1>2, <2>7, <3>2 DEF Undid
    <3> QED BY <3>3 DEF Chains
  <2>8. CASE Redid(u, next, top)
    <3>1. undone[u] # <<>> /\ Grown(log, log', b, u, top[Last(undone[u])]) /\ Ordered(log')
      BY <2>1, <2>8 DEF Redid
    <3>2. ChainsOf(log', acts + 1, presses + 1, [done EXCEPT ![u] = Append(@, Last(undone[u]))],
                   [undone EXCEPT ![u] = Front(@)], open, [lastly EXCEPT ![u] = "redo"])
      BY ONLY <2>2, <2>4, <2>6, <3>1, ChainsRedo
    <3>3. ChainsOf(log', acts', presses', done', undone', open', lastly')
      BY <1>2, <2>8, <3>2 DEF Redid
    <3> QED BY <3>3 DEF Chains
  <2> QED BY <2>5, <2>7, <2>8
<1> QED BY <1>4, <1>5

\* A write never shortens the log.
LEMMA WriteKeeps ==
    ASSUME TypeInv, NEW u \in Users, NEW verb, NEW thing \in Things, NEW field, NEW keep,
           Deed(verb, field), Write(u, verb, thing, field, keep)
    PROVE  Len(log) \in Nat /\ Len(log') \in Nat /\ Len(log) <= Len(log')
<1>1. log \in Seq(Rows(size[1], acts))
  BY DEF TypeInv, Logs
<1>2. PICK x, y : LoggedAs(log, x, y, log', Rows(size[1], acts'))
  <2>1. Wrote(u, verb, thing, field)
    BY WroteIs
  <2> QED BY <2>1 DEF Wrote
<1>3. log' \in Seq(Rows(size[1], acts')) /\ Len(log') >= Len(log)
  BY <1>2 DEF LoggedAs
<1>4. Len(log') \in Nat
  BY ONLY <1>3, SeqHas
<1>5. Len(log) \in Nat
  BY ONLY <1>1, SeqHas
<1> QED BY <1>3, <1>4, <1>5

\* As far back as the history goes.
Kept == Len(log) <= Depth => Chains

\* Every step keeps the chains, while the log is looked at whole.
LEMMA KeptStep ==
    ASSUME TypeInv, Followed, ~Late, Kept, [Next]_vars
    PROVE  Kept'
<1> SUFFICES ASSUME Len(log') <= Depth PROVE Chains'
  BY DEF Kept
<1>1. ASSUME NEW u \in Users, NEW verb, NEW thing \in Things, NEW field, NEW keep \in BOOLEAN,
             Deed(verb, field), Write(u, verb, thing, field, keep)
      PROVE  Chains'
  <2>1. Len(log) <= Depth
    BY <1>1, WriteKeeps, LookBackAssumption
  <2>2. Chains
    BY <2>1 DEF Kept
  <2> QED BY <1>1, <2>2, ChainsWrite
<1>2. ASSUME NEW u \in Users, NEW redo \in BOOLEAN, Press(u, redo) PROVE Chains'
  <2>1. Len(log) <= Depth
    BY <1>2, PressKeeps, LookBackAssumption
  <2>2. Chains
    BY <2>1 DEF Kept
  <2> QED BY <1>2, <2>1, <2>2, ChainsPress
<1>3. CASE UNCHANGED <<log, acts, presses, done, undone, open, lastly>>
  <2>1. Chains
    BY <1>3 DEF Kept
  <2> QED BY <1>3, <2>1 DEF Chains
<1>4. ASSUME NEW t \in Things, ConsoleWrite(t) PROVE Chains'
  BY <1>3, <1>4 DEF ConsoleWrite
<1>5. CASE UNCHANGED vars
  BY <1>3, <1>5 DEF vars
<1>6. ASSUME NEW u \in Users, NEW t \in Things, NEW f \in Fields, NEW keep \in BOOLEAN,
             Write(u, "field", t, f, keep)
      PROVE  Chains'
  <2>1. Deed("field", f)
    BY DEF Deed
  <2> QED BY <1>1, <1>6, <2>1
<1>7. ASSUME NEW u \in Users, NEW t \in Things, NEW verb \in {"create", "delete"},
             NEW keep \in BOOLEAN, Write(u, verb, t, "all", keep)
      PROVE  Chains'
  <2>1. Deed(verb, "all")
    BY DEF Deed
  <2> QED BY <1>1, <1>7, <2>1
<1> QED BY <1>2, <1>4, <1>5, <1>6, <1>7 DEF Next

\* Where nobody presses in the middle of a gesture, and no chain is longer than it
\* is followed, there is something to take back as long as something of the user's
\* stands, and to put back in a run of undos.
THEOREM FindsThroughout ==
    ASSUME ~Late, Followed PROVE Spec => []FindsWhatThereIs
<1>1. Init => TypeInv /\ Kept
  BY TypeInit, ChainsInit DEF Kept
<1>2. TypeInv /\ Kept /\ [Next]_vars => (TypeInv /\ Kept)'
  BY TypeStep, KeptStep
<1>3. TypeInv /\ Kept => FindsWhatThereIs
  <2> SUFFICES ASSUME TypeInv, Kept PROVE FindsWhatThereIs
    OBVIOUS
  <2>1. CASE Len(log) <= Depth
    BY <2>1, ChainsFind DEF Kept
  <2>2. CASE ~(Len(log) <= Depth)
    BY <2>2 DEF FindsWhatThereIs
  <2> QED BY <2>1, <2>2
<1> QED BY <1>1, <1>2, <1>3, PTL DEF Spec

-----------------------------------------------------------------------------
(***************************************************************************)
(* The log does what the stacks promise: a write that opens an act puts one *)
(* on, a press moves one across, and nothing else moves any.               *)
(***************************************************************************)
LEMMA StacksWrite ==
    ASSUME TypeInv, NEW u \in Users, NEW verb, NEW thing, NEW field, NEW keep,
           Write(u, verb, thing, field, keep)
    PROVE  [Stacks!Next]_(Stacks!stacks)
<1>1. CASE open[u] # None
  BY <1>1 DEF Write, Stacks!stacks
<1>2. CASE open[u] = None
  <2>1. /\ done' = [done EXCEPT ![u] = Append(@, acts + 1)] /\ undone' = undone
        /\ lastly' = [lastly EXCEPT ![u] = "act"] /\ writes < size[1]
    BY <1>2 DEF Write
  <2>2. acts + 1 \in Acts
    <3>1. /\ size[1] \in Nat /\ size[2] \in Nat /\ writes \in Nat /\ presses \in Nat
          /\ acts \in Nat /\ acts <= writes + presses /\ presses <= size[2] /\ size \in Sizes
      BY BoundedIs DEF TypeInv, Bounded
    <3>2. acts + 1 \in 1..(size[1] + size[2])
      BY <2>1, <3>1
    <3> QED BY <3>1, <3>2 DEF Acts
  <2>3. Stacks!Act(u, acts + 1)
    BY <2>1 DEF Stacks!Act
  <2> QED BY <2>2, <2>3 DEF Stacks!Next
<1> QED BY <1>1, <1>2

\* A press is a step of the two stacks, or changes neither.
LEMMA StacksPress ==
    ASSUME TypeInv, Followed, Len(log) <= Depth, Chains,
           NEW u \in Users, NEW redo \in BOOLEAN, Press(u, redo)
    PROVE  [Stacks!Next]_(Stacks!stacks)
<1>1. log' = log => done' = done /\ undone' = undone /\ lastly' = lastly
  BY PressKeeps
<1>2. CASE log' = log
  BY <1>1, <1>2 DEF Stacks!stacks
<1>3. CASE log' # log
  <2>1. PICK K, by, of, deep, root, top : Told(K, by, of, deep, root, top)
    BY DEF Chains, ChainsOf, Told
  <2>2. Ordered(log)
    BY DEF Chains, ChainsOf
  <2>3. CASE Undid(u, NextTo(u, redo), top)
    <3>1. Stacks!Undo(u)
      BY <2>3 DEF Undid, Stacks!Undo, Stacks!Last, Last, Stacks!Front, Front
    <3> QED BY <3>1 DEF Stacks!Next
  <2>4. CASE Redid(u, NextTo(u, redo), top)
    <3>1. Stacks!Redo(u)
      BY <2>4 DEF Redid, Stacks!Redo, Stacks!Last, Last, Stacks!Front, Front
    <3> QED BY <3>1 DEF Stacks!Next
  <2>5. Undid(u, NextTo(u, redo), top) \/ Redid(u, NextTo(u, redo), top)
    BY <1>3, <2>1, <2>2, PressIs
  <2> QED BY <2>3, <2>4, <2>5
<1> QED BY <1>2, <1>3

\* Every step is a step of the two stacks, or changes neither.
LEMMA StacksStep ==
    ASSUME TypeInv, Followed, Len(log) <= Depth, Chains, [Next]_vars
    PROVE  [Stacks!Next]_(Stacks!stacks)
<1>1. ASSUME NEW t \in Things, ConsoleWrite(t) PROVE [Stacks!Next]_(Stacks!stacks)
  BY <1>1 DEF ConsoleWrite, Stacks!stacks
<1>2. CASE UNCHANGED vars
  BY <1>2 DEF vars, Stacks!stacks
<1> QED BY <1>1, <1>2, StacksWrite, StacksPress DEF Next

\* Undo and redo, found in the log alone, are each operator's two stacks: nobody
\* else's writes and presses move them, nor a press whose every write is refused.
THEOREM StacksAreKept ==
    ASSUME ~Late, Followed PROVE Spec /\ [](Len(log) <= Depth) => ImplementsStacks
<1>1. Init => TypeInv /\ Kept
  BY TypeInit, ChainsInit DEF Kept
<1>2. TypeInv /\ Kept /\ [Next]_vars => (TypeInv /\ Kept)'
  BY TypeStep, KeptStep
<1>3. Init => Stacks!Init
  BY DEF Init, Stacks!Init
<1>4. TypeInv /\ Kept /\ Len(log) <= Depth /\ [Next]_vars => [Stacks!Next]_(Stacks!stacks)
  BY StacksStep DEF Kept
<1> QED BY <1>1, <1>2, <1>3, <1>4, PTL DEF Spec, ImplementsStacks, Stacks!Spec

-----------------------------------------------------------------------------
(***************************************************************************)
(* What was undone before something new stays undone: what stands is in the *)
(* order it was done, and what an undo has just taken back is newer.       *)
(***************************************************************************)
Rising(s) == \A i, j \in DOMAIN s : i < j => s[i] < s[j]

Under(s, x) == \A i \in DOMAIN s : s[i] < x

Rises(u) ==
    /\ Rising(done[u])
    /\ lastly[u] = "undo" => undone[u] # <<>> /\ Under(done[u], Last(undone[u]))

Branches == \A u \in Users : Rises(u)

\* What is last on a stack is one of its acts.
LEMMA LastIs ==
    ASSUME NEW V, NEW s \in Seq(V), s # <<>>
    PROVE  Last(s) \in V
<1>1. Len(s) \in 1..Len(s) /\ Last(s) = s[Len(s)]
  BY FrontHas DEF Last
<1> QED BY <1>1, SeqHas

\* A stack that rises still does with something newer on it.
LEMMA RisingOn ==
    ASSUME NEW a \in Nat, NEW s \in Seq(1..a), NEW x \in 1..a, Rising(s), Under(s, x)
    PROVE  Rising(Append(s, x)) /\ Last(Append(s, x)) = x
<1> PICK m, t : m = Len(s) /\ t = Append(s, x)
  OBVIOUS
<1>1. /\ m \in Nat /\ DOMAIN s = 1..m /\ DOMAIN t = 1..(m + 1)
      /\ \A i \in 1..m : t[i] = s[i]
      /\ t[m + 1] = x /\ \A i \in 1..(m + 1) : i \in 1..m \/ i = m + 1
  BY AppendHas
<1>2. \A i \in 1..m : s[i] < x
  BY <1>1 DEF Under
<1>3. \A i, j \in 1..m : i < j => s[i] < s[j]
  BY <1>1 DEF Rising
<1>4. ASSUME NEW i \in 1..(m + 1), NEW j \in 1..(m + 1), i < j PROVE t[i] < t[j]
  <2>1. i \in 1..m
    BY <1>1, <1>4
  <2> QED BY <1>1, <1>2, <1>3, <1>4, <2>1
<1>5. Rising(t)
  BY <1>1, <1>4 DEF Rising
<1>6. Last(t) = x
  <2>1. t \in Seq(1..a) /\ Len(t) = m + 1
    BY <1>1, AppendProperties
  <2> QED BY <1>1, <2>1 DEF Last
<1> QED BY <1>5, <1>6

\* A stack that rises has nothing under its top that is newer.
LEMMA RisingOff ==
    ASSUME NEW V, NEW s \in Seq(V), s # <<>>, Rising(s)
    PROVE  Rising(Front(s)) /\ Under(Front(s), Last(s))
<1> PICK m, t : m = Len(s) /\ t = Front(s)
  OBVIOUS
<1>1. /\ m \in Nat /\ m \in 1..m /\ DOMAIN s = 1..m /\ DOMAIN t = 1..(m - 1)
      /\ \A i \in 1..(m - 1) : t[i] = s[i] /\ i \in 1..m /\ i < m
  BY FrontHas
<1> QED BY <1>1 DEF Rising, Under, Last

\* The greatest of what stands is its last.
LEMMA GreatestIs ==
    ASSUME NEW a \in Nat, NEW s \in Seq(1..a), NEW x \in 1..a, Under(s, x), Rising(s)
    PROVE  x > Max({0} \cup Range(s))
<1> PICK m, S : m = Len(s) /\ S = {0} \cup Range(s)
  OBVIOUS
<1>1. /\ m \in Nat /\ DOMAIN s = 1..m
      /\ \A i \in 1..m : s[i] \in 1..a /\ s[i] \in S
      /\ \A y \in S : y = 0 \/ \E i \in 1..m : s[i] = y
  BY SeqHas
<1> PICK top : top = IF m = 0 THEN 0 ELSE s[m]
  OBVIOUS
<1>2. top \in S /\ \A y \in S : top >= y
  <2>1. CASE m = 0
    BY <1>1, <2>1
  <2>2. CASE m # 0
    <3>1. m \in 1..m
      BY <1>1, <2>2
    <3>2. \A i \in 1..m : s[i] <= s[m]
      <4> SUFFICES ASSUME NEW i \in 1..m PROVE s[i] <= s[m]
        OBVIOUS
      <4>1. i < m \/ i = m
        BY <1>1
      <4>2. i < m => s[i] < s[m]
        BY <1>1, <3>1 DEF Rising
      <4>3. s[i] \in 1..a /\ s[m] \in 1..a
        BY <1>1, <3>1
      <4> QED BY <4>1, <4>2, <4>3
    <3>3. s[m] \in 1..a /\ s[m] \in S
      BY <1>1, <3>1
    <3>4. \A y \in S : s[m] >= y
      BY <1>1, <3>2, <3>3
    <3> QED BY <2>2, <3>3, <3>4
  <2> QED BY <2>1, <2>2
<1> PICK z : z = Max(S)
  OBVIOUS
<1>3. z \in S /\ \A y \in S : z >= y
  BY <1>2, Zenon DEF Max
<1>4. z < x
  BY <1>1, <1>3, SMTT(20) DEF Under
<1>5. z \in Nat
  BY <1>1, <1>3
<1> QED BY <1>4, <1>5

\* What a redo within a run of undos puts back is newer than all that stands.
LEMMA RedoneAbove ==
    ASSUME TypeInv, Followed, ~Strays, Len(log) <= Depth, Chains, Branches,
           NEW u \in Users, NEW redo \in BOOLEAN, Press(u, redo), log' # log,
           NEW K, NEW by, NEW of, NEW deep, NEW root, NEW top, Told(K, by, of, deep, root, top),
           Redid(u, NextTo(u, redo), top)
    PROVE  Under(done[u], Last(undone[u]))
<1> PICK next, x : next = NextTo(u, redo) /\ x = Last(undone[u])
  OBVIOUS
<1>1. lastly[u] \in {"undo", "redo"}
  BY DEF Redid, TypeInv, Histories, Pressing
<1>2. CASE lastly[u] = "undo"
  BY <1>2 DEF Branches, Rises
<1>3. CASE lastly[u] = "redo"
  <2>1. lastly'[u] = "redo"
    BY DEF Redid, TypeInv, Histories
  <2>2. redo
    <3>1. lastly' = [lastly EXCEPT ![u] = IF redo THEN "redo" ELSE "undo"]
      BY DEF Press, NextTo
    <3> QED BY <2>1, <3>1 DEF TypeInv, Histories
  <2>3. \A act \in Range(done[u]) : act < Origin(next)
    BY <1>3, <2>2 DEF Press, NextTo
  <2>4. Origin(next) = x
    BY OriginRedo DEF Redid
  <2> QED BY <2>3, <2>4 DEF Under, Range
<1> QED BY <1>1, <1>2, <1>3

\* Every step keeps what stands in its order, and what was undone above it.
LEMMA BranchesStep ==
    ASSUME TypeInv, Followed, ~Strays, Len(log) <= Depth, Chains, Branches, [Next]_vars
    PROVE  Branches'
<1>1. /\ acts \in Nat /\ done \in [Users -> Seq(1..acts)] /\ undone \in [Users -> Seq(1..acts)]
      /\ lastly \in [Users -> Pressing]
  BY BoundedIs DEF TypeInv, Histories
<1>2. CASE UNCHANGED <<done, undone, lastly>>
  BY <1>2 DEF Branches, Rises
<1>3. ASSUME NEW u \in Users,
             \A v \in Users \ {u} : done'[v] = done[v] /\ undone'[v] = undone[v] /\ lastly'[v] = lastly[v],
             Rises(u)'
      PROVE  Branches'
  <2> SUFFICES ASSUME NEW v \in Users PROVE Rises(v)'
    BY DEF Branches
  <2>1. CASE v = u
    BY <1>3, <2>1 DEF Rises
  <2>2. CASE v # u
    BY <1>3, <2>2 DEF Rises, Branches
  <2> QED BY <2>1, <2>2
<1>4. ASSUME NEW u \in Users, NEW verb, NEW thing, NEW field, NEW keep,
             Write(u, verb, thing, field, keep)
      PROVE  Branches'
  <2>1. CASE open[u] # None
    BY <1>2, <1>4, <2>1 DEF Write
  <2>2. CASE open[u] = None
    <3> PICK b, s : b = acts + 1 /\ s = done[u]
      OBVIOUS
    <3>1. /\ done' = [done EXCEPT ![u] = Append(@, b)] /\ undone' = undone
          /\ lastly' = [lastly EXCEPT ![u] = "act"]
      BY <1>4, <2>2 DEF Write
    <3>2. Rising(Append(s, b))
      <4>1. s \in Seq(1..acts) /\ 1..acts \subseteq 1..b /\ b \in Nat /\ b \in 1..b
        BY <1>1
      <4>2. s \in Seq(1..b)
        BY <4>1, SeqGrows
      <4>3. Under(s, b)
        <5>1. DOMAIN s = 1..Len(s) /\ \A i \in 1..Len(s) : s[i] \in 1..acts
          BY <4>1, SeqHas
        <5> QED BY <1>1, <5>1 DEF Under
      <4>4. Rising(s)
        BY DEF Branches, Rises
      <4> QED BY <4>1, <4>2, <4>3, <4>4, RisingOn
    <3>3. done'[u] = Append(s, b) /\ lastly'[u] = "act"
      BY <1>1, <3>1
    <3>4. Rises(u)'
      BY <3>2, <3>3 DEF Rises
    <3> QED BY <1>1, <1>3, <3>1, <3>4
  <2> QED BY <2>1, <2>2
<1>5. ASSUME NEW u \in Users, NEW redo \in BOOLEAN, Press(u, redo) PROVE Branches'
  <2>1. CASE log' = log
    <3>1. done' = done /\ undone' = undone /\ lastly' = lastly
      BY <1>5, <2>1, PressKeeps
    <3> QED BY <1>2, <3>1
  <2>2. CASE log' # log
    <3>1. PICK K, by, of, deep, root, top : Told(K, by, of, deep, root, top)
      BY DEF Chains, ChainsOf, Told
    <3>2. Ordered(log)
      BY DEF Chains, ChainsOf
    <3>3. Undid(u, NextTo(u, redo), top) \/ Redid(u, NextTo(u, redo), top)
      BY <1>5, <2>2, <3>1, <3>2, PressIs
    <3>4. Rising(done[u]) /\ done[u] \in Seq(1..acts) /\ undone[u] \in Seq(1..acts)
      BY <1>1 DEF Branches, Rises
    <3>5. CASE Undid(u, NextTo(u, redo), top)
      <4> PICK s, x : s = done[u] /\ x = Last(done[u])
        OBVIOUS
      <4>1. /\ s # <<>> /\ done' = [done EXCEPT ![u] = Front(@)]
            /\ undone' = [undone EXCEPT ![u] = Append(@, x)]
            /\ lastly' = [lastly EXCEPT ![u] = "undo"]
        BY <3>5 DEF Undid
      <4>2. Rising(Front(s)) /\ Under(Front(s), x)
        BY <3>4, <4>1, RisingOff
      <4>3. done'[u] = Front(s) /\ undone'[u] = Append(undone[u], x)
        BY <1>1, <4>1
      <4>4. Append(undone[u], x) # <<>> /\ Last(Append(undone[u], x)) = x
        <5>1. x \in 1..acts
          BY <3>4, <4>1, LastIs
        <5>2. /\ Len(undone[u]) \in Nat
              /\ Append(undone[u], x) # <<>> /\ Len(Append(undone[u], x)) = Len(undone[u]) + 1
              /\ Append(undone[u], x)[Len(undone[u]) + 1] = x
          BY <3>4, <5>1, AppendProperties, SeqHas, SMTT(20)
        <5> QED BY <5>2 DEF Last
      <4>5. Rises(u)'
        BY <4>2, <4>3, <4>4 DEF Rises
      <4> QED BY <1>1, <1>3, <4>1, <4>5
    <3>6. CASE Redid(u, NextTo(u, redo), top)
      <4> PICK s, x : s = done[u] /\ x = Last(undone[u])
        OBVIOUS
      <4>1. /\ undone[u] # <<>> /\ done' = [done EXCEPT ![u] = Append(@, x)]
            /\ undone' = [undone EXCEPT ![u] = Front(@)]
            /\ lastly' = [lastly EXCEPT ![u] = "redo"]
        BY <3>6 DEF Redid
      <4>2. Under(s, x)
        BY <1>5, <2>2, <3>1, <3>6, RedoneAbove
      <4>3. x \in 1..acts
        BY <3>4, <4>1, LastIs
      <4>4. Rising(Append(s, x))
        BY <1>1, <3>4, <4>2, <4>3, RisingOn
      <4>5. done'[u] = Append(s, x) /\ lastly'[u] = "redo"
        BY <1>1, <4>1
      <4>6. Rises(u)'
        BY <4>4, <4>5 DEF Rises
      <4> QED BY <1>1, <1>3, <4>1, <4>6
    <3> QED BY <3>3, <3>5, <3>6
  <2> QED BY <2>1, <2>2
<1>6. ASSUME NEW t \in Things, ConsoleWrite(t) PROVE Branches'
  BY <1>2, <1>6 DEF ConsoleWrite
<1>7. CASE UNCHANGED vars
  BY <1>2, <1>7 DEF vars
<1> QED BY <1>4, <1>5, <1>6, <1>7 DEF Next

\* A redo that puts something on what stands puts back what is newer than all of it.
GoneStep ==
    \A u \in Users : Press(u, TRUE) /\ Len(done'[u]) > Len(done[u])
            => Last(done'[u]) > Max({0} \cup Range(done[u]))

\* Every step leaves gone what was undone before something newer.
LEMMA BranchGone ==
    ASSUME TypeInv, Followed, ~Strays, Len(log) <= Depth, Chains, Branches, Next
    PROVE  GoneStep
<1> SUFFICES ASSUME NEW u \in Users, Press(u, TRUE), Len(done'[u]) > Len(done[u])
             PROVE  Last(done'[u]) > Max({0} \cup Range(done[u]))
  BY DEF GoneStep
<1>1. /\ acts \in Nat /\ done \in [Users -> Seq(1..acts)] /\ undone \in [Users -> Seq(1..acts)]
  BY BoundedIs DEF TypeInv, Histories
<1> PICK redo \in BOOLEAN : redo = TRUE
  OBVIOUS
<1>2. Press(u, redo)
  OBVIOUS
<1>3. Len(done[u]) \in Nat
  BY <1>1, SeqHas
<1>4. log' # log
  <2>1. log' = log => done' = done
    BY <1>2, PressKeeps
  <2> QED BY <1>3, <2>1
<1>5. PICK K, by, of, deep, root, top : Told(K, by, of, deep, root, top)
  BY DEF Chains, ChainsOf, Told
<1>6. Ordered(log)
  BY DEF Chains, ChainsOf
<1>7. Undid(u, NextTo(u, redo), top) \/ Redid(u, NextTo(u, redo), top)
  BY <1>2, <1>4, <1>5, <1>6, PressIs
<1> PICK s, x : s = done[u] /\ x = Last(undone[u])
  OBVIOUS
<1>8. s \in Seq(1..acts) /\ undone[u] \in Seq(1..acts) /\ Rising(s)
  BY <1>1 DEF Branches, Rises
<1>9. ASSUME Undid(u, NextTo(u, redo), top) PROVE FALSE
  <2>1. s # <<>> /\ done'[u] = Front(s)
    BY <1>1, <1>9 DEF Undid
  <2>2. Len(Front(s)) = Len(s) - 1
    BY <1>8, <2>1, FrontHas
  <2> QED BY <1>3, <2>1, <2>2
<1>10. ASSUME Redid(u, NextTo(u, redo), top)
       PROVE  Last(done'[u]) > Max({0} \cup Range(s))
  <2>1. undone[u] # <<>> /\ done'[u] = Append(s, x)
    BY <1>1, <1>10 DEF Redid
  <2>2. Under(s, x)
    BY <1>2, <1>4, <1>5, <1>10, RedoneAbove
  <2>3. x \in 1..acts
    BY <1>8, <2>1, LastIs
  <2>4. Last(Append(s, x)) = x
    BY <1>1, <1>8, <2>2, <2>3, RisingOn
  <2>5. x > Max({0} \cup Range(s))
    BY <1>1, <1>8, <2>2, <2>3, GreatestIs
  <2> QED BY <2>1, <2>4, <2>5
<1> QED BY <1>7, <1>9, <1>10

\* Redo, pressed in a run of undos and no further than it puts back the latest
\* change, brings back nothing that was undone before something newer.
THEOREM BranchesStayGone ==
    ASSUME ~Late, ~Strays, Followed PROVE Spec /\ [](Len(log) <= Depth) => UndoneBranchIsGone
<1>1. Init => TypeInv /\ Kept
  BY TypeInit, ChainsInit DEF Kept
<1>2. TypeInv /\ Kept /\ [Next]_vars => (TypeInv /\ Kept)'
  BY TypeStep, KeptStep
<1>3. Init => Branches
  <2> SUFFICES ASSUME Init, NEW u \in Users PROVE Rises(u)
    BY DEF Branches
  <2>1. DOMAIN done[u] = {} /\ lastly[u] = "act"
    BY DEF Init
  <2> QED BY <2>1 DEF Rises, Rising
<1>4. TypeInv /\ Kept /\ Len(log) <= Depth /\ Branches /\ [Next]_vars => Branches'
  BY BranchesStep DEF Kept
<1>5. TypeInv /\ Kept /\ Len(log) <= Depth /\ Branches /\ [Next]_vars => [GoneStep]_vars
  BY BranchGone DEF Kept
<1> QED BY <1>1, <1>2, <1>3, <1>4, <1>5, PTL DEF Spec, UndoneBranchIsGone, GoneStep

-----------------------------------------------------------------------------
(***************************************************************************)
(* A redo that comes right after its undo.  What an act is reversed by,    *)
(* when all of the log is looked at: the inverses of its rows, newest      *)
(* first.                                                                  *)
(***************************************************************************)
\* What is picked of a sequence from its end.
PicksBack(e, S, s, t) ==
    /\ e \in [DOMAIN t -> DOMAIN s]
    /\ \A i \in DOMAIN t : t[i] = s[e[i]] /\ s[e[i]] \in S
    /\ \A i, j \in DOMAIN t : i < j => e[j] < e[i]
    /\ \A k \in DOMAIN s : s[k] \in S => \E i \in DOMAIN t : e[i] = k

\* What is picked of what was picked.
LEMMA PicksOfPicks ==
    ASSUME NEW s, NEW t, NEW v, NEW S, NEW T, NEW e, NEW f, Picks(e, S, s, t), Picks(f, T, t, v)
    PROVE  \E g : Picks(g, S \cap T, s, v)
<1> PICK g : g = [i \in DOMAIN v |-> e[f[i]]]
  OBVIOUS
<1>1. ASSUME NEW i \in DOMAIN v
      PROVE  /\ f[i] \in DOMAIN t /\ g[i] = e[f[i]] /\ g[i] \in DOMAIN s
             /\ v[i] = s[g[i]] /\ s[g[i]] \in S \cap T
  BY DEF Picks
<1>2. ASSUME NEW i \in DOMAIN v, NEW j \in DOMAIN v, i < j PROVE g[i] < g[j]
  BY <1>1, <1>2 DEF Picks
<1>3. ASSUME NEW k \in DOMAIN s, s[k] \in S \cap T PROVE \E i \in DOMAIN v : g[i] = k
  <2>1. PICK j \in DOMAIN t : e[j] = k
    BY <1>3 DEF Picks
  <2>2. t[j] \in T
    BY <1>3, <2>1 DEF Picks
  <2>3. PICK i \in DOMAIN v : f[i] = j
    BY <2>2 DEF Picks
  <2> QED BY <1>1, <2>1, <2>3
<1>4. g \in [DOMAIN v -> DOMAIN s]
  BY <1>1
<1> QED BY <1>1, <1>2, <1>3, <1>4 DEF Picks

\* And of what was picked from the end.
LEMMA PicksOfBack ==
    ASSUME NEW s, NEW t, NEW v, NEW S, NEW T, NEW e, NEW f, PicksBack(e, S, s, t), Picks(f, T, t, v)
    PROVE  \E g : PicksBack(g, S \cap T, s, v)
<1> PICK g : g = [i \in DOMAIN v |-> e[f[i]]]
  OBVIOUS
<1>1. ASSUME NEW i \in DOMAIN v
      PROVE  /\ f[i] \in DOMAIN t /\ g[i] = e[f[i]] /\ g[i] \in DOMAIN s
             /\ v[i] = s[g[i]] /\ s[g[i]] \in S \cap T
  BY DEF Picks, PicksBack
<1>2. ASSUME NEW i \in DOMAIN v, NEW j \in DOMAIN v, i < j PROVE g[j] < g[i]
  BY <1>1, <1>2 DEF Picks, PicksBack
<1>3. ASSUME NEW k \in DOMAIN s, s[k] \in S \cap T PROVE \E i \in DOMAIN v : g[i] = k
  <2>1. PICK j \in DOMAIN t : e[j] = k
    BY <1>3 DEF PicksBack
  <2>2. t[j] \in T
    BY <1>3, <2>1 DEF PicksBack
  <2>3. PICK i \in DOMAIN v : f[i] = j
    BY <2>2 DEF Picks
  <2> QED BY <1>1, <2>1, <2>3
<1>4. g \in [DOMAIN v -> DOMAIN s]
  BY <1>1
<1> QED BY <1>1, <1>2, <1>3, <1>4 DEF PicksBack

\* Turned round, what was picked is picked from the end.
LEMMA PicksTurned ==
    ASSUME NEW s, NEW V, NEW t \in Seq(V), NEW S, NEW e, Picks(e, S, s, t)
    PROVE  Reverse(t) \in Seq(V) /\ \E g : PicksBack(g, S, s, Reverse(t))
<1> PICK m : m = Len(t)
  OBVIOUS
<1>1. m \in Nat /\ DOMAIN t = 1..m /\ \A i \in 1..m : t[i] \in V
  BY SeqHas
<1> PICK q : q = [i \in 1..m |-> t[(m - i) + 1]]
  OBVIOUS
<1>2. Reverse(t) = q
  BY DEF Reverse
<1>3. \A i \in 1..m : (m - i) + 1 \in 1..m
  BY <1>1
<1>4. q \in Seq(V) /\ DOMAIN q = 1..m
  <2>1. q \in [1..m -> V]
    BY <1>1, <1>3
  <2> QED BY <1>1, <2>1, AsSeq
<1> PICK g : g = [i \in 1..m |-> e[(m - i) + 1]]
  OBVIOUS
<1>5. ASSUME NEW i \in 1..m
      PROVE  g[i] \in DOMAIN s /\ q[i] = s[g[i]] /\ s[g[i]] \in S
  <2> PICK j \in 1..m : j = (m - i) + 1
    BY <1>3
  <2>1. g[i] = e[j] /\ q[i] = t[j] /\ j \in DOMAIN t
    BY <1>1
  <2> QED BY <2>1 DEF Picks
<1>6. ASSUME NEW i \in 1..m, NEW j \in 1..m, i < j PROVE g[j] < g[i]
  <2> PICK a, b : a = (m - i) + 1 /\ b = (m - j) + 1
    OBVIOUS
  <2>1. a \in DOMAIN t /\ b \in DOMAIN t /\ b < a
    BY <1>1, <1>6
  <2>2. e[b] < e[a]
    BY <2>1 DEF Picks
  <2> QED BY <2>2
<1>7. ASSUME NEW k \in DOMAIN s, s[k] \in S PROVE \E i \in 1..m : g[i] = k
  <2>1. PICK j \in 1..m : e[j] = k
    BY <1>1, <1>7 DEF Picks
  <2>2. (m - j) + 1 \in 1..m /\ (m - ((m - j) + 1)) + 1 = j
    BY <1>1
  <2> PICK i \in 1..m : i = (m - j) + 1
    BY <2>2
  <2>3. g[i] = e[j]
    BY <2>2
  <2> QED BY <2>1, <2>3
<1>8. PicksBack(g, S, s, q)
  BY <1>4, <1>5, <1>6, <1>7 DEF PicksBack
<1> QED BY <1>2, <1>4, <1>8

Own(u, act) == {r \in Range(log) : r.user = u /\ r.act = act}

\* The rows of one act, newest first.
LEMMA RunPicks ==
    ASSUME NEW V, log \in Seq(V), Recent = log, NEW u, NEW act
    PROVE  Run(u, act) \in Seq(V) /\ \E g : PicksBack(g, Own(u, act), log, Run(u, act))
<1> PICK S, T : S = {r \in Range(log) : r.user = u} /\ T = {r \in Range(log) : r.act = act}
  OBVIOUS
<1> PICK mine : mine = Among(S, log)
  OBVIOUS
<1> PICK part : part = Among(T, mine)
  OBVIOUS
<1>1. Mine(u) = mine /\ Run(u, act) = Reverse(part)
  BY DEF Mine, Run
<1>2. mine \in Seq(V)
  BY AmongHas
<1>3. part \in Seq(V)
  BY <1>2, AmongHas
<1>4. PICK e : Picks(e, S, log, mine)
  BY AmongPicks
<1>5. PICK f : Picks(f, T, mine, part)
  BY <1>2, AmongPicks
<1>6. PICK g : Picks(g, S \cap T, log, part)
  BY <1>4, <1>5, PicksOfPicks
<1>7. S \cap T = Own(u, act)
  BY DEF Own
<1>8. Picks(g, Own(u, act), log, part)
  BY <1>6, <1>7
<1> QED BY <1>1, <1>3, <1>8, PicksTurned

ToReverse(run) == {r \in Range(run) : ~Covered(run, r) /\ HasInverse(r)}

\* Where no two rows have a target in common, every row that has an inverse and is
\* not of something made is written back, in the run's order.
LEMMA InversesFromRun ==
    ASSUME NEW V, NEW run \in Seq(V),
           \A i, j \in DOMAIN run : i # j => Target(run[i]) # Target(run[j])
    PROVE  \E wanted \in Seq(V) :
              /\ InversesOfRun(run) = [n \in DOMAIN wanted |-> InverseOf(wanted[n])]
              /\ \E f : Picks(f, ToReverse(run), run, wanted)
<1> PICK S, H : /\ S = {r \in Range(run) : ~Covered(run, r)}
                /\ H = {r \in Range(run) : HasInverse(r)}
  OBVIOUS
<1> PICK rows : rows = Among(S, run)
  OBVIOUS
<1>1. rows \in Seq(V)
  BY AmongHas
<1>2. PICK e : Picks(e, S, run, rows)
  BY AmongPicks
<1> PICK m : m = Len(rows)
  OBVIOUS
<1>3. m \in Nat /\ DOMAIN rows = 1..m /\ \A i \in 1..m : rows[i] \in V
  BY <1>1, SeqHas
<1>4. DOMAIN run \subseteq Nat
  BY SeqHas
<1>5. ASSUME NEW i \in 1..m, NEW j \in 1..m, Target(rows[i]) = Target(rows[j]) PROVE i = j
  <2>1. /\ e[i] \in DOMAIN run /\ e[j] \in DOMAIN run
        /\ rows[i] = run[e[i]] /\ rows[j] = run[e[j]]
        /\ (i < j => e[i] < e[j]) /\ (j < i => e[j] < e[i])
    BY <1>2, <1>3 DEF Picks
  <2>2. e[i] = e[j]
    BY <1>5, <2>1
  <2>3. e[i] \in Nat
    BY <1>4, <2>1
  <2> QED BY <2>1, <2>2, <2>3
<1> PICK all : all = [i \in 1..m |-> i]
  OBVIOUS
<1> PICK D : D = {i \in 1..m : \A j \in 1..(i - 1) : Target(rows[j]) # Target(rows[i])}
  OBVIOUS
<1>6. Heads(rows) = all
  <2>1. \A i \in 1..m : i \in D
    <3> SUFFICES ASSUME NEW i \in 1..m, NEW j \in 1..(i - 1) PROVE Target(rows[j]) # Target(rows[i])
      OBVIOUS
    <3>1. j \in 1..m /\ j # i
      BY <1>3
    <3> QED BY <1>5, <3>1
  <2>2. all \in Seq(1..m) /\ Len(all) = m
    <3>1. all \in [1..m -> 1..m]
      OBVIOUS
    <3> QED BY <1>3, <3>1, AsSeq
  <2>3. Len(all) <= Len(all) /\ \A i \in 1..Len(all) : i > Len(all) => all[i] \notin D
    BY <1>3, <2>2
  <2>4. \A i \in 1..Len(all) : all[i] = all[i] /\ all[i] \in D
    BY <2>1, <2>2
  <2>5. Among(D, all) = all
    BY ONLY <2>2, <2>3, <2>4, AmongPrefix
  <2>6. Heads(rows) = Among(D, all)
    BY <1>3 DEF Heads
  <2> QED BY <2>5, <2>6
<1>7. [n \in DOMAIN all |-> Earliest(rows, all[n])] = rows
  <2>1. ASSUME NEW n \in 1..m PROVE Earliest(rows, all[n]) = rows[n]
    <3>1. Earliest(rows, n) \in Range(rows) /\ Target(Earliest(rows, n)) = Target(rows[n])
      BY <1>1, <1>3, EarliestIs
    <3>2. PICK j \in 1..m : Earliest(rows, n) = rows[j]
      BY <1>3, <3>1 DEF Range
    <3> QED BY <1>5, <3>1, <3>2
  <2>2. DOMAIN all = 1..m
    OBVIOUS
  <2>3. rows = [n \in 1..m |-> rows[n]]
    BY <1>1, <1>3, SeqHas
  <2>4. [n \in DOMAIN all |-> Earliest(rows, all[n])] = [n \in 1..m |-> rows[n]]
    BY <2>1, <2>2
  <2> QED BY <2>3, <2>4
<1> PICK wanted : wanted = Among(H, rows)
  OBVIOUS
<1>8. wanted \in Seq(V)
  BY <1>1, AmongHas
<1>9. InversesOfRun(run) = [n \in DOMAIN wanted |-> InverseOf(wanted[n])]
  <2> PICK heads : heads = Heads(rows)
    OBVIOUS
  <2>1. rows = Among(S, run) /\ heads = all
    BY <1>6
  <2>2. InversesOfRun(run) =
          LET those == Among(H, [n \in DOMAIN heads |-> Earliest(rows, heads[n])])
          IN  [n \in DOMAIN those |-> InverseOf(those[n])]
    BY DEF InversesOfRun
  <2>3. Among(H, [n \in DOMAIN heads |-> Earliest(rows, heads[n])]) = wanted
    BY <1>7, <2>1
  <2> QED BY <2>2, <2>3
<1>10. PICK f : Picks(f, H, rows, wanted)
  BY <1>1, AmongPicks
<1>11. S \cap H = ToReverse(run)
  BY DEF ToReverse
<1>12. \E g : Picks(g, S \cap H, run, wanted)
  BY <1>2, <1>10, PicksOfPicks
<1> QED BY <1>8, <1>9, <1>11, <1>12

\* What of an act is written back: not what goes with something it made.
Taken(u, act) ==
    {r \in Own(u, act) :
        /\ HasInverse(r)
        /\ ~(r.verb = "field" /\ \E q \in Own(u, act) : q.verb = "create" /\ q.thing = r.thing)}

SignedBy(e, m, u, next) ==
    /\ m \in Nat /\ e \in [1..m -> DOMAIN log]
    /\ Signed(u, next) = [i \in 1..m |-> Inverted(log[e[i]], acts + 1, next)]
    /\ \A i \in 1..m : log[e[i]] \in Taken(u, next)
    /\ \A i, j \in 1..m : i < j => e[j] < e[i]
    /\ \A k \in DOMAIN log : log[k] \in Taken(u, next) => \E i \in 1..m : e[i] = k

\* A press writes the inverses of what it takes of the act, from the newest on.
LEMMA SignedPicks ==
    ASSUME NEW V, log \in Seq(V), Once(log), Recent = log, NEW u, NEW next
    PROVE  \E m, e : SignedBy(e, m, u, next)
<1> PICK run : run = Run(u, next)
  OBVIOUS
<1> PICK own : own = Own(u, next)
  OBVIOUS
<1>1. run \in Seq(V) /\ \E g : PicksBack(g, own, log, run)
  BY RunPicks
<1>2. PICK g : PicksBack(g, own, log, run)
  BY <1>1
<1>3. DOMAIN run \subseteq Nat /\ DOMAIN log \subseteq Nat
  BY <1>1, SeqHas
<1>4. ASSUME NEW i \in DOMAIN run, NEW j \in DOMAIN run, i # j
      PROVE  Target(run[i]) # Target(run[j])
  <2>1. i < j \/ j < i
    BY <1>3, <1>4
  <2>2. /\ g[i] \in DOMAIN log /\ g[j] \in DOMAIN log /\ run[i] = log[g[i]] /\ run[j] = log[g[j]]
        /\ log[g[i]] \in own /\ log[g[j]] \in own /\ g[i] # g[j]
    <3>1. g[i] \in Nat /\ g[j] \in Nat
      BY <1>2, <1>3 DEF PicksBack
    <3> QED BY <1>2, <2>1, <3>1 DEF PicksBack
  <2>3. ~SameTarget(log[g[i]], log[g[j]])
    BY <2>2 DEF Once
  <2>4. run[i].act = next /\ run[j].act = next
    BY <2>2 DEF Own
  <2> QED BY <2>2, <2>3, <2>4 DEF SameTarget, Target
<1>5. PICK wanted \in Seq(V) :
          /\ InversesOfRun(run) = [k \in DOMAIN wanted |-> InverseOf(wanted[k])]
          /\ \E f : Picks(f, ToReverse(run), run, wanted)
  BY <1>1, <1>4, InversesFromRun
<1>6. Range(run) = own
  <2>1. \A i \in DOMAIN run : run[i] \in own
    BY <1>2 DEF PicksBack
  <2>2. ASSUME NEW r \in own PROVE r \in Range(run)
    <3>1. PICK k \in DOMAIN log : log[k] = r
      BY DEF Own, Range
    <3>2. PICK i \in DOMAIN run : g[i] = k
      BY <1>2, <3>1 DEF PicksBack
    <3>3. run[i] = r
      BY <1>2, <3>1, <3>2 DEF PicksBack
    <3> QED BY <3>3 DEF Range
  <2> QED BY <2>1, <2>2 DEF Range
<1>7. own \cap ToReverse(run) = Taken(u, next)
  BY <1>6 DEF ToReverse, Taken, Covered
<1>8. PICK e : PicksBack(e, Taken(u, next), log, wanted)
  <2>1. PICK f : Picks(f, ToReverse(run), run, wanted)
    BY <1>5
  <2>2. \E e : PicksBack(e, own \cap ToReverse(run), log, wanted)
    BY ONLY <1>2, <2>1, PicksOfBack
  <2> QED BY <1>7, <2>2
<1> PICK m : m = Len(wanted)
  OBVIOUS
<1>9. m \in Nat /\ DOMAIN wanted = 1..m
  BY <1>5, SeqHas
<1>10. Signed(u, next) = [i \in 1..m |-> Inverted(log[e[i]], acts + 1, next)]
  <2> PICK inverses : inverses = InversesOfRun(run)
    OBVIOUS
  <2>1. Signed(u, next) =
          [i \in DOMAIN inverses |-> [inverses[i] EXCEPT !.act = acts + 1, !.undoes = next]]
    BY DEF Signed
  <2>2. DOMAIN inverses = 1..m /\ \A i \in 1..m : inverses[i] = InverseOf(wanted[i])
    BY <1>5, <1>9
  <2>3. \A i \in 1..m : wanted[i] = log[e[i]]
    BY <1>8, <1>9 DEF PicksBack
  <2> PICK s : s = [i \in 1..m |-> Inverted(log[e[i]], acts + 1, next)]
    OBVIOUS
  <2> PICK z : z = [i \in 1..m |-> [inverses[i] EXCEPT !.act = acts + 1, !.undoes = next]]
    OBVIOUS
  <2>4. Signed(u, next) = z
    BY <2>1, <2>2
  <2>5. ASSUME NEW i \in 1..m PROVE z[i] = s[i]
    <3>1. inverses[i] = InverseOf(log[e[i]])
      BY <2>2, <2>3
    <3> QED BY <3>1 DEF Inverted
  <2> QED BY <2>4, <2>5
<1>11. SignedBy(e, m, u, next)
  <2> PICK T : T = Taken(u, next)
    OBVIOUS
  <2>1. /\ e \in [1..m -> DOMAIN log]
        /\ \A i \in 1..m : log[e[i]] \in T
        /\ \A i, j \in 1..m : i < j => e[j] < e[i]
        /\ \A k \in DOMAIN log : log[k] \in T => \E i \in 1..m : e[i] = k
    BY <1>8, <1>9 DEF PicksBack
  <2> QED BY <1>9, <1>10, <2>1 DEF SignedBy
<1> QED BY <1>11

\* Every row of a log is somebody's.
LEMMA RecentIsAll ==
    ASSUME NEW n \in Nat, acts \in Nat, log \in Seq(Rows(n, acts)), Len(log) <= Depth
    PROVE  Recent = log
<1>1. \A r \in Range(log) : r.user # Nobody
  <2> SUFFICES ASSUME NEW r \in Range(log) PROVE r.user # Nobody
    OBVIOUS
  <2>1. r \in Drafts(n, acts)
    BY SeqHas DEF Rows
  <2> QED BY <2>1, DraftHas, NobodyAssumption
<1> QED BY <1>1, RecentIs

-----------------------------------------------------------------------------
(***************************************************************************)
(* How the rows of an act changed the show, and how their inverses change  *)
(* it back.                                                                *)
(***************************************************************************)
\* What a row found, and what it made of it.
Follows(before, r, now) ==
    /\ ~Refused(before, r.verb, r.thing)
    /\ now = Applied(before, r.verb, r.thing, r.value)
    /\ r.previous = ValueBefore(before, r.verb, r.thing, r.field)

\* A row changes the one thing it is about, and nothing is deleted that is not there.
LEMMA RowChanges ==
    ASSUME NEW n \in Nat, NEW a \in Nat, NEW r \in Rows(n, a), NEW before \in Shows(n), NEW now,
           Follows(before, r, now)
    PROVE  /\ \A t \in Things : t # r.thing => now[t] = before[t]
           /\ r.verb = "delete" => now[r.thing] = Absent /\ r.previous = before[r.thing]
           /\ ~HasInverse(r) => \A t \in Things : now[t] = before[t]
           /\ r.verb = "field" => before[r.thing] # Absent
<1>1. r.thing \in Things /\ r.verb \in Verbs /\ Written(r, n)
  BY DraftHas DEF Rows
<1> PICK v : v = (IF r.verb = "field" THEN Overlaid(r.value, before[r.thing]) ELSE r.value)
  OBVIOUS
<1>2. now = [before EXCEPT ![r.thing] = v]
  BY DEF Follows, Applied
<1>3. DOMAIN before = Things
  BY DEF Shows
<1>4. r.verb = "delete" => v = Absent /\ r.previous = before[r.thing]
  BY <1>1 DEF Follows, ValueBefore, Written
<1>5. r.verb = "field" => before[r.thing] # Absent
  BY DEF Follows, Refused
<1>6. ~HasInverse(r) => r.verb = "delete" /\ r.previous = Absent
  BY DEF HasInverse
<1> QED BY <1>1, <1>2, <1>3, <1>4, <1>5, <1>6

\* Putting back what a field held gives back the row.
LEMMA FieldBack ==
    ASSUME NEW n \in Nat, NEW f \in Fields, NEW was \in Whole(n), NEW v \in Part(f, n)
    PROVE  Overlaid([g \in {f} |-> was[g]], Overlaid(v, was)) = was
<1>1. DOMAIN was = Fields /\ DOMAIN v = {f} /\ {f} \cup Fields = Fields
  BY DEF Whole, Part
<1> PICK now : now = Overlaid(v, was)
  OBVIOUS
<1>2. now = [g \in Fields |-> IF g \in {f} THEN v[g] ELSE was[g]]
  BY <1>1 DEF Overlaid
<1> PICK old : old = [g \in {f} |-> was[g]]
  OBVIOUS
<1>3. Overlaid(old, now) = [g \in Fields |-> IF g \in {f} THEN old[g] ELSE now[g]]
  <2>1. DOMAIN old = {f} /\ DOMAIN now = Fields
    BY <1>2
  <2> QED BY <1>1, <2>1 DEF Overlaid
<1>4. \A g \in Fields : (IF g \in {f} THEN old[g] ELSE now[g]) = was[g]
  BY <1>2
<1>5. Overlaid(old, now) = [g \in Fields |-> was[g]]
  BY <1>3, <1>4
<1>6. was = [g \in Fields |-> was[g]]
  BY DEF Whole
<1> QED BY <1>5, <1>6

\* A row as it was written, and the show as it is when its inverse is.
Reversed(n, a, r, next, before, now, state, left) ==
    /\ left = TakenBack(state, Inverted(r, a + 1, next)).show
    /\ r \in Rows(n, a) /\ HasInverse(r) /\ next \in 1..a /\ before \in Shows(n)
    /\ Follows(before, r, now) /\ state \in States(n, a + 1)
    /\ r.verb = "create" => before[r.thing] = Absent
    /\ r.verb = "field" => state.show[r.thing] = now[r.thing]

\* The inverse of a row gives back what the row found, and changes nothing else.
LEMMA BackOne ==
    ASSUME NEW n \in Nat, NEW a \in Nat, NEW r, NEW next, NEW before, NEW now, NEW state,
           NEW left, Reversed(n, a, r, next, before, now, state, left)
    PROVE  /\ left[r.thing] = before[r.thing]
           /\ \A t \in Things : t # r.thing => left[t] = state.show[t]
<1> USE DEF Reversed
<1> PICK x : x = Inverted(r, a + 1, next)
  OBVIOUS
<1> PICK rows, t : rows = state.show /\ t = r.thing
  OBVIOUS
<1>1. /\ t \in Things /\ r.verb \in Verbs /\ Written(r, n)
  BY DraftHas DEF Rows
<1>2. /\ x.thing = t /\ x.field = r.field
      /\ x.verb = IF r.verb = "create" THEN "delete"
                  ELSE IF r.verb = "delete" THEN "create" ELSE "field"
      /\ x.value = IF r.verb = "create" THEN Absent ELSE r.previous
  BY InverseIs
<1>3. rows \in Shows(n) /\ DOMAIN rows = Things /\ DOMAIN before = Things
  BY DEF States, Shows
<1>4. ASSUME ~Refused(rows, x.verb, t)
      PROVE  left = Applied(rows, x.verb, t, x.value)
  BY <1>2, <1>4 DEF TakenBack
<1>5. CASE r.verb = "create"
  <2>1. x.verb = "delete" /\ x.value = Absent /\ ~Refused(rows, x.verb, t)
    BY <1>2, <1>5 DEF Refused
  <2>2. left = [rows EXCEPT ![t] = Absent]
    BY <1>4, <2>1 DEF Applied
  <2> QED BY <1>1, <1>3, <1>5, <2>2
<1>6. CASE r.verb = "delete"
  <2>1. x.verb = "create" /\ x.value = r.previous /\ ~Refused(rows, x.verb, t)
    BY <1>2, <1>6 DEF Refused
  <2>2. left = [rows EXCEPT ![t] = r.previous]
    BY <1>4, <2>1 DEF Applied
  <2>3. r.previous = before[t]
    BY <1>6 DEF Follows, ValueBefore
  <2> QED BY <1>1, <1>3, <2>2, <2>3
<1>7. CASE r.verb = "field"
  <2> PICK f, v, was : f = r.field /\ v = r.value /\ was = before[t]
    OBVIOUS
  <2>1. f \in Fields /\ v \in Part(f, n) /\ was \in Whole(n)
    <3>1. was \in Whole(n) \cup {Absent} /\ was # Absent
      BY <1>1, <1>7 DEF Shows, Follows, Refused
    <3> QED BY <1>1, <1>7, <3>1 DEF Written
  <2>2. r.previous = [g \in {f} |-> was[g]]
    BY <1>7 DEF Follows, ValueBefore
  <2>3. rows[t] = Overlaid(v, was)
    <3>1. now[t] = Overlaid(v, was)
      BY <1>1, <1>3, <1>7 DEF Follows, Applied
    <3> QED BY <1>7, <3>1
  <2>4. rows[t] # Absent
    <3> PICK whole : whole = Overlaid(v, was)
      OBVIOUS
    <3>1. DOMAIN whole = DOMAIN v \cup DOMAIN was
      BY DEF Overlaid
    <3>2. f \in DOMAIN whole
      BY <2>1, <3>1 DEF Part
    <3>3. whole # Absent
      BY <3>2 DEF Absent
    <3> QED BY <2>3, <3>3
  <2>5. x.verb = "field" /\ x.value = r.previous /\ ~Refused(rows, x.verb, t)
    BY <1>2, <1>7, <2>4 DEF Refused
  <2>6. left = [rows EXCEPT ![t] = Overlaid(r.previous, rows[t])]
    BY <1>4, <2>5 DEF Applied
  <2>7. Overlaid(r.previous, rows[t]) = was
    BY <2>1, <2>2, <2>3, FieldBack
  <2> QED BY <1>1, <1>3, <2>6, <2>7
<1> QED BY <1>1, <1>5, <1>6, <1>7 DEF Verbs

\* The show after each of the rows of an act, which are the log's last.
Trail(S, p, act, u, from, n) ==
    /\ p \in 0..Len(log) /\ S \in [p..Len(log) -> Shows(n)]
    /\ S[p] = from /\ S[Len(log)] = show
    /\ \A k \in 1..p : log[k].act # act
    /\ \A k \in (p + 1)..Len(log) :
          /\ log[k].act = act /\ log[k].user = u
          /\ Follows(S[k - 1], log[k], S[k])
          /\ log[k].verb = "create" => \A j \in p..(k - 1) : S[j][log[k].thing] = Absent

MadeUpTo(k, p, t) == \E j \in (p + 1)..k : log[j].verb = "create" /\ log[j].thing = t

\* As the show was after a row, but for what the rows up to there made.
Near(rows, S, k, p) == \A t \in Things : rows[t] = S[k][t] \/ MadeUpTo(k, p, t)

\* The rows of the trail are the act's own.
LEMMA TrailOwn ==
    ASSUME NEW n \in Nat, acts \in Nat, log \in Seq(Rows(n, acts)), NEW u, NEW act,
           NEW S, NEW p, NEW from, Trail(S, p, act, u, from, n)
    PROVE  /\ Len(log) \in Nat /\ p \in Nat /\ p <= Len(log) /\ DOMAIN log = 1..Len(log)
           /\ \A k \in (p + 1)..Len(log) :
                 /\ k \in 1..Len(log) /\ k - 1 \in p..Len(log) /\ k \in p..Len(log)
                 /\ log[k] \in Own(u, act) /\ log[k] \in Rows(n, acts)
                 /\ log[k].thing \in Things /\ log[k].verb \in Verbs
                 /\ S[k - 1] \in Shows(n) /\ S[k] \in Shows(n)
           /\ \A r \in Own(u, act) : \E k \in (p + 1)..Len(log) : log[k] = r
<1> PICK q : q = Len(log)
  OBVIOUS
<1>1. /\ q \in Nat /\ DOMAIN log = 1..q /\ \A k \in 1..q : log[k] \in Rows(n, acts)
  BY SeqHas
<1>2. p \in Nat /\ p <= q /\ S \in [p..q -> Shows(n)]
  BY <1>1 DEF Trail
<1>3. ASSUME NEW k \in (p + 1)..q
      PROVE  /\ k \in 1..q /\ k - 1 \in p..q /\ k \in p..q
             /\ log[k] \in Own(u, act) /\ log[k] \in Rows(n, acts)
             /\ log[k].thing \in Things /\ log[k].verb \in Verbs
             /\ S[k - 1] \in Shows(n) /\ S[k] \in Shows(n)
  <2>1. k \in 1..q /\ k - 1 \in p..q /\ k \in p..q
    BY <1>1, <1>2
  <2>2. S[k - 1] \in Shows(n) /\ S[k] \in Shows(n)
    BY <1>2, <2>1
  <2>3. log[k] \in Own(u, act)
    BY <1>1, <2>1 DEF Trail, Own, Range
  <2>4. log[k] \in Rows(n, acts)
    BY <1>1, <2>1
  <2>5. log[k] \in Drafts(n, acts)
    BY <2>4 DEF Rows
  <2>6. log[k].thing \in Things /\ log[k].verb \in Verbs
    BY <2>5, DraftHas
  <2> QED BY <2>1, <2>2, <2>3, <2>4, <2>6
<1>4. ASSUME NEW r \in Own(u, act) PROVE \E k \in (p + 1)..q : log[k] = r
  <2>1. PICK k \in 1..q : log[k] = r
    BY <1>1 DEF Own, Range
  <2>2. ~(k \in 1..p)
    BY <2>1 DEF Trail, Own
  <2>3. k \in (p + 1)..q
    BY <1>1, <1>2, <2>2
  <2> QED BY <2>1, <2>3
<1> QED BY <1>1, <1>2, <1>3, <1>4

\* The inverse of the last row takes the show back to before it.
LEMMA NearTaken ==
    ASSUME NEW n \in Nat, acts \in Nat, log \in Seq(Rows(n, acts)), NEW u, NEW act \in 1..acts,
           NEW S, NEW p, NEW from, Trail(S, p, act, u, from, n),
           NEW k \in (p + 1)..Len(log), log[k] \in Taken(u, act),
           NEW state \in States(n, acts + 1), Near(state.show, S, k, p)
    PROVE  Near(TakenBack(state, Inverted(log[k], acts + 1, act)).show, S, k - 1, p)
<1> PICK r, before, now : r = log[k] /\ before = S[k - 1] /\ now = S[k]
  OBVIOUS
<1> PICK x : x = Inverted(r, acts + 1, act)
  OBVIOUS
<1> PICK left : left = TakenBack(state, x).show
  OBVIOUS
<1> PICK q : q = Len(log)
  OBVIOUS
<1>1. /\ q \in Nat /\ p \in Nat /\ p <= q
      /\ r \in Rows(n, acts) /\ r.thing \in Things /\ before \in Shows(n) /\ now \in Shows(n)
      /\ \A j \in (p + 1)..q : log[j] \in Own(u, act)
  BY TrailOwn
<1>2. /\ Follows(before, r, now)
      /\ r.verb = "create" => before[r.thing] = Absent
  BY <1>1 DEF Trail
<1>3. HasInverse(r)
  BY DEF Taken
<1>4. r.verb = "field" => state.show[r.thing] = now[r.thing]
  <2> SUFFICES ASSUME r.verb = "field" PROVE state.show[r.thing] = now[r.thing]
    OBVIOUS
  <2>1. ~MadeUpTo(k, p, r.thing)
    <3> SUFFICES ASSUME NEW j \in (p + 1)..k, log[j].verb = "create", log[j].thing = r.thing
                 PROVE  FALSE
      BY DEF MadeUpTo
    <3>1. j \in (p + 1)..q
      BY <1>1
    <3>2. log[j] \in Own(u, act)
      BY <1>1, <3>1
    <3> QED BY <3>2 DEF Taken
  <2> QED BY <1>1, <2>1 DEF Near
<1>5. /\ left[r.thing] = before[r.thing]
      /\ \A t \in Things : t # r.thing => left[t] = state.show[t]
  <2>1. Reversed(n, acts, r, act, before, now, state, left)
    BY <1>1, <1>2, <1>3, <1>4 DEF Reversed
  <2>2. n \in Nat /\ acts \in Nat
    OBVIOUS
  <2> QED BY ONLY <2>1, <2>2, BackOne
<1>6. \A t \in Things : t # r.thing => now[t] = before[t]
  BY <1>1, <1>2, RowChanges
<1>7. ASSUME NEW t \in Things PROVE left[t] = before[t] \/ MadeUpTo(k - 1, p, t)
  <2>1. CASE t = r.thing
    BY <1>5, <2>1
  <2>2. CASE t # r.thing
    <3>1. CASE MadeUpTo(k, p, t)
      <4>1. PICK j \in (p + 1)..k : log[j].verb = "create" /\ log[j].thing = t
        BY <3>1 DEF MadeUpTo
      <4>2. j # k
        BY <2>2, <4>1
      <4>3. j \in (p + 1)..(k - 1)
        BY <1>1, <4>2
      <4> QED BY <4>1, <4>3 DEF MadeUpTo
    <3>2. CASE state.show[t] = now[t]
      BY <1>5, <1>6, <2>2, <3>2
    <3> QED BY <3>1, <3>2 DEF Near
  <2> QED BY <2>1, <2>2
<1> QED BY <1>7 DEF Near

\* And a row that is not written back had changed nothing, or something made by then.
LEMMA NearLeft ==
    ASSUME NEW n \in Nat, acts \in Nat, log \in Seq(Rows(n, acts)), NEW u, NEW act,
           NEW S, NEW p, NEW from, Trail(S, p, act, u, from, n),
           NEW k \in (p + 1)..Len(log), log[k] \notin Taken(u, act),
           NEW rows, Near(rows, S, k, p)
    PROVE  Near(rows, S, k - 1, p)
<1> PICK r, before, now : r = log[k] /\ before = S[k - 1] /\ now = S[k]
  OBVIOUS
<1> PICK q : q = Len(log)
  OBVIOUS
<1>1. /\ q \in Nat /\ p \in Nat /\ p <= q /\ k \in (p + 1)..q
      /\ r \in Rows(n, acts) /\ r.thing \in Things /\ before \in Shows(n) /\ now \in Shows(n)
      /\ r \in Own(u, act)
      /\ \A s \in Own(u, act) : \E j \in (p + 1)..q : log[j] = s
  BY TrailOwn
<1>2. Follows(before, r, now)
  BY <1>1 DEF Trail
<1>3. /\ \A t \in Things : t # r.thing => now[t] = before[t]
      /\ ~HasInverse(r) => \A t \in Things : now[t] = before[t]
      /\ r.verb = "field" => before[r.thing] # Absent
  BY <1>1, <1>2, RowChanges
<1>4. ASSUME NEW t \in Things, MadeUpTo(k, p, t), r.verb # "create" PROVE MadeUpTo(k - 1, p, t)
  <2>1. PICK j \in (p + 1)..k : log[j].verb = "create" /\ log[j].thing = t
    BY <1>4 DEF MadeUpTo
  <2>2. j # k
    BY <1>4, <2>1
  <2>3. j \in (p + 1)..(k - 1)
    BY <1>1, <2>2
  <2> QED BY <2>1, <2>3 DEF MadeUpTo
<1>5. CASE ~HasInverse(r)
  <2>1. r.verb # "create"
    BY <1>5 DEF HasInverse
  <2> QED BY <1>3, <1>4, <1>5, <2>1 DEF Near
<1>6. CASE HasInverse(r)
  <2>1. PICK s \in Own(u, act) : r.verb = "field" /\ s.verb = "create" /\ s.thing = r.thing
    BY <1>1, <1>6 DEF Taken
  <2>2. PICK j \in (p + 1)..q : log[j] = s
    BY <1>1
  <2>3. \A i \in p..(j - 1) : S[i][r.thing] = Absent
    BY <2>1, <2>2 DEF Trail
  <2>4. ~(k - 1 \in p..(j - 1))
    BY <1>3, <2>1, <2>3
  <2>5. j # k
    BY <2>1, <2>2
  <2>6. j \in (p + 1)..(k - 1)
    BY <1>1, <2>4, <2>5
  <2>7. MadeUpTo(k - 1, p, r.thing)
    BY <2>1, <2>2, <2>6 DEF MadeUpTo
  <2>8. r.verb # "create"
    BY <2>1
  <2> QED BY <1>3, <1>4, <2>7, <2>8 DEF Near
<1> QED BY <1>5, <1>6

\* Between two inverses, or before the first, or after the last.
Reached(i, k, e, m) == i \in 0..m /\ (i = m \/ e[i + 1] <= k) /\ (i = 0 \/ e[i] > k)

\* All the inverses of an act give back the show that it began from.
LEMMA GivenBack ==
    ASSUME NEW n \in Nat, acts \in Nat, show \in Shows(n), log \in Seq(Rows(n, acts)),
           Once(log), Recent = log, NEW u, NEW act \in 1..acts,
           NEW S, NEW p, NEW from, Trail(S, p, act, u, from, n)
    PROVE  After(u, act).show = from
<1> PICK b, q : b = acts + 1 /\ q = Len(log)
  OBVIOUS
<1>1. /\ q \in Nat /\ p \in Nat /\ p <= q /\ DOMAIN log = 1..q /\ b \in Nat /\ acts <= b
      /\ \A k \in (p + 1)..q : log[k] \in Own(u, act)
      /\ \A r \in Own(u, act) : \E k \in (p + 1)..q : log[k] = r
  BY TrailOwn
<1>2. PICK m, e : SignedBy(e, m, u, act)
  BY SignedPicks
<1> PICK s : s = Signed(u, act)
  OBVIOUS
<1>3. /\ m \in Nat /\ DOMAIN s = 1..m
      /\ \A i \in 1..m : s[i] = Inverted(log[e[i]], b, act) /\ e[i] \in 1..q
                         /\ log[e[i]] \in Taken(u, act)
      /\ \A i, j \in 1..m : i < j => e[j] < e[i]
      /\ \A k \in 1..q : log[k] \in Taken(u, act) => \E i \in 1..m : e[i] = k
  BY <1>1, <1>2 DEF SignedBy
<1>4. \A i \in 1..m : e[i] \in (p + 1)..q
  <2> SUFFICES ASSUME NEW i \in 1..m PROVE e[i] \in (p + 1)..q
    OBVIOUS
  <2>1. log[e[i]].act = act /\ e[i] \in 1..q
    BY <1>3 DEF Taken, Own
  <2>2. ~(e[i] \in 1..p)
    BY <2>1 DEF Trail
  <2> PICK k : k = e[i]
    OBVIOUS
  <2> QED BY <1>1, <2>1, <2>2
<1> PICK V : V = States(n, b)
  OBVIOUS
<1> PICK start : start = [show |-> show, log |-> log]
  OBVIOUS
<1>5. start \in V
  <2>1. Rows(n, acts) \subseteq Rows(n, b)
    BY <1>1, RowsGrow
  <2>2. log \in Seq(Rows(n, b))
    BY <2>1, SeqGrows
  <2> QED BY <2>2 DEF States
<1>6. \A i \in 1..m, state \in V : TakenBack(state, s[i]) \in V
  <2>1. \E k \in Nat : SignedAs(s, k, u, b, act, n)
    BY SignedIs
  <2>2. \A i \in 1..m : s[i] \in Drafts(n, b)
    BY <1>3, <2>1 DEF SignedAs
  <2> QED BY <1>1, <2>2, TakenBackIs
<1>7. PICK run \in [0..m -> V] : TakenBackRun(run, start, s, m)
  BY <1>3, <1>5, <1>6, TakenBackRuns
<1> DEFINE T == {d \in 0..(q - p) :
                    \E i : Reached(i, q - d, e, m) /\ Near(run[i].show, S, q - d, p)}
<1>8. 0 \in T
  <2>1. Near(show, S, q, p)
    BY DEF Near, Trail
  <2>2. run[0].show = show
    BY <1>7 DEF TakenBackRun
  <2>3. 0 = m \/ e[1] <= q
    <3>1. m # 0 => 1 \in 1..m
      BY <1>3
    <3>2. m # 0 => e[1] \in 1..q
      BY <1>3, <3>1
    <3> QED BY <1>1, <3>2
  <2>4. Reached(0, q, e, m)
    BY <1>3, <2>3 DEF Reached
  <2>5. q - 0 = q /\ 0 \in 0..(q - p)
    BY <1>1
  <2> QED BY <2>1, <2>2, <2>4, <2>5
<1>9. ASSUME NEW d \in 1..(q - p), d - 1 \in T PROVE d \in T
  <2> PICK k : k = q - (d - 1)
    OBVIOUS
  <2>1. k \in (p + 1)..q /\ k - 1 = q - d /\ d \in 0..(q - p) /\ k \in 1..q
    BY <1>1
  <2>2. PICK i : Reached(i, k, e, m) /\ Near(run[i].show, S, k, p)
    BY <1>9
  <2>3. i \in 0..m /\ run[i] \in V
    BY <2>2 DEF Reached
  <2>4. ASSUME log[k] \in Taken(u, act)
        PROVE  \E j : Reached(j, k - 1, e, m) /\ Near(run[j].show, S, k - 1, p)
    <3>1. PICK j \in 1..m : e[j] = k
      BY <1>3, <2>1, <2>4
    <3>2. ~(j <= i)
      <4> SUFFICES ASSUME j <= i PROVE FALSE
        OBVIOUS
      <4>1. i \in 1..m /\ e[i] > k
        BY <1>3, <2>2 DEF Reached
      <4>2. j < i => e[i] < e[j]
        BY <1>3, <4>1
      <4>3. e[i] \in 1..q
        BY <1>3, <4>1
      <4> QED BY <1>1, <1>3, <2>1, <2>3, <3>1, <4>1, <4>2, <4>3, SMTT(20)
    <3>3. i + 1 \in 1..m /\ e[i + 1] <= k
      BY <1>3, <2>2, <2>3, <3>2 DEF Reached
    <3>4. j = i + 1
      <4>1. i + 1 < j => e[j] < e[i + 1]
        BY <1>3, <3>3
      <4>2. e[i + 1] \in 1..q
        BY <1>3, <3>3
      <4> QED BY <2>1, <2>3, <3>1, <3>2, <3>3, <4>1, <4>2
    <3>5. Reached(j, k - 1, e, m)
      <4>1. j \in 0..m /\ k \in Int /\ e[j] > k - 1
        BY <1>1, <1>3, <2>1, <3>1
      <4>2. ASSUME j # m PROVE e[j + 1] <= k - 1
        <5> PICK next : next = j + 1
          OBVIOUS
        <5>1. next \in 1..m /\ j < next
          BY <1>3, <4>2
        <5>2. e[next] < e[j] /\ e[next] \in 1..q
          BY <1>3, <5>1
        <5> QED BY <1>1, <3>1, <4>1, <5>2
      <4> QED BY <4>1, <4>2 DEF Reached
    <3>6. run[j] = TakenBack(run[i], s[j])
      <4>1. j - 1 = i
        BY <2>3, <3>4
      <4> QED BY <1>7, <4>1 DEF TakenBackRun
    <3>7. s[j] = Inverted(log[k], b, act)
      BY <1>3, <3>1
    <3>8. Near(TakenBack(run[i], Inverted(log[k], b, act)).show, S, k - 1, p)
      BY <2>1, <2>2, <2>3, <2>4, NearTaken
    <3> QED BY <3>5, <3>6, <3>7, <3>8
  <2>5. ASSUME log[k] \notin Taken(u, act)
        PROVE  \E j : Reached(j, k - 1, e, m) /\ Near(run[j].show, S, k - 1, p)
    <3>1. Near(run[i].show, S, k - 1, p)
      BY <2>1, <2>2, <2>5, NearLeft
    <3>2. Reached(i, k - 1, e, m)
      <4>1. i # m => i + 1 \in 1..m /\ e[i + 1] # k /\ e[i + 1] \in 1..q /\ e[i + 1] <= k
        <5>1. i # m => i + 1 \in 1..m /\ e[i + 1] <= k
          BY <1>3, <2>2, <2>3 DEF Reached
        <5> QED BY <1>3, <2>5, <5>1
      <4>2. i # 0 => i \in 1..m /\ e[i] \in 1..q /\ e[i] > k
        <5>1. i # 0 => i \in 1..m /\ e[i] > k
          BY <1>3, <2>2, <2>3 DEF Reached
        <5> QED BY <1>3, <5>1
      <4> QED BY <1>1, <2>1, <2>3, <4>1, <4>2, SMTT(20) DEF Reached
    <3> QED BY <3>1, <3>2
  <2>6. \E j : Reached(j, q - d, e, m) /\ Near(run[j].show, S, q - d, p)
    BY <2>1, <2>4, <2>5
  <2> QED BY <2>1, <2>6
<1>10. q - p \in T
  <2> HIDE DEF T
  <2>1. q - p \in Nat
    BY <1>1
  <2>2. 0..(q - p) \subseteq T
    BY <1>8, <1>9, <2>1, UpTo
  <2> QED BY <2>1, <2>2
<1>11. PICK i : Reached(i, p, e, m) /\ Near(run[i].show, S, p, p)
  <2>1. q - (q - p) = p
    BY <1>1
  <2> QED BY <1>10, <2>1
<1>12. i = m
  <2>1. i # m => i + 1 \in 1..m /\ e[i + 1] <= p
    BY <1>3, <1>11 DEF Reached
  <2>2. i # m => e[i + 1] \in (p + 1)..q
    BY <1>4, <2>1
  <2> QED BY <1>1, <2>1, <2>2
<1>13. run[m] = After(u, act) /\ run[m] \in V
  <2>1. After(u, act) = FoldLeft(TakenBack, start, s)
    BY DEF After
  <2> QED BY <1>3, <1>7, <2>1 DEF TakenBackRun
<1>14. \A t \in Things : run[m].show[t] = from[t]
  <2>1. \A t \in Things : ~MadeUpTo(p, p, t)
    <3>1. \A j \in (p + 1)..p : FALSE
      BY <1>1
    <3> QED BY <3>1 DEF MadeUpTo
  <2>2. S[p] = from
    BY DEF Trail
  <2> QED BY <1>11, <1>12, <2>1, <2>2 DEF Near
<1> PICK left : left = run[m].show
  OBVIOUS
<1>15. left \in Shows(n) /\ from \in Shows(n)
  <2>1. p \in p..q
    BY <1>1
  <2> QED BY <1>13, <2>1 DEF States, Trail
<1>16. left = [t \in Things |-> left[t]] /\ from = [t \in Things |-> from[t]]
  BY <1>15 DEF Shows
<1>17. left = from
  BY <1>14, <1>16
<1> QED BY <1>13, <1>17

-----------------------------------------------------------------------------
(***************************************************************************)
(* The show after each row of a press.                                     *)
(***************************************************************************)
MadeBy(s, i, t) == \E j \in 1..i : s[j].verb = "create" /\ s[j].thing = t

\* A press makes only what is not there.
MadeAfresh(s, m) == \A i \in 1..m : s[i].verb = "create" => show[s[i].thing] = Absent

\* The show after each row a press has added to the log, from before the first.
Traced(S, l, now, s, i, n) ==
    LET p == Len(log)
        q == Len(l)
    IN  /\ S \in [p..q -> Shows(n)] /\ S[p] = show /\ S[q] = now
        /\ \A k \in (p + 1)..q :
              /\ Follows(S[k - 1], l[k], S[k])
              /\ l[k].verb = "create" => \A j \in p..(k - 1) : S[j][l[k].thing] = Absent
        /\ \A t \in Things : show[t] = Absent /\ ~MadeBy(s, i, t)
              => \A k \in p..q : S[k][t] = Absent

\* The places from one to another.
LEMMA Span ==
    ASSUME NEW p \in Nat, NEW q \in Nat, p <= q
    PROVE  /\ p \in p..q /\ q \in p..q /\ q + 1 \in p..(q + 1)
           /\ \A k \in p..q : k \in p..(q + 1) /\ k # q + 1
           /\ \A k \in (p + 1)..q : k \in p..q /\ k - 1 \in p..q /\ k \in 1..q
           /\ \A k \in (p + 1)..q : \A j \in p..(k - 1) : j \in p..q
           /\ \A k \in (p + 1)..(q + 1) : k = q + 1 \/ k \in (p + 1)..q
           /\ \A k \in p..(q + 1) : k = q + 1 \/ k \in p..q
OBVIOUS

\* One inverse more, written or refused.
LEMMA StillTraced ==
    ASSUME NEW n \in Nat, acts \in Nat, log \in Seq(Rows(n, acts)), NEW u, NEW next, NEW s,
           NEW m \in Nat, SignedAs(s, m, u, acts + 1, next, n), MadeAfresh(s, m), NEW i \in 1..m,
           NEW state \in States(n, acts + 1), Longer(state.log, s, i - 1, u, acts + 1, next),
           NEW S, Traced(S, state.log, state.show, s, i - 1, n)
    PROVE  \E T : Traced(T, TakenBack(state, s[i]).log, TakenBack(state, s[i]).show, s, i, n)
<1> PICK b, x, l, p, q : /\ b = acts + 1 /\ x = s[i] /\ l = state.log /\ p = Len(log)
                         /\ q = Len(l)
  OBVIOUS
<1> PICK V : V = Rows(n, b)
  OBVIOUS
<1>1. /\ b \in Nat /\ l \in Seq(V) /\ p \in Nat /\ q \in Nat /\ p <= q
  BY SeqHas DEF States, Longer
<1>2. x \in Drafts(n, b)
  BY DEF SignedAs
<1>3. /\ S \in [p..q -> Shows(n)] /\ S[p] = show /\ S[q] = state.show
      /\ \A k \in (p + 1)..q :
            /\ Follows(S[k - 1], l[k], S[k])
            /\ l[k].verb = "create" => \A j \in p..(k - 1) : S[j][l[k].thing] = Absent
  BY DEF Traced
<1>4. ASSUME NEW t \in Things, show[t] = Absent, ~MadeBy(s, i - 1, t), NEW k \in p..q
      PROVE  S[k][t] = Absent
  BY <1>4 DEF Traced
<1>5. ASSUME NEW t, MadeBy(s, i - 1, t) PROVE MadeBy(s, i, t)
  <2>1. PICK j \in 1..(i - 1) : s[j].verb = "create" /\ s[j].thing = t
    BY <1>5 DEF MadeBy
  <2>2. j \in 1..i
    OBVIOUS
  <2> QED BY <2>1, <2>2 DEF MadeBy
<1>6. ASSUME x.verb = "create" PROVE show[x.thing] = Absent /\ ~MadeBy(s, i - 1, x.thing)
  <2>1. show[x.thing] = Absent
    BY <1>6 DEF MadeAfresh
  <2>2. ASSUME NEW j \in 1..(i - 1), s[j].verb = "create", s[j].thing = x.thing PROVE FALSE
    <3>1. j \in 1..m /\ j # i
      OBVIOUS
    <3>2. Target(s[j]) # Target(x)
      BY <3>1 DEF SignedAs
    <3>3. s[j] \in Drafts(n, b)
      BY <3>1 DEF SignedAs
    <3>4. s[j].field = "all" /\ x.field = "all"
      BY <1>2, <1>6, <2>2, <3>3, DraftHas DEF Written
    <3> QED BY <1>6, <2>2, <3>2, <3>4 DEF Target
  <2> QED BY <2>1, <2>2 DEF MadeBy
<1>7. CASE TakenBack(state, x) = state
  <2>1. \A t \in Things : show[t] = Absent /\ ~MadeBy(s, i, t) => \A k \in p..q : S[k][t] = Absent
    BY <1>4, <1>5
  <2>2. Traced(S, l, state.show, s, i, n)
    BY <1>3, <2>1 DEF Traced
  <2> QED BY <1>7, <2>2
<1>8. ASSUME NEW y \in V, WrittenBack(state, x, y)
      PROVE  \E T : Traced(T, TakenBack(state, x).log, TakenBack(state, x).show, s, i, n)
  <2> PICK before, now, later : /\ before = state.show /\ now = TakenBack(state, x).show
                                /\ later = TakenBack(state, x).log
    OBVIOUS
  <2>1. /\ Likewise(y, x) /\ later = Logged(l, y) /\ Follows(before, y, now)
        /\ y.verb = x.verb /\ y.thing = x.thing
    BY <1>8 DEF WrittenBack, Likewise, Follows
  <2>2. later = Append(l, y)
    <3>1. Logged(l, y) = Append(l, y)
      BY <1>1, <1>8, <2>1, InverseAppended
    <3> QED BY <2>1, <3>1
  <2>3. /\ Len(later) = q + 1 /\ later[q + 1] = y /\ \A k \in 1..q : later[k] = l[k]
    BY <1>1, <1>8, <2>2, AppendProperties
  <2>4. before \in Shows(n) /\ now \in Shows(n)
    BY <1>1, <1>2, TakenBackIs DEF States
  <2> PICK T : T = [k \in p..(q + 1) |-> IF k = q + 1 THEN now ELSE S[k]]
    OBVIOUS
  <2>5. /\ p \in p..q /\ q \in p..q /\ q + 1 \in p..(q + 1)
        /\ \A k \in p..q : k \in p..(q + 1) /\ k # q + 1
        /\ \A k \in (p + 1)..q : k \in p..q /\ k - 1 \in p..q /\ k \in 1..q
        /\ \A k \in (p + 1)..q : \A j \in p..(k - 1) : j \in p..q
        /\ \A k \in (p + 1)..(q + 1) : k = q + 1 \/ k \in (p + 1)..q
        /\ \A k \in p..(q + 1) : k = q + 1 \/ k \in p..q
    BY ONLY <1>1, Span
  <2>6. /\ \A k \in p..q : T[k] = S[k]
        /\ T[q + 1] = now
        /\ T \in [p..(q + 1) -> Shows(n)]
    <3>1. ASSUME NEW k \in p..q PROVE T[k] = S[k]
      <4>1. k \in p..(q + 1) /\ k # q + 1
        BY <2>5
      <4> QED BY <4>1
    <3>2. T[q + 1] = now
      BY <2>5
    <3>3. ASSUME NEW k \in p..(q + 1) PROVE k = q + 1 \/ k \in p..q
      BY <2>5
    <3>4. \A k \in p..(q + 1) : T[k] \in Shows(n)
      BY <1>3, <2>4, <3>1, <3>2, <3>3
    <3> QED BY <3>1, <3>2, <3>4
  <2>7. ASSUME NEW k \in (p + 1)..(q + 1)
        PROVE  /\ Follows(T[k - 1], later[k], T[k])
               /\ later[k].verb = "create" => \A j \in p..(k - 1) : T[j][later[k].thing] = Absent
    <3>1. CASE k \in (p + 1)..q
      <4>1. /\ later[k] = l[k] /\ T[k] = S[k] /\ T[k - 1] = S[k - 1]
            /\ \A j \in p..(k - 1) : T[j] = S[j]
        BY <2>3, <2>5, <2>6, <3>1
      <4>2. /\ Follows(S[k - 1], l[k], S[k])
            /\ l[k].verb = "create" => \A j \in p..(k - 1) : S[j][l[k].thing] = Absent
        BY <1>3, <3>1
      <4> QED BY ONLY <4>1, <4>2
    <3>2. CASE k = q + 1
      <4>1. k - 1 = q
        BY <1>1, <3>2
      <4>2. Follows(T[k - 1], later[k], T[k])
        BY <1>3, <2>1, <2>3, <2>5, <2>6, <3>2, <4>1, SMTT(20)
      <4>3. ASSUME y.verb = "create", NEW j \in p..q PROVE T[j][y.thing] = Absent
        <5>1. y.thing \in Things
          BY <1>2, <2>1, DraftHas
        <5>2. show[y.thing] = Absent /\ ~MadeBy(s, i - 1, y.thing)
          BY <1>6, <2>1, <4>3
        <5> QED BY <1>4, <2>6, <5>1, <5>2, SMTT(20)
      <4>4. later[k] = y
        BY <2>3, <3>2
      <4> QED BY ONLY <4>1, <4>2, <4>3, <4>4
    <3> QED BY <2>5, <3>1, <3>2
  <2>8. ASSUME NEW t \in Things, show[t] = Absent, ~MadeBy(s, i, t), NEW k \in p..(q + 1)
        PROVE  T[k][t] = Absent
    <3>1. ~MadeBy(s, i - 1, t)
      BY <1>5, <2>8
    <3>2. CASE k \in p..q
      BY <1>4, <2>6, <2>8, <3>1, <3>2
    <3>3. CASE k = q + 1
      <4>1. before[t] = Absent
        <5>1. S[q] = before /\ q \in p..q
          BY <1>3, <2>5
        <5>2. S[q][t] = Absent
          BY <1>4, <2>8, <3>1, <5>1
        <5> QED BY <5>1, <5>2
      <4>2. t # y.thing => now[t] = before[t]
        BY <1>1, <1>8, <2>1, <2>4, RowChanges
      <4>3. /\ y.verb = "delete" => now[y.thing] = Absent
            /\ y.verb = "field" => before[y.thing] # Absent
        BY <1>1, <1>8, <2>1, <2>4, RowChanges
      <4>4. t = y.thing => y.verb # "create"
        <5> SUFFICES ASSUME t = x.thing, x.verb = "create" PROVE FALSE
          BY <2>1
        <5>1. i \in 1..i
          OBVIOUS
        <5>2. MadeBy(s, i, t)
          BY <5>1 DEF MadeBy
        <5> QED BY <2>8, <5>2
      <4>5. y.verb \in Verbs
        BY <1>2, <2>1, DraftHas
      <4> QED BY <2>6, <3>3, <4>1, <4>2, <4>3, <4>4, <4>5 DEF Verbs
    <3> QED BY <2>5, <3>2, <3>3
  <2>9. Traced(T, later, now, s, i, n)
    <3> PICK z : z = q + 1
      OBVIOUS
    <3>1. z = Len(later) /\ p = Len(log) /\ T[p] = show /\ T[z] = now /\ T \in [p..z -> Shows(n)]
      BY <1>3, <2>3, <2>5, <2>6
    <3>2. \A k \in (p + 1)..z :
             /\ Follows(T[k - 1], later[k], T[k])
             /\ later[k].verb = "create" => \A j \in p..(k - 1) : T[j][later[k].thing] = Absent
      BY <2>7
    <3>3. \A t \in Things : show[t] = Absent /\ ~MadeBy(s, i, t)
             => \A k \in p..z : T[k][t] = Absent
      BY <2>8
    <3> QED BY ONLY <3>1, <3>2, <3>3 DEF Traced
  <2> QED BY <2>9
<1>9. \/ TakenBack(state, x) = state
      \/ \E y \in V : WrittenBack(state, x, y)
  BY <1>1, <1>2, TakenBackIs
<1> QED BY <1>7, <1>8, <1>9

\* All that a press writes.
LEMMA AfterTraced ==
    ASSUME NEW n \in Nat, acts \in Nat, show \in Shows(n), log \in Seq(Rows(n, acts)),
           NEW u, NEW next \in 1..acts, NEW m \in Nat,
           SignedAs(Signed(u, next), m, u, acts + 1, next, n), MadeAfresh(Signed(u, next), m)
    PROVE  \E S : Traced(S, After(u, next).log, After(u, next).show, Signed(u, next), m, n)
<1> PICK b, s : b = acts + 1 /\ s = Signed(u, next)
  OBVIOUS
<1> PICK V : V = States(n, b)
  OBVIOUS
<1> PICK start : start = [show |-> show, log |-> log]
  OBVIOUS
<1>0. b \in Nat /\ acts <= b
  OBVIOUS
<1>1. start \in V
  <2>1. Rows(n, acts) \subseteq Rows(n, b)
    BY <1>0, RowsGrow
  <2>2. log \in Seq(Rows(n, b))
    BY <2>1, SeqGrows
  <2> QED BY <2>2 DEF States
<1>2. /\ DOMAIN s = 1..m
      /\ \A i \in 1..m, state \in V : TakenBack(state, s[i]) \in V
  <2>1. DOMAIN s = 1..m /\ \A i \in 1..m : s[i] \in Drafts(n, b)
    BY DEF SignedAs
  <2> QED BY <1>0, <2>1, TakenBackIs
<1>3. PICK run \in [0..m -> V] : TakenBackRun(run, start, s, m)
  BY <1>1, <1>2, TakenBackRuns
<1> DEFINE T == {i \in 0..m : /\ Longer(run[i].log, s, i, u, b, next)
                              /\ \E S : Traced(S, run[i].log, run[i].show, s, i, n)}
<1>4. 0 \in T
  <2> PICK p : p = Len(log)
    OBVIOUS
  <2>1. run[0].log = log /\ run[0].show = show
    BY <1>3 DEF TakenBackRun
  <2>2. p \in Nat
    BY SeqHas
  <2>3. \A k \in (p + 1)..p : FALSE
    BY <2>2
  <2>4. Longer(log, s, 0, u, b, next)
    BY <2>2, <2>3 DEF Longer
  <2> PICK S : S = [k \in p..p |-> show]
    OBVIOUS
  <2>5. p \in p..p /\ \A k \in p..p : S[k] = show
    BY <2>2
  <2>6. Traced(S, log, show, s, 0, n)
    BY <2>3, <2>5 DEF Traced
  <2> QED BY <2>1, <2>4, <2>6
<1>5. ASSUME NEW i \in 1..m, i - 1 \in T PROVE i \in T
  <2> PICK state : state = run[i - 1]
    OBVIOUS
  <2>1. state \in V /\ run[i] = TakenBack(state, s[i]) /\ i \in 0..m
    BY <1>3 DEF TakenBackRun
  <2>2. Longer(state.log, s, i - 1, u, b, next)
    BY <1>5
  <2>3. PICK S : Traced(S, state.log, state.show, s, i - 1, n)
    BY <1>5
  <2>4. Longer(TakenBack(state, s[i]).log, s, i, u, b, next)
    BY <2>1, <2>2, StillLonger
  <2>5. \E R : Traced(R, TakenBack(state, s[i]).log, TakenBack(state, s[i]).show, s, i, n)
    BY <2>1, <2>2, <2>3, StillTraced
  <2> QED BY <2>1, <2>4, <2>5
<1>6. m \in T
  <2> HIDE DEF T
  <2>1. 0..m \subseteq T
    BY <1>4, <1>5, UpTo
  <2> QED BY <2>1
<1>7. After(u, next) = run[m]
  <2>1. After(u, next) = FoldLeft(TakenBack, start, s)
    BY DEF After
  <2> QED BY <1>3, <2>1 DEF TakenBackRun
<1> QED BY <1>6, <1>7

-----------------------------------------------------------------------------
(***************************************************************************)
(* What was removed, and the removal not reversed, is not there; and one   *)
(* act alone removed it.  So what a press makes, it makes afresh.          *)
(***************************************************************************)
Removes(rows, r) ==
    /\ r \in Range(rows) /\ r.verb = "delete" /\ r.previous # Absent
    /\ \A s \in Range(rows) : s.undoes # r.act

GoneFrom(rows, now) ==
    /\ \A r : Removes(rows, r) => now[r.thing] = Absent
    /\ \A r, s : Removes(rows, r) /\ Removes(rows, s) /\ r.thing = s.thing => r.act = s.act

GoneOnce == GoneFrom(log, show)

\* A logged row has before it what it was given, or what the row it is folded over had.
LEMMA LoggedPrevious ==
    ASSUME NEW n, NEW a, NEW V, V = Rows(n, a), NEW rows \in Seq(V), NEW x \in V, NEW y,
           LoggedAs(rows, x, y, Logged(rows, x), V)
    PROVE  y.previous = x.previous \/ \E f \in Folded(rows, x) : y.previous = f.previous
<1> PICK same : same = Folded(rows, x)
  OBVIOUS
<1> PICK first : first = IF same = {} THEN x.previous ELSE (CHOOSE r \in same : TRUE).previous
  OBVIOUS
<1> PICK z : z = [x EXCEPT !.previous = first]
  OBVIOUS
<1> PICK kept : kept = Among(Range(rows) \ same, rows)
  OBVIOUS
<1>1. Logged(rows, x) = Append(kept, z)
  BY DEF Logged, Folded
<1>2. kept \in Seq(V)
  BY AmongHas
<1> PICK W : W = V \cup {z}
  OBVIOUS
<1>3. kept \in Seq(W) /\ z \in W
  <2>1. V \subseteq W
    OBVIOUS
  <2> QED BY <1>2, <2>1, SeqGrows
<1> PICK l : l = Append(kept, z)
  OBVIOUS
<1>4. l[Len(l)] = z
  <2>1. Len(l) = Len(kept) + 1 /\ l[Len(kept) + 1] = z
    BY <1>3, AppendProperties
  <2> QED BY <2>1
<1>5. y = z
  BY <1>1, <1>4 DEF LoggedAs
<1>6. z.previous = first
  BY DEF Rows, Drafts
<1>7. same # {} => \E f \in same : first = f.previous
  OBVIOUS
<1> QED BY <1>5, <1>6, <1>7

\* The act a user is in the middle of, or is about to begin, is a change of their
\* own and nothing reverses it.
LEMMA OpenStands ==
    ASSUME TypeInv, Chains, NEW u \in Users
    PROVE  \A s \in Range(log) : /\ s.undoes # ActOf(u)
                                 /\ s.act = ActOf(u) => s.undoes = None
<1> SUFFICES ASSUME NEW s \in Range(log)
             PROVE  s.undoes # ActOf(u) /\ (s.act = ActOf(u) => s.undoes = None)
  OBVIOUS
<1> PICK n, act : n = size[1] /\ act = ActOf(u)
  OBVIOUS
<1>1. n \in Nat /\ acts \in Nat /\ log \in Seq(Rows(n, acts))
  BY StacksHave
<1>2. s.act \in 1..acts /\ s.undoes \in 0..acts /\ s.undoes < s.act
  BY <1>1, KeysAre, DraftHas
<1>3. CASE open[u] = None
  <2>1. act = acts + 1
    BY <1>3 DEF ActOf
  <2> QED BY <1>1, <1>2, <2>1
<1>4. CASE open[u] # None
  <2>1. act = open[u]
    BY <1>4 DEF ActOf
  <2>2. PICK K, by, of, deep, root, top : Told(K, by, of, deep, root, top)
    BY DEF Chains, ChainsOf, Told
  <2>3. /\ Family(log, K, acts, presses, by, of, deep, root, top)
        /\ Pending(u, act, K, by, of)
    BY <2>1, <2>2 DEF Told, Tells, UserKept
  <2>4. act \in K /\ by[act] = u /\ of[act] = None /\ \A k \in K : by[k] = u => k <= act
    BY <1>4, <2>1, <2>3 DEF Pending
  <2>5. s.act \in K /\ of[s.act] = s.undoes
    BY <2>3 DEF Family, Keys
  <2>6. s.undoes # None => by[s.undoes] = by[s.act]
    BY <2>3, <2>5 DEF Family
  <2>7. act # None
    BY <1>4, <2>1
  <2>8. ASSUME s.undoes = act PROVE FALSE
    <3>1. s.act <= act
      BY <2>4, <2>5, <2>6, <2>7, <2>8
    <3> QED BY <1>2, <2>8, <3>1
  <2> QED BY <2>4, <2>5, <2>8
<1> QED BY <1>3, <1>4

\* At the start nothing has been removed.
LEMMA GoneInit == Init => GoneOnce
<1> SUFFICES ASSUME Init PROVE GoneOnce
  OBVIOUS
<1>1. Range(log) = {}
  BY DEF Init, Range
<1> QED BY <1>1 DEF GoneOnce, GoneFrom, Removes

\* A client's write.
LEMMA GoneWrite ==
    ASSUME TypeInv, Chains, GoneOnce, NEW u \in Users, NEW verb, NEW thing \in Things, NEW field,
           NEW keep, Deed(verb, field), Write(u, verb, thing, field, keep)
    PROVE  GoneOnce'
<1> PICK n, act : n = size[1] /\ act = ActOf(u)
  OBVIOUS
<1>1. n \in Nat /\ acts \in Nat /\ show \in Shows(n) /\ log \in Seq(Rows(n, acts))
  BY StacksHave DEF TypeInv, Logs
<1>2. PICK x, y : /\ x = Entry(u, act, verb, thing, field) /\ x \in Rows(n, acts')
                  /\ LoggedAs(log, x, y, log', Rows(n, acts'))
  <2>1. Wrote(u, verb, thing, field)
    BY WroteIs
  <2> QED BY <2>1 DEF Wrote
<1>3. /\ x.act = act /\ x.undoes = None /\ x.verb = verb /\ x.thing = thing
      /\ x.previous = ValueBefore(show, verb, thing, field)
  BY <1>2 DEF Entry
<1>4. /\ y.act = act /\ y.undoes = None /\ y.verb = verb /\ y.thing = thing
      /\ Range(log') = {r \in Range(log) : ~SameTarget(r, x)} \cup {y}
  BY <1>2, <1>3 DEF LoggedAs
<1>5. \A s \in Range(log) : s.undoes # act /\ (s.act = act => s.undoes = None)
  BY OpenStands
<1>6. \A r \in Range(log) : r.act # None /\ r.thing \in Things
  <2>1. \A r \in Range(log) : r.act \in 1..acts /\ r.thing \in Things
    BY <1>1, KeysAre, DraftHas
  <2> QED BY <1>1, <2>1 DEF None
<1>7. ASSUME NEW r, Removes(log', r), r # y PROVE Removes(log, r)
  <2>1. r \in Range(log) /\ r.verb = "delete" /\ r.previous # Absent
    BY <1>4, <1>7 DEF Removes
  <2>2. ASSUME NEW s \in Range(log), s.undoes = r.act PROVE FALSE
    <3>1. s.act # act
      BY <1>5, <1>6, <2>1, <2>2
    <3>2. s \in Range(log')
      BY <1>3, <1>4, <3>1 DEF SameTarget
    <3> QED BY <1>7, <2>2, <3>2 DEF Removes
  <2> QED BY <2>1, <2>2 DEF Removes
<1>8. /\ \A t \in Things : t # thing => show'[t] = show[t]
      /\ verb = "delete" => show'[thing] = Absent
  <2> PICK v : v = (IF verb = "field" THEN Overlaid(Value(verb, field), show[thing])
                    ELSE Value(verb, field))
    OBVIOUS
  <2>1. show' = [show EXCEPT ![thing] = v]
    BY DEF Write, Applied
  <2>2. verb = "delete" => v = Absent
    BY DEF Value
  <2>3. DOMAIN show = Things
    BY <1>1 DEF Shows
  <2> QED BY <2>1, <2>2, <2>3
<1>9. \A r : Removes(log, r) => r \in Range(log) /\ show[r.thing] = Absent
  BY DEF GoneOnce, GoneFrom, Removes
<1>10. CASE verb = "delete"
  <2>1. ASSUME NEW r, Removes(log', r) PROVE show'[r.thing] = Absent
    <3>1. CASE r = y
      BY <1>4, <1>8, <1>10, <3>1
    <3>2. CASE r # y
      <4>1. r \in Range(log) /\ show[r.thing] = Absent
        BY <1>7, <1>9, <2>1, <3>2
      <4> QED BY <1>6, <1>8, <1>10, <4>1
    <3> QED BY <3>1, <3>2
  <2>2. ASSUME NEW s, Removes(log', s), s # y, s.thing = thing, Removes(log', y) PROVE s.act = act
    <3>1. Removes(log, s) /\ show[thing] = Absent
      BY <1>7, <1>9, <2>2
    <3>2. x.previous = Absent
      BY <1>3, <1>10, <3>1 DEF ValueBefore
    <3>3. y.previous # Absent
      BY <2>2 DEF Removes
    <3>4. PICK f \in Folded(log, x) : y.previous = f.previous
      <4> PICK V : V = Rows(n, acts')
        OBVIOUS
      <4>1. x \in V /\ log \in Seq(V)
        BY <1>2, WroteIs
      <4>2. log' = Logged(log, x)
        BY <1>2 DEF Write, Entry, ActOf
      <4>3. LoggedAs(log, x, y, Logged(log, x), V)
        BY <1>2, <4>2
      <4>4. y.previous = x.previous \/ \E f \in Folded(log, x) : y.previous = f.previous
        BY <4>1, <4>3, LoggedPrevious
      <4> QED BY <3>2, <3>3, <4>4
    <3>5. /\ f \in Range(log) /\ f.act = act /\ f.verb = "delete" /\ f.thing = thing
          /\ f.previous # Absent
      BY <1>3, <1>10, <3>3, <3>4 DEF Folded, SameTarget
    <3>6. Removes(log, f)
      BY <1>5, <3>5 DEF Removes
    <3> QED BY <2>2, <3>1, <3>5, <3>6 DEF GoneOnce, GoneFrom
  <2>3. ASSUME NEW r, NEW s, Removes(log', r), Removes(log', s), r.thing = s.thing
        PROVE  r.act = s.act
    <3>1. CASE r # y /\ s # y
      BY <1>7, <2>3, <3>1 DEF GoneOnce, GoneFrom
    <3>2. CASE r = y /\ s # y
      BY <1>4, <2>2, <2>3, <3>2
    <3>3. CASE s = y /\ r # y
      BY <1>4, <2>2, <2>3, <3>3
    <3> QED BY <3>1, <3>2, <3>3
  <2> QED BY <2>1, <2>3 DEF GoneOnce, GoneFrom
<1>11. CASE verb # "delete"
  <2>1. ASSUME NEW r, Removes(log', r) PROVE Removes(log, r) /\ r.thing # thing
    <3>1. Removes(log, r)
      <4>1. r # y
        BY <1>4, <1>11, <2>1 DEF Removes
      <4> QED BY <1>7, <2>1, <4>1
    <3>2. r \in Range(log) /\ show[r.thing] = Absent
      BY <1>9, <3>1
    <3>3. CASE verb = "create"
      <4>1. hands[thing] = {}
        BY <3>3 DEF Write
      <4>2. hands[r.thing] # {}
        BY <3>2 DEF TypeInv, Logs
      <4> QED BY <3>1, <4>1, <4>2
    <3>4. CASE verb = "field"
      <4>1. show[thing] # Absent
        BY <3>4 DEF Write, Refused
      <4> QED BY <3>1, <3>2, <4>1
    <3> QED BY <1>11, <3>3, <3>4 DEF Deed
  <2>2. ASSUME NEW r, Removes(log', r) PROVE show'[r.thing] = Absent
    <3>1. r \in Range(log) /\ show[r.thing] = Absent /\ r.thing # thing
      BY <1>9, <2>1, <2>2
    <3> QED BY <1>6, <1>8, <3>1
  <2>3. \A r, s : Removes(log', r) /\ Removes(log', s) /\ r.thing = s.thing => r.act = s.act
    BY <2>1 DEF GoneOnce, GoneFrom
  <2> QED BY <2>2, <2>3 DEF GoneOnce, GoneFrom
<1> QED BY <1>10, <1>11

\* The console writes only what is there.
LEMMA GoneConsoleWrite ==
    ASSUME TypeInv, GoneOnce, NEW thing \in Things, ConsoleWrite(thing)
    PROVE  GoneOnce'
<1> PICK n : n = size[1]
  OBVIOUS
<1>1. n \in Nat /\ acts \in Nat /\ show \in Shows(n) /\ log \in Seq(Rows(n, acts))
  BY BoundedIs DEF TypeInv, Logs
<1>2. log' = log /\ show[thing] # Absent
  BY DEF ConsoleWrite, Refused
<1>3. \A t \in Things : t # thing => show'[t] = show[t]
  <2> PICK v : v = Overlaid(Value("field", "level"), show[thing])
    OBVIOUS
  <2>1. show' = [show EXCEPT ![thing] = v]
    BY DEF ConsoleWrite, Applied
  <2>2. DOMAIN show = Things
    BY <1>1 DEF Shows
  <2> QED BY <2>1, <2>2
<1>4. ASSUME NEW r, Removes(log, r) PROVE show'[r.thing] = Absent
  <2>1. r \in Range(log) /\ show[r.thing] = Absent
    BY <1>4 DEF GoneOnce, GoneFrom, Removes
  <2>2. r.thing \in Things
    BY <1>1, <2>1, KeysAre, DraftHas
  <2> QED BY <1>2, <1>3, <2>1, <2>2
<1> QED BY <1>2, <1>4 DEF GoneOnce, GoneFrom

-----------------------------------------------------------------------------
\* What a press is about is the end of a chain: nothing reverses it yet.
LEMMA NextStands ==
    ASSUME TypeInv, Followed, Len(log) <= Depth, Chains,
           NEW u \in Users, NEW redo \in BOOLEAN, NextTo(u, redo) # None
    PROVE  \A s \in Range(log) : s.undoes # NextTo(u, redo)
<1> PICK next : next = NextTo(u, redo)
  OBVIOUS
<1>1. PICK K, by, of, deep, root, top : Told(K, by, of, deep, root, top)
  BY DEF Chains, ChainsOf, Told
<1>2. Ordered(log)
  BY DEF Chains, ChainsOf
<1>3. /\ NextToUndo(u) = IF done[u] = <<>> THEN None ELSE top[Last(done[u])]
      /\ NextToRedo(u) = IF lastly[u] = "act" \/ undone[u] = <<>> THEN None
                         ELSE top[Last(undone[u])]
  BY <1>1, <1>2, NextAre
<1>4. /\ Family(log, K, acts, presses, by, of, deep, root, top)
      /\ Piled(done[u], u, FALSE, K, by, of, deep, top)
      /\ Piled(undone[u], u, TRUE, K, by, of, deep, top)
      /\ done[u] \in Seq(1..acts) /\ undone[u] \in Seq(1..acts)
  BY <1>1, StacksHave DEF Told, Tells, UserKept, AllDone, AllUndone
<1>5. ASSUME NEW taken, NEW s, s \in Seq(1..acts), s # <<>>, Piled(s, u, taken, K, by, of, deep, top)
      PROVE  top[top[Last(s)]] = top[Last(s)]
  BY ONLY TypeInv, u \in Users, <1>4, <1>5, EndsAre
<1>6. done[u] # <<>> => top[top[Last(done[u])]] = top[Last(done[u])]
  BY ONLY <1>4, <1>5, Zenon
<1>7. undone[u] # <<>> => top[top[Last(undone[u])]] = top[Last(undone[u])]
  BY ONLY <1>4, <1>5, Zenon
<1>8. top[next] = next
  BY <1>3, <1>6, <1>7 DEF NextTo
<1> SUFFICES ASSUME NEW s \in Range(log), s.undoes = next PROVE FALSE
  OBVIOUS
<1>9. s.act \in K /\ of[s.act] = next /\ next # None
  BY <1>4 DEF Family, Keys
<1>10. top[next] # next
  BY <1>4, <1>9 DEF Family
<1> QED BY <1>8, <1>10

\* The rows of a press, and of what act is removed what it makes.
Pressed(S, s, m, u, next, n) ==
    /\ SignedAs(s, m, u, acts + 1, next, n)
    /\ Traced(S, log', show', s, m, n)
    /\ \A t \in Things : MadeBy(s, m, t)
          => \E r : Removes(log, r) /\ r.act = next /\ r.thing = t

LEMMA PressTraced ==
    ASSUME TypeInv, Followed, Len(log) <= Depth, Chains, GoneOnce,
           NEW u \in Users, NEW redo \in BOOLEAN, Press(u, redo)
    PROVE  /\ NextTo(u, redo) \in 1..acts
           /\ AfterAs(After(u, NextTo(u, redo)), u, acts + 1, NextTo(u, redo), size[1])
           /\ \E m \in Nat : \E S : Pressed(S, Signed(u, NextTo(u, redo)), m, u, NextTo(u, redo), size[1])
<1> PICK n, next : n = size[1] /\ next = NextTo(u, redo)
  OBVIOUS
<1> PICK V : V = Rows(n, acts)
  OBVIOUS
<1>1. n \in Nat /\ acts \in Nat /\ show \in Shows(n) /\ log \in Seq(V) /\ Once(log)
  BY BoundedIs DEF TypeInv, Logs
<1>2. next # None /\ log' = After(u, next).log /\ show' = After(u, next).show
  BY DEF Press, NextTo
<1>3. next \in 1..acts
  BY <1>2, NextIs
<1>4. \A s \in Range(log) : s.undoes # next
  BY <1>2, NextStands
<1>5. Recent = log
  BY <1>1, RecentIsAll
<1>6. PICK k, e : SignedBy(e, k, u, next)
  BY <1>1, <1>5, SignedPicks
<1>7. PICK m \in Nat : SignedAs(Signed(u, next), m, u, acts + 1, next, n)
  BY <1>1, <1>3, SignedIs
<1> PICK s : s = Signed(u, next)
  OBVIOUS
<1>8. ASSUME NEW i \in 1..m, s[i].verb = "create"
      PROVE  \E r : Removes(log, r) /\ r.act = next /\ r.thing = s[i].thing
  <2>1. DOMAIN s = 1..m /\ DOMAIN s = 1..k
    BY <1>6, <1>7 DEF SignedAs, SignedBy
  <2>2. i \in 1..k
    BY <2>1
  <2> PICK r, x : r = log[e[i]] /\ x = s[i]
    OBVIOUS
  <2>3. x = Inverted(r, acts + 1, next) /\ r \in Taken(u, next)
    BY <1>6, <2>2 DEF SignedBy
  <2>4. HasInverse(r) /\ r \in Range(log) /\ r.act = next
    BY <2>3 DEF Taken, Own
  <2>5. r \in V
    BY <1>1, <2>4, KeysAre
  <2>6. /\ x.thing = r.thing
        /\ x.verb = IF r.verb = "create" THEN "delete"
                    ELSE IF r.verb = "delete" THEN "create" ELSE "field"
    BY <1>1, <1>3, <2>3, <2>4, <2>5, InverseIs
  <2>7. r.verb = "delete" /\ r.previous # Absent
    BY <1>8, <2>4, <2>6 DEF HasInverse
  <2>8. Removes(log, r)
    BY <1>4, <2>4, <2>7 DEF Removes
  <2> QED BY <2>4, <2>6, <2>8
<1>9. MadeAfresh(s, m)
  <2> SUFFICES ASSUME NEW i \in 1..m, s[i].verb = "create" PROVE show[s[i].thing] = Absent
    BY DEF MadeAfresh
  <2>1. PICK r : Removes(log, r) /\ r.act = next /\ r.thing = s[i].thing
    BY <1>8
  <2> QED BY <2>1 DEF GoneOnce, GoneFrom
<1>10. PICK S : Traced(S, log', show', s, m, n)
  <2>1. \E S : Traced(S, After(u, next).log, After(u, next).show, Signed(u, next), m, n)
    BY <1>1, <1>3, <1>7, <1>9, AfterTraced
  <2> QED BY <1>2, <2>1
<1>11. ASSUME NEW t \in Things, MadeBy(s, m, t)
       PROVE  \E r : Removes(log, r) /\ r.act = next /\ r.thing = t
  BY <1>8, <1>11 DEF MadeBy
<1>12. Pressed(S, s, m, u, next, n)
  BY <1>7, <1>10, <1>11 DEF Pressed
<1>13. AfterAs(After(u, next), u, acts + 1, next, n)
  BY <1>1, <1>3, AfterIs
<1> QED BY <1>3, <1>12, <1>13

\* What a row of a press removes stays gone to the end of the press.
LEMMA StaysGone ==
    ASSUME NEW n \in Nat, NEW b \in Nat, NEW l \in Seq(Rows(n, b)), NEW now, NEW s, NEW m, NEW S,
           Traced(S, l, now, s, m, n), Len(log) \in Nat, Len(log) <= Len(l),
           NEW k \in (Len(log) + 1)..Len(l), l[k].verb = "delete", l[k].previous # Absent
    PROVE  S[k - 1][l[k].thing] # Absent /\ now[l[k].thing] = Absent /\ l[k].thing \in Things
<1> PICK p, q, r, t : p = Len(log) /\ q = Len(l) /\ r = l[k] /\ t = l[k].thing
  OBVIOUS
<1>1. /\ p \in Nat /\ q \in Nat /\ k \in Nat /\ p + 1 <= k /\ k <= q
      /\ \A j \in 1..q : l[j] \in Rows(n, b)
  BY SeqHas
<1>2. /\ S \in [p..q -> Shows(n)] /\ S[q] = now
      /\ \A j \in (p + 1)..q :
            /\ Follows(S[j - 1], l[j], S[j])
            /\ l[j].verb = "create" => \A i \in p..(j - 1) : S[i][l[j].thing] = Absent
  BY DEF Traced
<1>3. ASSUME NEW j \in (p + 1)..q
      PROVE  /\ \A x \in Things : x # l[j].thing => S[j][x] = S[j - 1][x]
             /\ l[j].verb = "delete" => S[j][l[j].thing] = Absent
                                        /\ l[j].previous = S[j - 1][l[j].thing]
             /\ l[j].verb = "field" => S[j - 1][l[j].thing] # Absent
             /\ l[j].verb \in Verbs /\ l[j].thing \in Things
  <2>1. j \in 1..q /\ j - 1 \in p..q
    BY <1>1
  <2> PICK y, before, after : y = l[j] /\ before = S[j - 1] /\ after = S[j]
    OBVIOUS
  <2>2. y \in Rows(n, b) /\ before \in Shows(n) /\ Follows(before, y, after)
    BY <1>1, <1>2, <2>1
  <2>3. y.verb \in Verbs /\ y.thing \in Things
    BY <2>2, DraftHas DEF Rows
  <2>4. /\ \A x \in Things : x # y.thing => after[x] = before[x]
        /\ y.verb = "delete" => after[y.thing] = Absent /\ y.previous = before[y.thing]
        /\ y.verb = "field" => before[y.thing] # Absent
    BY <2>2, RowChanges
  <2> QED BY <2>3, <2>4
<1>4. S[k - 1][t] # Absent /\ S[k][t] = Absent /\ t \in Things
  BY <1>3
<1> PICK d : d = q - k
  OBVIOUS
<1>5. d \in Nat
  BY <1>1
<1> DEFINE T == {i \in 0..d : S[k + i][t] = Absent}
<1>6. 0 \in T
  <2>1. k + 0 = k /\ 0 \in 0..d
    BY <1>1, <1>5
  <2> QED BY <1>4, <2>1
<1>7. ASSUME NEW i \in 1..d, i - 1 \in T PROVE i \in T
  <2> PICK j : j = k + i
    OBVIOUS
  <2>1. j \in (p + 1)..q /\ j - 1 = k + (i - 1) /\ k - 1 \in p..(j - 1) /\ i \in 0..d
    BY <1>1
  <2>2. S[j - 1][t] = Absent
    BY <1>7, <2>1
  <2>3. S[j][t] = Absent
    <3>1. CASE l[j].thing # t
      BY <1>3, <1>4, <2>1, <2>2, <3>1
    <3>2. CASE l[j].thing = t
      <4>1. l[j].verb # "create"
        BY <1>2, <1>4, <2>1, <3>2
      <4>2. l[j].verb # "field"
        BY <1>3, <2>1, <2>2, <3>2
      <4>3. l[j].verb = "delete"
        BY <1>3, <2>1, <4>1, <4>2 DEF Verbs
      <4> QED BY <1>3, <2>1, <3>2, <4>3
    <3> QED BY <3>1, <3>2
  <2> QED BY <2>1, <2>3
<1>8. d \in T
  <2> HIDE DEF T
  <2>1. 0..d \subseteq T
    BY <1>5, <1>6, <1>7, UpTo
  <2> QED BY <1>5, <2>1
<1>9. S[q][t] = Absent
  <2>1. k + d = q
    BY <1>1
  <2> QED BY <1>8, <2>1
<1> QED BY <1>2, <1>4, <1>9

\* A press removes and makes, and what it reverses no longer counts.
LEMMA GonePress ==
    ASSUME TypeInv, Followed, Len(log) <= Depth, Chains, GoneOnce,
           NEW u \in Users, NEW redo \in BOOLEAN, Press(u, redo)
    PROVE  GoneOnce'
<1> PICK n, next, b, after : /\ n = size[1] /\ next = NextTo(u, redo) /\ b = acts + 1
                             /\ after = After(u, NextTo(u, redo))
  OBVIOUS
<1>1. /\ n \in Nat /\ acts \in Nat /\ log \in Seq(Rows(n, acts)) /\ next \in 1..acts
      /\ AfterAs(after, u, b, next, n)
  BY PressTraced, BoundedIs DEF TypeInv, Logs
<1> PICK s : s = Signed(u, next)
  OBVIOUS
<1>a. PICK m \in Nat : \E S : Pressed(S, s, m, u, next, n)
  BY PressTraced
<1>2. PICK S : Pressed(S, s, m, u, next, n)
  BY <1>a
<1> PICK l, now, p, q : /\ l = after.log /\ now = after.show
                        /\ p = Len(log) /\ q = Len(after.log)
  OBVIOUS
<1>3. log' = l /\ show' = now
  BY DEF Press, NextTo
<1>4. /\ Traced(S, l, now, s, m, n)
      /\ \A t \in Things : MadeBy(s, m, t)
            => \E r : Removes(log, r) /\ r.act = next /\ r.thing = t
  BY <1>2, <1>3 DEF Pressed
<1>5. /\ l \in Seq(Rows(n, b)) /\ b \in Nat /\ p \in Nat /\ q \in Nat /\ p <= q
      /\ DOMAIN log = 1..p
      /\ \A k \in 1..p : l[k] = log[k]
      /\ \A k \in (p + 1)..q : Signature(l[k], u, b, next)
      /\ \A r \in Range(l) : \E k \in 1..q : l[k] = r
  <2>1. l \in Seq(Rows(n, b))
    BY <1>1 DEF AfterAs
  <2>2. q \in Nat /\ \A r \in Range(l) : \E k \in 1..q : l[k] = r
    BY <2>1, SeqHas
  <2>3. b \in Nat /\ p \in Nat /\ DOMAIN log = 1..p
    BY <1>1, SeqHas
  <2>4. /\ p <= q
        /\ \A k \in 1..p : l[k] = log[k]
        /\ \A k \in (p + 1)..q : Signature(l[k], u, b, next)
    BY <1>1 DEF AfterAs
  <2> QED BY <2>1, <2>2, <2>3, <2>4
<1>6. CASE l = log
  <2>1. now = show
    BY <1>4, <1>6 DEF Traced
  <2> QED BY <1>3, <1>6, <2>1 DEF GoneOnce
<1>7. CASE l # log
  <2>1. PICK z \in Range(l) : z.undoes = next
    <3>1. b \in Keys(l) /\ \A r \in Range(l) : r \in Range(log) \/ Signature(r, u, b, next)
      BY <1>1, <1>7, AfterHas
    <3>2. PICK z \in Range(l) : z.act = b
      BY <3>1 DEF Keys
    <3>3. z \notin Range(log)
      <4>1. \A r \in Range(log) : r.act \in 1..acts
        BY <1>1, KeysAre, DraftHas
      <4> QED BY <1>1, <3>2, <4>1
    <3> QED BY <3>1, <3>3 DEF Signature
  <2>2. ASSUME NEW r, Removes(l, r), r \in Range(log)
        PROVE  /\ Removes(log, r) /\ r.thing \in Things
               /\ \A k \in p..q : S[k][r.thing] = Absent
    <3>1. Range(log) \subseteq Range(l)
      BY <1>1, AfterHas
    <3>2. Removes(log, r) /\ r.act # next
      BY <2>1, <2>2, <3>1 DEF Removes
    <3>3. r.thing \in Things
      BY <1>1, <2>2, KeysAre, DraftHas
    <3>4. show[r.thing] = Absent
      BY <3>2 DEF GoneOnce, GoneFrom
    <3>5. ~MadeBy(s, m, r.thing)
      BY <1>4, <3>2, <3>3 DEF GoneOnce, GoneFrom
    <3> QED BY <1>4, <3>2, <3>3, <3>4, <3>5 DEF Traced
  <2>3. ASSUME NEW r, Removes(l, r), r \notin Range(log)
        PROVE  /\ r.act = b /\ now[r.thing] = Absent
               /\ \E k \in p..q : S[k][r.thing] # Absent
    <3>1. r \in Range(l) /\ r.verb = "delete" /\ r.previous # Absent
      BY <2>3 DEF Removes
    <3>2. PICK k \in 1..q : l[k] = r
      BY <1>5, <3>1
    <3>3. k \notin 1..p
      BY <1>5, <2>3, <3>2 DEF Range
    <3>4. k \in (p + 1)..q /\ k - 1 \in p..q
      BY <1>5, <3>2, <3>3
    <3>5. r.act = b
      BY <1>5, <3>2, <3>4 DEF Signature
    <3>6. S[k - 1][r.thing] # Absent /\ now[r.thing] = Absent
      BY <1>1, <1>4, <1>5, <3>1, <3>2, <3>4, StaysGone, SMTT(20)
    <3> QED BY <3>4, <3>5, <3>6
  <2>4. ASSUME NEW r, Removes(l, r) PROVE now[r.thing] = Absent
    <3>1. q \in p..q /\ S[q] = now
      BY <1>4, <1>5 DEF Traced
    <3> QED BY <2>2, <2>3, <2>4, <3>1
  <2>5. ASSUME NEW r, NEW t, Removes(l, r), Removes(l, t), r.thing = t.thing PROVE r.act = t.act
    <3>1. CASE r \in Range(log) /\ t \in Range(log)
      BY <2>2, <2>5, <3>1 DEF GoneOnce, GoneFrom
    <3>2. CASE r \notin Range(log) /\ t \notin Range(log)
      BY <2>3, <2>5, <3>2
    <3>3. CASE r \in Range(log) /\ t \notin Range(log)
      BY <2>2, <2>3, <2>5, <3>3
    <3>4. CASE r \notin Range(log) /\ t \in Range(log)
      BY <2>2, <2>3, <2>5, <3>4
    <3> QED BY <3>1, <3>2, <3>3, <3>4
  <2>6. GoneFrom(l, now)
    BY <2>4, <2>5 DEF GoneFrom
  <2> QED BY <1>3, <2>6 DEF GoneOnce
<1> QED BY <1>6, <1>7

\* Every step leaves gone what was removed.
LEMMA GoneOnceStep ==
    ASSUME TypeInv, Followed, Len(log) <= Depth, Chains, GoneOnce, [Next]_vars
    PROVE  GoneOnce'
<1>1. CASE UNCHANGED vars
  BY <1>1 DEF vars, GoneOnce
<1>2. ASSUME NEW u \in Users, NEW t \in Things, NEW f \in Fields, NEW keep \in BOOLEAN,
             Write(u, "field", t, f, keep)
      PROVE  GoneOnce'
  <2>1. Deed("field", f)
    BY DEF Deed
  <2> QED BY <1>2, <2>1, GoneWrite
<1>3. ASSUME NEW u \in Users, NEW t \in Things, NEW verb \in {"create", "delete"},
             NEW keep \in BOOLEAN, Write(u, verb, t, "all", keep)
      PROVE  GoneOnce'
  <2>1. Deed(verb, "all")
    BY DEF Deed
  <2> QED BY <1>3, <2>1, GoneWrite
<1>4. ASSUME NEW t \in Things, ConsoleWrite(t) PROVE GoneOnce'
  BY <1>4, GoneConsoleWrite
<1>5. ASSUME NEW u \in Users, NEW redo \in BOOLEAN, Press(u, redo) PROVE GoneOnce'
  BY <1>5, GonePress
<1> QED BY <1>1, <1>2, <1>3, <1>4, <1>5 DEF Next

-----------------------------------------------------------------------------
(***************************************************************************)
(* Right after an undo that changed something, its rows are the log's last *)
(* and lead from the show it was pressed on to the one there is, and it is *)
(* what its user's redo is about.                                          *)
(***************************************************************************)
Came ==
    last.user # Nobody => \E S, p : Trail(S, p, acts, last.user, last.show, size[1])

Ended ==
    last.user # Nobody => Ending(log, acts, presses, done, undone, open, lastly, last.user, acts)

JustUndone == Came /\ Ended

\* An undo that changed something.
LEMMA UndoCame ==
    ASSUME TypeInv, Followed, ~Late, Len(log) <= Depth, Chains, GoneOnce,
           NEW u \in Users, Press(u, FALSE), log' # log
    PROVE  Came' /\ Ended'
<1> PICK redo \in BOOLEAN : redo = FALSE
  OBVIOUS
<1> PICK n, next, b, after : /\ n = size[1] /\ next = NextTo(u, redo) /\ b = acts + 1
                             /\ after = After(u, NextTo(u, redo))
  OBVIOUS
<1>0. Press(u, redo)
  OBVIOUS
<1>1. /\ n \in Nat /\ acts \in Nat /\ presses \in Nat /\ log \in Seq(Rows(n, acts))
      /\ next \in 1..acts /\ AfterAs(after, u, b, next, n)
      /\ open \in [Users -> 0..acts] /\ lastly \in [Users -> Pressing]
      /\ done \in [Users -> Seq(1..acts)] /\ undone \in [Users -> Seq(1..acts)]
  BY <1>0, PressTraced, BoundedIs DEF TypeInv, Logs, Histories
<1> PICK s : s = Signed(u, next)
  OBVIOUS
<1>a. PICK m \in Nat : \E S : Pressed(S, s, m, u, next, n)
  BY <1>0, PressTraced
<1>2. PICK S : Pressed(S, s, m, u, next, n)
  BY <1>a
<1>3. /\ log' = after.log /\ size' = size /\ acts' = b /\ last' = [user |-> u, show |-> show]
      /\ lastly' = [lastly EXCEPT ![u] = "undo"]
  <2>1. log' = after.log
    BY <1>0 DEF Press, NextTo
  <2>2. NextTo(u, redo) = NextToUndo(u)
    BY DEF NextTo
  <2>3. after.log # log
    BY <2>1
  <2> QED BY <1>0, <2>1, <2>2, <2>3 DEF Press
<1>4. Came'
  <2> PICK p, q, from : p = Len(log) /\ q = Len(log') /\ from = show
    OBVIOUS
  <2>1. /\ p \in Nat /\ q \in Nat /\ p <= q
        /\ \A k \in 1..p : log'[k] = log[k] /\ log[k].act \in 1..acts
        /\ \A k \in (p + 1)..q : Signature(log'[k], u, b, next)
    <3> PICK l : l = after.log
      OBVIOUS
    <3>1. l \in Seq(Rows(n, b))
      BY <1>1 DEF AfterAs
    <3>2. q \in Nat
      BY <1>3, <3>1, SeqHas
    <3>3. ASSUME NEW k \in 1..p PROVE log[k].act \in 1..acts
      <4> PICK r : r = log[k]
        OBVIOUS
      <4>1. r \in Drafts(n, acts)
        BY <1>1, SeqHas DEF Rows
      <4> QED BY <1>1, <4>1, DraftHas
    <3> QED BY <1>1, <1>3, <3>2, <3>3, SeqHas DEF AfterAs
  <2>2. Traced(S, log', show', s, m, n)
    BY <1>2 DEF Pressed
  <2>3. /\ p \in 0..q /\ S \in [p..q -> Shows(n)] /\ S[p] = from /\ S[q] = show'
        /\ \A k \in (p + 1)..q :
              /\ Follows(S[k - 1], log'[k], S[k])
              /\ log'[k].verb = "create" => \A j \in p..(k - 1) : S[j][log'[k].thing] = Absent
    BY <2>1, <2>2 DEF Traced
  <2>4. \A k \in 1..p : log'[k].act # b
    BY <1>1, <2>1
  <2>5. \A k \in (p + 1)..q : log'[k].act = b /\ log'[k].user = u
    BY <2>1 DEF Signature
  <2>6. Trail(S, p, b, u, from, n)'
    BY <2>3, <2>4, <2>5 DEF Trail
  <2>7. last'.user = u /\ last'.show = from /\ size'[1] = n
    BY <1>3
  <2> QED BY <1>3, <2>6, <2>7 DEF Came
<1>5. Ended'
  <2>1. Ordered(log) /\ ChainsOf(log, acts, presses, done, undone, open, lastly)
    BY DEF Chains, ChainsOf
  <2>2. /\ presses' = presses + 1 /\ open' = open /\ open[u] = None
        /\ Grown(log, log', b, u, next) /\ Ordered(log')
    BY <1>0, <2>1, PressKeeps
  <2>3. PICK K, by, of, deep, root, top :
            Tells(log, acts, presses, done, undone, open, lastly, K, by, of, deep, root, top)
    BY <2>1 DEF ChainsOf
  <2>4. Told(K, by, of, deep, root, top)
    BY <2>3 DEF Told
  <2>5. K \subseteq 1..acts
    <3>1. K = Keys(log)
      BY <2>3 DEF Tells, Family
    <3> QED BY <1>1, <3>1, KeysAre
  <2>6. Undid(u, next, top)
    <3>1. Undid(u, next, top) \/ Redid(u, next, top)
      BY <1>0, <2>1, <2>4, PressIs
    <3>2. ~Redid(u, next, top)
      BY <1>1, <1>3 DEF Redid
    <3> QED BY <3>1, <3>2
  <2>7. /\ acts \in Nat /\ presses \in Nat
        /\ done \in [Users -> Seq(1..acts)] /\ undone \in [Users -> Seq(1..acts)]
        /\ open \in [Users -> 0..acts] /\ lastly \in [Users -> Pressing]
        /\ u \in Users /\ b = acts + 1 /\ open[u] = None /\ "undo" \in {"undo", "redo"}
    BY <1>1, <2>2
  <2>8. done[u] # <<>> /\ Grown(log, log', b, u, top[Last(done[u])]) /\ Ordered(log')
    BY <2>2, <2>6 DEF Undid
  <2>9. Ending(log', acts + 1, presses + 1, [done EXCEPT ![u] = Front(@)],
               [undone EXCEPT ![u] = Append(@, Last(done[u]))], open,
               [lastly EXCEPT ![u] = "undo"], u, b)
    BY ONLY <2>3, <2>5, <2>7, <2>8, ChainsUndo
  <2>10. Ending(log', acts', presses', done', undone', open', lastly', u, acts')
    BY <1>3, <2>2, <2>6, <2>9 DEF Undid
  <2>11. last'.user = u
    BY <1>3
  <2> QED BY <2>10, <2>11 DEF Ended
<1> QED BY <1>4, <1>5

\* Every other step leaves it to nobody.
LEMMA JustUndoneStep ==
    ASSUME TypeInv, Followed, ~Late, Len(log) <= Depth, Chains, GoneOnce, JustUndone, [Next]_vars
    PROVE  JustUndone'
<1>1. CASE UNCHANGED vars
  BY <1>1 DEF vars, JustUndone, Came, Ended, Trail
<1>2. CASE last'.user = Nobody
  BY <1>2 DEF JustUndone, Came, Ended
<1>3. ASSUME NEW u \in Users, NEW redo \in BOOLEAN, Press(u, redo) PROVE JustUndone'
  <2>1. CASE redo \/ log' = log
    <3> PICK after : after = After(u, NextTo(u, redo))
      OBVIOUS
    <3>1. log' = after.log
      BY <1>3 DEF Press, NextTo
    <3>2. last' = [user |-> IF redo \/ after.log = log THEN Nobody ELSE u, show |-> show]
      BY <1>3 DEF Press, NextTo
    <3>3. last'.user = Nobody
      BY <2>1, <3>1, <3>2
    <3> QED BY <1>2, <3>3
  <2>2. CASE ~redo /\ log' # log
    <3>1. Press(u, FALSE)
      <4>1. redo = FALSE
        BY <2>2
      <4> QED BY <1>3, <4>1
    <3> QED BY <2>2, <3>1, UndoCame DEF JustUndone
  <2> QED BY <2>1, <2>2
<1>4. ASSUME NEW u, NEW t, NEW verb, NEW f, NEW keep, Write(u, verb, t, f, keep)
      PROVE  JustUndone'
  <2>1. last'.user = Nobody
    BY <1>4 DEF Write
  <2> QED BY <1>2, <2>1
<1>5. ASSUME NEW t \in Things, ConsoleWrite(t) PROVE JustUndone'
  <2>1. last'.user = Nobody
    BY <1>5 DEF ConsoleWrite
  <2> QED BY <1>2, <2>1
<1> QED BY <1>1, <1>3, <1>4, <1>5 DEF Next

\* A redo pressed right after an undo.
BackStep == \A u \in Users : last.user = u /\ Press(u, TRUE) => show' = last.show

\* It reverses that undo, and all that the undo wrote is taken back to before it.
LEMMA GivesBack ==
    ASSUME TypeInv, Followed, Len(log) <= Depth, Chains, JustUndone
    PROVE  BackStep
<1> SUFFICES ASSUME NEW u \in Users, last.user = u, Press(u, TRUE) PROVE show' = last.show
  BY DEF BackStep
<1> PICK n : n = size[1]
  OBVIOUS
<1>1. n \in Nat /\ acts \in Nat /\ show \in Shows(n) /\ log \in Seq(Rows(n, acts)) /\ Once(log)
  BY BoundedIs DEF TypeInv, Logs
<1>2. u # Nobody
  BY NobodyAssumption
<1>3. PICK S, p : Trail(S, p, acts, u, last.show, n)
  BY <1>2 DEF JustUndone, Came
<1>4. Ending(log, acts, presses, done, undone, open, lastly, u, acts)
  BY <1>2 DEF JustUndone, Ended
<1>5. PICK K, by, of, deep, root, top :
          /\ Tells(log, acts, presses, done, undone, open, lastly, K, by, of, deep, root, top)
          /\ top[Last(undone[u])] = acts
  BY <1>4 DEF Ending
<1>6. Told(K, by, of, deep, root, top)
  BY <1>5 DEF Told
<1>7. NextToRedo(u) # None /\ show' = After(u, NextToRedo(u)).show
  BY DEF Press
<1>8. NextToRedo(u) = acts
  <2>1. NextToRedo(u) = IF lastly[u] = "act" \/ undone[u] = <<>> THEN None
                        ELSE top[Last(undone[u])]
    BY <1>6, NextAre DEF Chains, ChainsOf
  <2> QED BY <1>5, <1>7, <2>1
<1>9. acts \in 1..acts
  BY <1>1, <1>7, <1>8 DEF None
<1>10. Recent = log
  BY <1>1, RecentIsAll
<1>11. After(u, acts).show = last.show
  BY <1>1, <1>3, <1>9, <1>10, GivenBack
<1> QED BY <1>7, <1>8, <1>11

\* Whatever others had done to the same rows, a redo pressed right after an undo
\* gives back the show that the undo was pressed on.
THEOREM RedoPutsBack ==
    ASSUME ~Late, Followed PROVE Spec /\ [](Len(log) <= Depth) => RedoGivesBack
<1>1. Init => TypeInv /\ Kept
  BY TypeInit, ChainsInit DEF Kept
<1>2. TypeInv /\ Kept /\ [Next]_vars => (TypeInv /\ Kept)'
  BY TypeStep, KeptStep
<1>3. Init => GoneOnce /\ JustUndone
  <2>1. Init => JustUndone
    BY DEF Init, NoPress, JustUndone, Came, Ended
  <2> QED BY <2>1, GoneInit
<1>4. TypeInv /\ Kept /\ Len(log) <= Depth /\ GoneOnce /\ JustUndone /\ [Next]_vars
        => (GoneOnce /\ JustUndone)'
  BY GoneOnceStep, JustUndoneStep DEF Kept
<1>5. TypeInv /\ Kept /\ Len(log) <= Depth /\ JustUndone => BackStep
  BY GivesBack DEF Kept
<1>6. TypeInv /\ Kept /\ Len(log) <= Depth /\ JustUndone /\ [Next]_vars => [BackStep]_vars
  BY <1>5
<1> QED BY <1>1, <1>2, <1>3, <1>4, <1>6, PTL DEF Spec, RedoGivesBack, BackStep

=============================================================================
