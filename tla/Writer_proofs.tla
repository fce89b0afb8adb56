---------------------------- MODULE Writer_proofs ----------------------------
(***************************************************************************)
(* For any rows, any number of writes, any failures of groups and any      *)
(* crashes: nobody, client or peer, is told of a write the disk of the     *)
(* station that made it may still lose.                                    *)
(***************************************************************************)
EXTENDS Writer, Library_proofs, SequenceTheorems, FiniteSetTheorems

-----------------------------------------------------------------------------
(***************************************************************************)
(* What a command submits: its row first, if it writes one, and then,      *)
(* unless a tick made it, its row in the log.                              *)
(***************************************************************************)
Kinds == {"create", "replace", "delete", "tempo"}

Has(s, job) == \E j \in Range(s) : j.job = job

\* What makes the row and its place in the collection.
Bodies == {"upsert", "append", "order"}

\* What may come after a job: never the same again, never the row, and of its body
\* nothing once something else was submitted.
Goes(a, b) == a # b /\ b # "upsert" /\ (b \in Bodies => a \in Bodies)

\* What a write n of a row r submits.
Submission(s, n, r) ==
    /\ IsSeq(s)
    /\ \A j \in Range(s) : j.ver = n /\ j.row = r /\ j.job \in JobKinds
    /\ \A i, k \in DOMAIN s : i < k => Goes(s[i].job, s[k].job)

LEMMA One ==
    ASSUME NEW n, NEW r, NEW ids, NEW job \in JobKinds
    PROVE  LET s == <<Job(job, n, r, ids)>>
           IN  /\ Submission(s, n, r) /\ s # <<>>
               /\ \A x : Has(s, x) <=> x = job
<1> DEFINE j == Job(job, n, r, ids)
<1>1. j.job = job /\ j.ver = n /\ j.row = r
  BY DEF Job
<1> HIDE DEF j
<1>2. <<j>> \in Seq({j}) /\ Range(<<j>>) = {j} /\ DOMAIN <<j>> = 1 .. 1 /\ <<j>> # <<>>
  BY DEF Range
<1>3. \A i, k \in 1 .. 1 : ~(i < k)
  OBVIOUS
<1>4. Submission(<<j>>, n, r)
  BY <1>1, <1>2, <1>3 DEF Submission, IsSeq
<1>5. \A x : Has(<<j>>, x) <=> x = job
  BY <1>1, <1>2 DEF Has
<1> QED BY <1>2, <1>4, <1>5 DEF j

LEMMA None ==
    ASSUME NEW n, NEW r
    PROVE  Submission(<<>>, n, r) /\ \A x : ~Has(<<>>, x)
BY NothingIsSeq DEF Submission, Has, Range

LEMMA Pair ==
    ASSUME NEW x, NEW y
    PROVE  <<x, y>> = <<x>> \o <<y>>
<1>1. <<x>> \in Seq({x, y}) /\ <<y>> \in Seq({x, y}) /\ <<x, y>> \in Seq({x, y})
  OBVIOUS
<1>2. Len(<<x>>) = 1 /\ Len(<<y>>) = 1 /\ Len(<<x, y>>) = 2
  OBVIOUS
<1>3. /\ <<x>> \o <<y>> \in Seq({x, y}) /\ Len(<<x>> \o <<y>>) = 2
      /\ \A i \in 1 .. 2 : (<<x>> \o <<y>>)[i] = IF i <= 1 THEN <<x>>[i] ELSE <<y>>[i - 1]
  BY <1>1, <1>2, ConcatProperties
<1>4. (<<x>> \o <<y>>)[1] = <<x, y>>[1] /\ (<<x>> \o <<y>>)[2] = <<x, y>>[2]
  BY <1>3
<1>5. \A i \in 1 .. 2 : (<<x>> \o <<y>>)[i] = <<x, y>>[i]
  BY <1>4
<1> QED BY <1>1, <1>2, <1>3, <1>5, SeqEqual

LEMMA Then ==
    ASSUME NEW n, NEW r, NEW s, Submission(s, n, r), NEW t, Submission(t, n, r),
           \A x, y : Has(s, x) /\ Has(t, y) => Goes(x, y)
    PROVE  /\ Submission(s \o t, n, r)
           /\ \A x : Has(s \o t, x) <=> Has(s, x) \/ Has(t, x)
<1>1. IsSeq(s) /\ IsSeq(t) /\ IsSeq(s \o t)
  BY ConcatSeq DEF Submission
<1>2. Range(s \o t) = Range(s) \cup Range(t)
  BY <1>1, RangeOfConcat
<1>3. ASSUME NEW i \in DOMAIN (s \o t), NEW k \in DOMAIN (s \o t), i < k
      PROVE  Goes((s \o t)[i].job, (s \o t)[k].job)
  <2>1. /\ Len(s) \in Nat /\ DOMAIN s = 1 .. Len(s) /\ DOMAIN t = 1 .. Len(t)
        /\ i \in Nat /\ k \in Nat
    BY <1>1, SeqDomain
  <2>2. CASE i \in DOMAIN s /\ k \in DOMAIN s
    BY <1>1, <1>3, <2>2, ConcatSeq DEF Submission
  <2>3. CASE i \in DOMAIN s /\ k \notin DOMAIN s
    <3>1. (s \o t)[i] = s[i] /\ k - Len(s) \in DOMAIN t /\ (s \o t)[k] = t[k - Len(s)]
      BY <1>1, <2>3, ConcatSeq
    <3>2. Has(s, s[i].job) /\ Has(t, t[k - Len(s)].job)
      BY <2>3, <3>1 DEF Has, Range
    <3> QED BY <3>1, <3>2
  <2>4. CASE i \notin DOMAIN s
    <3>1. i > Len(s) /\ k \notin DOMAIN s
      <4>1. i >= 1
        BY <1>1, SeqDomain
      <4> QED BY <1>3, <2>1, <2>4, <4>1
    <3>2. /\ i - Len(s) \in DOMAIN t /\ (s \o t)[i] = t[i - Len(s)]
          /\ k - Len(s) \in DOMAIN t /\ (s \o t)[k] = t[k - Len(s)]
      BY <1>1, <2>4, <3>1, ConcatSeq
    <3>3. i - Len(s) < k - Len(s)
      BY <1>3, <2>1
    <3> QED BY <3>2, <3>3 DEF Submission
  <2> QED BY <2>2, <2>3, <2>4
<1>4. Submission(s \o t, n, r)
  BY <1>1, <1>2, <1>3 DEF Submission
<1> QED BY <1>2, <1>4 DEF Has

LEMMA Later ==
    ASSUME NEW n, NEW r, NEW s, Submission(s, n, r), s # <<>>
    PROVE  /\ Submission(Tail(s), n, r)
           /\ Range(s) = {Head(s)} \cup Range(Tail(s))
           /\ \A j \in Range(Tail(s)) : Goes(Head(s).job, j.job)
<1>1. IsSeq(s) /\ IsSeq(Tail(s)) /\ Range(s) = {Head(s)} \cup Range(Tail(s))
  BY TailSeq, RangeOfTail DEF Submission
<1>2. /\ Head(s) = s[1] /\ 1 \in DOMAIN s /\ DOMAIN Tail(s) \subseteq Nat \ {0}
      /\ \A i \in DOMAIN Tail(s) : i + 1 \in DOMAIN s /\ Tail(s)[i] = s[i + 1]
  <2>1. DOMAIN Tail(s) = 1 .. Len(Tail(s)) /\ Len(Tail(s)) \in Nat
    BY <1>1, SeqDomain
  <2> QED BY <1>1, <2>1, TailSeq
<1>3. ASSUME NEW i \in DOMAIN Tail(s), NEW k \in DOMAIN Tail(s), i < k
      PROVE  Goes(Tail(s)[i].job, Tail(s)[k].job)
  <2>1. i + 1 < k + 1
    BY <1>2, <1>3
  <2> QED BY <1>2, <2>1 DEF Submission
<1>4. ASSUME NEW j \in Range(Tail(s)) PROVE Goes(Head(s).job, j.job)
  <2>1. PICK i \in DOMAIN Tail(s) : j = Tail(s)[i]
    BY DEF Range
  <2>2. 1 < i + 1
    BY <1>2
  <2> QED BY <1>2, <2>1, <2>2 DEF Submission
<1> QED BY <1>1, <1>3, <1>4 DEF Submission

LEMMA JobsInOrder ==
    ASSUME NEW kind \in Kinds, NEW from, NEW n, NEW r, NEW ids
    PROVE  /\ Submission(Jobs(kind, from, n, r, ids), n, r)
           /\ Has(Jobs(kind, from, n, r, ids), "upsert") <=> kind # "delete"
           /\ Has(Jobs(kind, from, n, r, ids), "append") <=> kind = "create"
           /\ Has(Jobs(kind, from, n, r, ids), "order") <=> kind = "delete"
           /\ Has(Jobs(kind, from, n, r, ids), "log") <=> kind # "tempo"
<1> DEFINE one == <<Job("upsert", n, r, <<>>)>>
           two == <<Job("append", n, r, <<>>)>>
           order == <<Job("order", n, r, ids)>>
           body == CASE kind = "create" -> <<Job("upsert", n, r, <<>>), Job("append", n, r, <<>>)>>
                     [] kind = "delete" -> order
                     [] OTHER -> one
           log == IF kind = "tempo" THEN <<>> ELSE <<Job("log", n, r, <<>>)>>
           copy == Checkpoint(kind, from, n, r)
<1>1. Jobs(kind, from, n, r, ids) \in {body \o log \o copy, body \o copy \o log}
  BY DEF Jobs
<1>2. Submission(log, n, r) /\ \A x : Has(log, x) <=> x = "log" /\ kind # "tempo"
  BY None, One DEF JobKinds
<1>3. Submission(copy, n, r) /\ \A x : Has(copy, x) => x \in {"barrier", "forget"}
  <2>1. copy \in {<<>>, <<Job("barrier", n, r, <<>>)>>, <<Job("forget", n, r, <<>>)>>}
    BY DEF Checkpoint, Kinds
  <2> HIDE DEF copy
  <2> QED BY <2>1, None, One DEF JobKinds
<1>4. /\ Submission(body, n, r)
      /\ \A x : Has(body, x) <=>
             (x = "upsert" /\ kind # "delete") \/ (x = "append" /\ kind = "create")
             \/ (x = "order" /\ kind = "delete")
  <2>1. /\ Submission(one, n, r) /\ \A x : Has(one, x) <=> x = "upsert"
        /\ Submission(two, n, r) /\ \A x : Has(two, x) <=> x = "append"
        /\ Submission(order, n, r) /\ \A x : Has(order, x) <=> x = "order"
    BY One DEF JobKinds
  <2>2. <<Job("upsert", n, r, <<>>), Job("append", n, r, <<>>)>> = one \o two
    BY Pair
  <2>3. \/ body = one \o two /\ kind = "create"
        \/ body = order /\ kind = "delete"
        \/ body = one /\ kind \notin {"create", "delete"}
    BY <2>2 DEF Kinds
  <2> HIDE DEF one, two, order, body
  <2>4. /\ Submission(one \o two, n, r)
        /\ \A x : Has(one \o two, x) <=> x = "upsert" \/ x = "append"
    BY <2>1, Then DEF Goes, Bodies
  <2>5. CASE body = one \o two /\ kind = "create"
    BY <2>4, <2>5
  <2>6. CASE body = order /\ kind = "delete"
    BY <2>1, <2>6
  <2>7. CASE body = one /\ kind \notin {"create", "delete"}
    BY <2>1, <2>7
  <2> QED BY <2>3, <2>5, <2>6, <2>7
<1> HIDE DEF body, log, copy
<1>5. ASSUME NEW t, NEW u, {t, u} = {log, copy}, Jobs(kind, from, n, r, ids) = body \o t \o u
      PROVE  /\ Submission(Jobs(kind, from, n, r, ids), n, r)
             /\ \A x : Has(Jobs(kind, from, n, r, ids), x)
                       <=> Has(body, x) \/ Has(log, x) \/ Has(copy, x)
  <2>0. (t = log /\ u = copy) \/ (t = copy /\ u = log)
    BY <1>5
  <2>1. /\ Submission(body \o t, n, r)
        /\ \A x : Has(body \o t, x) <=> Has(body, x) \/ Has(t, x)
    <3>1. Submission(t, n, r) /\ \A x, y : Has(body, x) /\ Has(t, y) => Goes(x, y)
      BY <1>2, <1>3, <1>4, <2>0 DEF Goes, Bodies
    <3> QED BY <1>4, <3>1, Then
  <2>2. /\ Submission((body \o t) \o u, n, r)
        /\ \A x : Has((body \o t) \o u, x) <=> Has(body \o t, x) \/ Has(u, x)
    <3>1. Submission(u, n, r) /\ \A x, y : Has(body \o t, x) /\ Has(u, y) => Goes(x, y)
      BY <1>2, <1>3, <1>4, <2>0, <2>1 DEF Goes, Bodies
    <3> QED BY <2>1, <3>1, Then
  <2> QED BY <1>5, <2>0, <2>1, <2>2
<1>6. /\ Submission(Jobs(kind, from, n, r, ids), n, r)
      /\ \A x : Has(Jobs(kind, from, n, r, ids), x)
                <=> Has(body, x) \/ Has(log, x) \/ Has(copy, x)
  BY <1>1, <1>5
<1> QED BY <1>2, <1>3, <1>4, <1>6

LEMMA JobsSay ==
    ASSUME NEW kind \in Kinds, NEW from, NEW n, NEW r, NEW ids
    PROVE  \A j \in Range(Jobs(kind, from, n, r, ids)) :
              /\ j.job = "order" => j.ids = ids
              /\ j.job \in {"barrier", "forget"} => r \in Versions
<1> DEFINE body == CASE kind = "create" -> <<Job("upsert", n, r, <<>>), Job("append", n, r, <<>>)>>
                     [] kind = "delete" -> <<Job("order", n, r, ids)>>
                     [] OTHER -> <<Job("upsert", n, r, <<>>)>>
           log == IF kind = "tempo" THEN <<>> ELSE <<Job("log", n, r, <<>>)>>
           copy == Checkpoint(kind, from, n, r)
<1> PICK G : G = {Job(job, n, r, <<>>) : job \in {"upsert", "append", "log"}}
                 \cup {Job("order", n, r, ids)}
                 \cup {Job(job, n, r, <<>>) : job \in {x \in {"barrier", "forget"} : r \in Versions}}
  OBVIOUS
<1>1. \A j \in G : /\ j.job = "order" => j.ids = ids
                   /\ j.job \in {"barrier", "forget"} => r \in Versions
  BY DEF Job
<1>2. /\ Job("upsert", n, r, <<>>) \in G /\ Job("append", n, r, <<>>) \in G
      /\ Job("log", n, r, <<>>) \in G /\ Job("order", n, r, ids) \in G
      /\ r \in Versions => Job("barrier", n, r, <<>>) \in G /\ Job("forget", n, r, <<>>) \in G
  OBVIOUS
<1>3. body \in Seq(G) /\ log \in Seq(G) /\ copy \in Seq(G)
  <2>1. \A x \in G, y \in G : <<x>> \in Seq(G) /\ <<x, y>> \in Seq(G) /\ <<>> \in Seq(G)
    OBVIOUS
  <2>2. /\ body \in {<<Job("upsert", n, r, <<>>), Job("append", n, r, <<>>)>>,
                      <<Job("order", n, r, ids)>>, <<Job("upsert", n, r, <<>>)>>}
        /\ log \in {<<>>, <<Job("log", n, r, <<>>)>>}
    BY DEF Kinds
  <2>3. \/ copy = <<>>
        \/ r \in Versions /\ copy \in {<<Job("barrier", n, r, <<>>)>>, <<Job("forget", n, r, <<>>)>>}
    BY DEF Checkpoint, Kinds
  <2> HIDE DEF body, log, copy
  <2> QED BY <1>2, <2>1, <2>2, <2>3
<1>4. Jobs(kind, from, n, r, ids) \in {body \o log \o copy, body \o copy \o log}
  BY DEF Jobs
<1>5. Jobs(kind, from, n, r, ids) \in Seq(G)
  <2> HIDE DEF body, log, copy
  <2>1. (body \o log) \o copy \in Seq(G) /\ (body \o copy) \o log \in Seq(G)
    BY <1>3
  <2> QED BY <1>4, <2>1
<1>6. Range(Jobs(kind, from, n, r, ids)) \subseteq G
  <2> PICK s \in Seq(G) : s = Jobs(kind, from, n, r, ids)
    BY <1>5
  <2>1. \A i \in DOMAIN s : s[i] \in G
    BY LenProperties, ElementOfSeq
  <2> QED BY <2>1 DEF Range
<1> QED BY <1>1, <1>6

-----------------------------------------------------------------------------
(***************************************************************************)
(* The places a group gives: the order stays one, and rows that were not   *)
(* in it come after those that were.                                       *)
(***************************************************************************)
PlacedRun(run, order, batch, n) ==
    /\ run[0] = order /\ run[n] = FoldLeft(Placed, order, batch)
    /\ \A i \in 1..n : run[i] = Placed(run[i - 1], batch[i])

LEMMA PlacedRuns ==
    ASSUME NEW V, NEW order \in V, NEW batch, NEW n \in Nat, DOMAIN batch = 1..n,
           \A i \in 1..n, s \in V : Placed(s, batch[i]) \in V
    PROVE  \E run \in [0..n -> V] : PlacedRun(run, order, batch, n)
<1>0. PICK F : F = [i \in 1..n |-> [x \in V |-> Placed(x, batch[i])]]
  OBVIOUS
<1>2. F \in [1..n -> [V -> V]]
  BY <1>0
<1>4. PICK g \in [SUBSET (1..n) -> V] : Solves(g, F, order, n)
  BY <1>2, FoldHasSolution
<1> DEFINE Body(h) == [T \in SUBSET (1..n) |->
                IF T = {} THEN order ELSE Placed(h[T \ {Max(T)}], batch[Max(T)])]
<1>5. ASSUME NEW T \in SUBSET (1..n), T # {} PROVE Max(T) \in 1..n /\ T \ {Max(T)} \in SUBSET (1..n)
  <2>1. T \in SUBSET Nat /\ T # {} /\ \A i \in T : i <= n
    BY <1>5
  <2>2. Max(T) \in T
    BY <2>1, MaxBounds
  <2> QED BY <2>2
<1>6. g = Body(g)
  <2>1. ASSUME NEW T \in SUBSET (1..n), T # {}
        PROVE  F[Max(T)][g[T \ {Max(T)}]] = Placed(g[T \ {Max(T)}], batch[Max(T)])
    BY <1>0, <1>5, <2>1
  <2>2. g = [T \in SUBSET (1..n) |-> g[T]]
    OBVIOUS
  <2>3. \A T \in SUBSET (1..n) :
            g[T] = IF T = {} THEN order ELSE F[Max(T)][g[T \ {Max(T)}]]
    BY <1>4 DEF Solves
  <2>4. \A T \in SUBSET (1..n) :
            g[T] = IF T = {} THEN order ELSE Placed(g[T \ {Max(T)}], batch[Max(T)])
    BY <2>1, <2>3
  <2> QED BY <2>2, <2>4
<1> PICK h : h = (CHOOSE f : f = Body(f))
  OBVIOUS
<1>7. h = Body(h)
  BY <1>6
<1>8. FoldLeft(Placed, order, batch) = h[1..n]
  <2>1. FoldLeft(Placed, order, batch) =
          (CHOOSE f : f = [T \in SUBSET DOMAIN batch |->
              IF T = {} THEN order
              ELSE Placed(f[T \ {Max(T)}], batch[Max(T)])])[DOMAIN batch]
    BY Zenon DEF FoldLeft, MapThenFoldSet
  <2> QED BY <2>1, Zenon
<1>9. FoldedBy(h, F, order, n, V)
  <2>1. h[{}] = order
    BY <1>7
  <2>2. ASSUME NEW T \in SUBSET (1..n), T # {}, h[T \ {Max(T)}] \in V
        PROVE  h[T] = F[Max(T)][h[T \ {Max(T)}]]
    <3>1. h[T] = Placed(h[T \ {Max(T)}], batch[Max(T)])
      BY <1>7, <2>2
    <3> QED BY <1>0, <1>5, <2>2, <3>1
  <2> QED BY <2>1, <2>2 DEF FoldedBy
<1> HIDE DEF Body
<1>10. n \in Nat /\ order \in V
  OBVIOUS
<1>11. \E run \in [0..n -> V] : Runs(run, F, order, n, h[1..n])
  BY ONLY <1>2, <1>9, <1>10, FoldRuns
<1>12. PICK run \in [0..n -> V] : Runs(run, F, order, n, h[1..n])
  BY <1>11
<1>13. \A i \in 1..n : run[i] = Placed(run[i - 1], batch[i])
  <2> SUFFICES ASSUME NEW i \in 1..n PROVE run[i] = Placed(run[i - 1], batch[i])
    OBVIOUS
  <2>1. i - 1 \in 0..n
    OBVIOUS
  <2>2. run[i - 1] \in V
    BY <2>1
  <2>3. run[i] = F[i][run[i - 1]]
    BY <1>12 DEF Runs
  <2> QED BY <1>0, <2>2, <2>3
<1>14. PlacedRun(run, order, batch, n)
  BY <1>8, <1>12, <1>13 DEF PlacedRun, Runs
<1> QED BY <1>14

LEMMA PlacedKeeps ==
    ASSUME NEW order \in Seq(Rows), IsInjective(order), NEW batch, IsSeq(batch),
           \A j \in Range(batch) : j.row \in Rows
    PROVE  /\ FoldLeft(Placed, order, batch) \in Seq(Rows)
           /\ IsInjective(FoldLeft(Placed, order, batch))
<1> PICK n : n = Len(batch)
  OBVIOUS
<1>1. n \in Nat /\ DOMAIN batch = 1..n
  BY SeqDomain
<1> DEFINE V == {s \in Seq(Rows) : IsInjective(s)}
<1>2. ASSUME NEW i \in 1..n, NEW s \in V PROVE Placed(s, batch[i]) \in V
  <2> PICK r \in Rows : r = batch[i].row
    BY <1>1 DEF Range
  <2> PICK t : t = Among(Rows \ {r}, s)
    OBVIOUS
  <2>1. t \in Seq(Rows) /\ Range(t) = Range(s) \cap (Rows \ {r}) /\ IsInjective(t)
    BY AmongHas
  <2>2. r \notin Range(t)
    BY <2>1
  <2>3. Append(t, r) \in Seq(Rows)
    BY <2>1
  <2>4. PICK a \in Seq(Rows) : a = Append(t, r)
    BY <2>3
  <2>5. IsInjective(a)
    BY <2>1, <2>2, <2>4, OnceMore
  <2>6. Placed(s, batch[i]) \in {a, s}
    BY <2>4 DEF Placed
  <2> QED BY <2>5, <2>6
<1> HIDE DEF V
<1>3. order \in V
  BY DEF V
<1>4. PICK run \in [0..n -> V] : PlacedRun(run, order, batch, n)
  BY <1>1, <1>2, <1>3, PlacedRuns
<1>5. run[n] \in V /\ run[n] = FoldLeft(Placed, order, batch)
  BY <1>1, <1>4 DEF PlacedRun
<1> QED BY <1>5 DEF V

LEMMA PlacedNone ==
    ASSUME NEW order, NEW batch, IsSeq(batch), \A j \in Range(batch) : j.job # "append"
    PROVE  FoldLeft(Placed, order, batch) = order
<1> PICK n : n = Len(batch)
  OBVIOUS
<1> PICK V : V = {order}
  OBVIOUS
<1>1. n \in Nat /\ DOMAIN batch = 1..n
  BY SeqDomain
<1>2. ASSUME NEW i \in 1..n, NEW s \in V PROVE Placed(s, batch[i]) \in V
  BY <1>1 DEF Placed, Range
<1>3. \E run \in [0..n -> V] : PlacedRun(run, order, batch, n)
  BY <1>1, <1>2, PlacedRuns
<1> QED BY <1>1, <1>3 DEF PlacedRun

LEMMA PlacedLast ==
    ASSUME NEW order \in Seq(Rows), NEW r \in Rows, r \notin Range(order),
           NEW batch, IsSeq(batch), Has(batch, "append"),
           \A j \in Range(batch) : j.job = "append" => j.row = r
    PROVE  FoldLeft(Placed, order, batch) = Append(order, r)
<1> PICK n : n = Len(batch)
  OBVIOUS
<1>0. Append(order, r) \in Seq(Rows)
  OBVIOUS
<1> PICK more \in Seq(Rows) : more = Append(order, r)
  BY <1>0
<1> PICK V : V = {order, more}
  OBVIOUS
<1>1. n \in Nat /\ DOMAIN batch = 1..n
  BY SeqDomain
<1>2. Among(Rows \ {r}, order) = order /\ Among(Rows \ {r}, more) = order
  <2>1. /\ Len(order) \in Nat /\ DOMAIN order = 1..Len(order)
        /\ Len(more) = Len(order) + 1 /\ more[Len(order) + 1] = r
        /\ \A i \in 1..Len(order) : more[i] = order[i]
    BY AppendProperties, LenProperties
  <2>2. \A i \in 1..Len(order) : order[i] \in Rows \ {r}
    BY <2>1, ElementOfSeq DEF Range
  <2>3. \A i \in 1..Len(order) : ~(i > Len(order))
    BY <2>1
  <2>4. \A i \in 1..Len(more) : i > Len(order) => more[i] \notin Rows \ {r}
    <3> SUFFICES ASSUME NEW i \in 1..Len(more), i > Len(order) PROVE more[i] = r
      OBVIOUS
    <3>1. i = Len(order) + 1
      BY <2>1
    <3> QED BY <2>1, <3>1
  <2>5. Len(order) <= Len(order) /\ Len(order) <= Len(more)
    BY <2>1
  <2>6. Among(Rows \ {r}, order) = order
    BY <2>2, <2>3, <2>5, AmongPrefix
  <2>7. Among(Rows \ {r}, more) = order
    BY <2>1, <2>2, <2>4, <2>5, AmongPrefix
  <2> QED BY <2>6, <2>7
<1>3. ASSUME NEW i \in 1..n, NEW s \in V
      PROVE  /\ batch[i].job = "append" => Placed(s, batch[i]) = more
             /\ batch[i].job # "append" => Placed(s, batch[i]) = s
  <2>1. batch[i].job = "append" => batch[i].row = r
    BY <1>1 DEF Range
  <2> QED BY <1>2, <2>1 DEF Placed
<1>4. PICK run \in [0..n -> V] : PlacedRun(run, order, batch, n)
  <2>1. order \in V /\ \A i \in 1..n, s \in V : Placed(s, batch[i]) \in V
    BY <1>3
  <2> QED BY <1>1, <2>1, PlacedRuns
<1>5. PICK k \in 1..n : batch[k].job = "append"
  BY <1>1 DEF Has, Range
<1> DEFINE T == {i \in 0..n : i < k \/ run[i] = more}
<1>6. 0 \in T
  BY <1>1
<1>7. ASSUME NEW i \in 1..n, i - 1 \in T PROVE i \in T
  <2>1. i - 1 \in 0..n /\ i \in 0..n /\ run[i - 1] \in V /\ run[i] = Placed(run[i - 1], batch[i])
    BY <1>4 DEF PlacedRun
  <2>2. i < k \/ i = k \/ ~(i - 1 < k)
    OBVIOUS
  <2>3. i = k => run[i] = more
    BY <1>3, <1>5, <2>1
  <2>4. ~(i - 1 < k) => run[i] = more
    BY <1>3, <1>7, <2>1
  <2> QED BY <2>1, <2>2, <2>3, <2>4
<1>8. 0..n \subseteq T
  <2> HIDE DEF T
  <2> QED BY <1>1, <1>6, <1>7, UpTo
<1>9. run[n] = more
  <2>1. n \in 0..n /\ ~(n < k)
    BY <1>1
  <2> QED BY <1>8, <2>1
<1> QED BY <1>4, <1>9 DEF PlacedRun

-----------------------------------------------------------------------------
(***************************************************************************)
(* The inductive invariant.                                                *)
(***************************************************************************)
Waiting == Range(queue)

Held == IF writer.at = "idle" THEN {} ELSE Range(writer.batch)

\* Submitted, and no answer yet.
Unanswered == Held \cup Waiting

Ordered(s) == \A i, k \in DOMAIN s : i < k => s[i].ver <= s[k].ver

Durable(n, r) == n <= disk.rows[r].ver

Unlogged(n) == <<n, "log">> \notin landed \cup broken

Busy == actor.at = "busy"

Shapes ==
    /\ written \in Nat
    /\ \/ actor = Idle
       \/ actor = [at |-> "busy", ver |-> actor.ver, row |-> actor.row, kind |-> actor.kind,
                   from |-> actor.from, left |-> actor.left, waits |-> actor.waits]
    /\ IsSeq(queue)
    /\ \/ writer = Idle
       \/ /\ writer \in {[at |-> "commit", batch |-> writer.batch],
                         [at |-> "order", batch |-> writer.batch]}
          /\ IsSeq(writer.batch)
    /\ disk = [rows |-> disk.rows, order |-> disk.order, log |-> disk.log]
    /\ disk.rows \in [Rows -> [ver : Nat, there : BOOLEAN]]
    /\ \A r \in Rows : disk.rows[r].ver <= written

\* What is copied, and what a start finds a copy of, is a row.
CopiesOfRows ==
    /\ IsSeq(copying) /\ \A j \in Range(copying) : j.row \in Rows
    /\ \A c \in copies : c.row \in Rows
    /\ owing \subseteq Rows

\* The submissions without an answer are in the order of their writes, and a row's
\* place in the log behind the row; none is older than what the disk has; and while
\* nothing is being done, only the tempo of a master is still on its way.
InOrder ==
    /\ \A j \in Unanswered : j.ver \in Nat /\ j.ver <= written /\ j.row \in Rows
    /\ Ordered(queue) /\ (writer.at # "idle" => Ordered(writer.batch))
    /\ \A b \in Held, q \in Waiting :
          b.ver <= q.ver /\ ~(b.ver = q.ver /\ b.job = "log" /\ q.job = "upsert")
    /\ \A j \in IF writer.at = "order" THEN Waiting ELSE Unanswered :
          j.job = "upsert" => disk.rows[j.row].ver <= j.ver
    /\ \A j \in Unanswered :
          j.job = "upsert" /\ j.row \notin Masters
          => Busy /\ j.ver = actor.ver /\ Unlogged(j.ver)

\* A group whose order is still to be written is on the disk.
OrderIsLast ==
    writer.at = "order" =>
        \A j \in Held : /\ j.job = "upsert" => Durable(j.ver, j.row)
                        /\ j.job = "log" => j.ver \in disk.log

Answers ==
    \A n \in Nat :
        /\ \A job \in {"upsert", "log"} : <<n, job>> \in landed \cup broken => n <= written
        /\ \A job \in {"upsert", "log"} : <<n, job>> \in broken => n \in lost
        /\ <<n, "log">> \in landed => n \in disk.log

\* Where the command in hand has got to.
InHand ==
    LET n == actor.ver
        r == actor.row
        unsent == Has(actor.left, "upsert")
    IN  Busy =>
        /\ n = written /\ r \in Rows /\ actor.kind \in Kinds
        /\ actor.kind = "tempo" => actor.from = "tick" /\ r \in Masters
        /\ Submission(actor.left, n, r)
        /\ \A j \in Unanswered : j.ver = n => j.row = r
        /\ actor.kind = "delete" => ~unsent /\ Durable(n, r)
        /\ unsent => /\ \A j \in Unanswered : j.ver # n
                     /\ <<n, "upsert">> \notin landed /\ Unlogged(n)
        /\ actor.kind # "delete" =>
              /\ unsent \/ <<n, "upsert">> \in pending
              /\ \/ unsent
                 \/ Unlogged(n) /\ \E j \in Unanswered : j.ver = n /\ j.job = "upsert"
                 \/ Durable(n, r)
                 \/ n \in lost
        /\ <<n, "upsert">> \in landed => Durable(n, r)
        /\ actor.kind # "tempo" =>
              Has(actor.left, "log") \/ actor.waits = {<<n, "log">>} \/ ~Unlogged(n)

Replying ==
    \A w \in replies :
        /\ w.ver \in Nat /\ w.ver <= written /\ w.row \in Rows
        /\ Busy => w.ver < actor.ver
        /\ \A j \in Unanswered : j.ver = w.ver => j.row = w.row
        /\ Durable(w.ver, w.row) \/ <<w.ver, "upsert">> \in w.receipts
        /\ <<w.ver, "upsert">> \in landed => Durable(w.ver, w.row)

Told ==
    /\ \A c \in acked : c.ver \in Nat /\ c.row \in Rows /\ Durable(c.ver, c.row)
    /\ \A c \in heard : /\ c.ver \in Nat /\ c.row \in Rows
                        /\ c.ver \notin lost => c.ver \in disk.log /\ Durable(c.ver, c.row)

Inv ==
    /\ Shapes /\ CopiesOfRows /\ InOrder /\ OrderIsLast /\ Answers
    /\ InHand /\ Replying /\ Told

\* What a timeline drives is not deleted: the tempo a tick is writing would bring the
\* row back, after the delete was answered.
MastersAreKept == Masters \subseteq Kept

LEMMA InvIsEnough == Inv => ToldIsOnDisk
BY DEF Inv, Told, ToldIsOnDisk, AckedIsDurable, HeardIsKept, Durable, Shapes

LEMMA InitHolds ==
    ASSUME Init
    PROVE  Inv
<1>1. Held = {} /\ Waiting = {} /\ Unanswered = {} /\ ~Busy
  BY DEF Init, Idle, Held, Waiting, Unanswered, Range, Busy
<1>2. Shapes
  BY NothingIsSeq DEF Init, Shapes, Blank
<1>3. CopiesOfRows
  BY NothingIsSeq DEF Init, CopiesOfRows, Range
<1>4. InOrder
  BY <1>1, NothingIsSeq DEF Init, InOrder, Ordered, Idle
<1> QED BY <1>1, <1>2, <1>3, <1>4
    DEF Init, Inv, OrderIsLast, Answers, InHand, Replying, Told, Idle

(***************************************************************************)
(* Nothing that was told is taken back while the disk and the log only     *)
(* grow.                                                                   *)
(***************************************************************************)
DiskGrows ==
    /\ disk' = [rows |-> disk'.rows, order |-> disk'.order, log |-> disk'.log]
    /\ disk'.rows \in [Rows -> [ver : Nat, there : BOOLEAN]]
    /\ \A r \in Rows : disk.rows[r].ver <= disk'.rows[r].ver
    /\ disk.log \subseteq disk'.log

LEMMA DurableStays ==
    ASSUME Shapes, DiskGrows, NEW n \in Nat, NEW r \in Rows, Durable(n, r)
    PROVE  Durable(n, r)'
<1>1. disk.rows[r].ver \in Nat /\ disk'.rows[r].ver \in Nat /\ disk.rows[r].ver <= disk'.rows[r].ver
  BY DEF Shapes, DiskGrows
<1> QED BY <1>1 DEF Durable

LEMMA ToldStays ==
    ASSUME Shapes, Told, DiskGrows, lost \subseteq lost', acked' = acked, heard' = heard
    PROVE  Told'
BY DurableStays DEF Told, DiskGrows

-----------------------------------------------------------------------------
(***************************************************************************)
(* A command begins when the last is through, so nothing is on its way     *)
(* that would bring back a row it deletes.                                 *)
(***************************************************************************)
\* A delete is on the disk at once, and nothing else is.
LEMMA BeginOnDisk ==
    ASSUME Inv, NEW kind, NEW from, NEW r \in Rows, Begin(kind, from, r)
    PROVE  /\ disk'.log = disk.log /\ disk'.order = disk.order
           /\ \A q \in Rows : disk'.rows[q] = IF kind = "delete" /\ q = r
                                              THEN [ver |-> written + 1, there |-> FALSE]
                                              ELSE disk.rows[q]
           /\ disk'.rows \in [Rows -> [ver : Nat, there : BOOLEAN]]
           /\ disk' = [rows |-> disk'.rows, order |-> disk'.order, log |-> disk'.log]
           /\ DiskGrows
<1> PICK row : row = [ver |-> written + 1, there |-> FALSE]
  OBVIOUS
<1>1. disk' = IF kind = "delete" THEN [disk EXCEPT !.rows[r] = row] ELSE disk
  BY DEF Begin
<1>2. /\ written \in Nat /\ disk = [rows |-> disk.rows, order |-> disk.order, log |-> disk.log]
      /\ disk.rows \in [Rows -> [ver : Nat, there : BOOLEAN]]
      /\ \A q \in Rows : disk.rows[q].ver <= written
  BY DEF Inv, Shapes
<1>3. /\ disk'.log = disk.log /\ disk'.order = disk.order
      /\ disk'.rows = IF kind = "delete" THEN [disk.rows EXCEPT ![r] = row] ELSE disk.rows
      /\ disk' = [rows |-> disk'.rows, order |-> disk'.order, log |-> disk'.log]
  BY <1>1, <1>2
<1>4. /\ disk'.rows \in [Rows -> [ver : Nat, there : BOOLEAN]]
      /\ \A q \in Rows : disk'.rows[q] = IF kind = "delete" /\ q = r THEN row ELSE disk.rows[q]
  BY <1>2, <1>3
<1>5. DiskGrows
  BY <1>2, <1>3, <1>4 DEF DiskGrows
<1> QED BY <1>3, <1>4, <1>5

LEMMA BeginKeeps ==
    ASSUME MastersAreKept, Inv, NEW kind \in Kinds, NEW from, NEW r \in Rows,
           Begin(kind, from, r), owing' \subseteq owing,
           kind = "tempo" => from = "tick" /\ r \in Masters,
           kind = "delete" => r \notin Kept
    PROVE  Inv'
<1> USE DEF Inv
<1> PICK n \in Nat : n = written + 1
  BY DEF Shapes
<1>1. /\ actor = Idle /\ written' = n
      /\ disk' = IF kind = "delete"
                 THEN [disk EXCEPT !.rows[r] = [ver |-> n, there |-> kind # "delete"]]
                 ELSE disk
      /\ actor' = [at |-> "busy", ver |-> n, row |-> r, kind |-> kind, from |-> from,
                   left |-> Jobs(kind, from, n, r, listed'), waits |-> {}]
      /\ UNCHANGED <<pending, replies, queue, writer, landed, broken, copying, copies,
                     acked, heard, lost>>
  BY DEF Begin, fileVars, history
<1>2. ~Busy /\ Busy'
  BY <1>1 DEF Busy, Idle
<1>3. /\ disk'.log = disk.log
      /\ \A q \in Rows : disk'.rows[q] = IF kind = "delete" /\ q = r
                                         THEN [ver |-> n, there |-> FALSE] ELSE disk.rows[q]
      /\ disk'.rows \in [Rows -> [ver : Nat, there : BOOLEAN]]
      /\ disk' = [rows |-> disk'.rows, order |-> disk'.order, log |-> disk'.log]
  BY BeginOnDisk
<1>4. DiskGrows
  BY BeginOnDisk
<1>5. Unanswered' = Unanswered /\ Held' = Held /\ Waiting' = Waiting
  BY <1>1 DEF Unanswered, Held, Waiting
<1>6. \A j \in Unanswered : j.ver \in Nat /\ j.ver < n /\ j.row \in Rows
  BY <1>1 DEF InOrder, Shapes
<1>7. /\ Submission(actor'.left, n, r)
      /\ Has(actor'.left, "upsert") <=> kind # "delete"
      /\ kind # "tempo" => Has(actor'.left, "log")
  BY <1>1, JobsInOrder
<1>8. Shapes'
  <2>1. \A q \in Rows : disk'.rows[q].ver <= n
    BY <1>1, <1>3 DEF Shapes
  <2> QED BY <1>1, <1>3, <2>1 DEF Shapes
<1>9. InOrder'
  <2>1. kind = "delete" => \A j \in Unanswered : j.job = "upsert" => j.row # r
    BY <1>2 DEF InOrder, MastersAreKept
  <2>2. \A j \in IF writer.at = "order" THEN Waiting ELSE Unanswered :
            j.job = "upsert" => disk'.rows[j.row].ver <= j.ver
    BY <1>3, <1>5, <1>6, <2>1 DEF InOrder, Unanswered
  <2>3. \A j \in Unanswered : ~(j.job = "upsert" /\ j.row \notin Masters)
    BY <1>2 DEF InOrder
  <2> QED BY <1>1, <1>5, <1>6, <2>2, <2>3 DEF InOrder, Ordered
<1>10. OrderIsLast'
  <2> SUFFICES ASSUME writer.at = "order", NEW j \in Held
               PROVE  /\ j.job = "upsert" => Durable(j.ver, j.row)'
                      /\ j.job = "log" => j.ver \in disk'.log
    BY <1>1, <1>5 DEF OrderIsLast
  <2>1. j.ver \in Nat /\ j.row \in Rows
    BY <1>6 DEF Unanswered
  <2> QED BY <1>3, <1>4, <2>1, DurableStays DEF OrderIsLast
<1>11. Answers'
  <2> SUFFICES ASSUME NEW m \in Nat
               PROVE  /\ \A job \in {"upsert", "log"} : <<m, job>> \in landed \cup broken => m <= n
                      /\ \A job \in {"upsert", "log"} : <<m, job>> \in broken => m \in lost
                      /\ <<m, "log">> \in landed => m \in disk.log
    BY <1>1, <1>3 DEF Answers
  <2>1. m <= written => m <= n
    BY DEF Shapes
  <2> QED BY <2>1 DEF Answers
<1>12. InHand'
  <2>1. <<n, "upsert">> \notin landed /\ Unlogged(n)
    BY <1>1 DEF Answers, Shapes, Unlogged
  <2>2. kind = "delete" => Durable(n, r)'
    BY <1>1, <1>3 DEF Durable
  <2>3. \A j \in Unanswered : j.ver # n
    BY <1>1, <1>6
  <2>4. Unlogged(n)' <=> Unlogged(n)
    BY <1>1 DEF Unlogged
  <2> QED BY <1>1, <1>5, <1>7, <2>1, <2>2, <2>3, <2>4 DEF InHand, Durable, Unlogged
<1>13. Replying'
  <2> SUFFICES ASSUME NEW w \in replies
               PROVE  /\ w.ver \in Nat /\ w.ver < n /\ w.ver <= n /\ w.row \in Rows
                      /\ \A j \in Unanswered : j.ver = w.ver => j.row = w.row
                      /\ Durable(w.ver, w.row)' \/ <<w.ver, "upsert">> \in w.receipts
                      /\ <<w.ver, "upsert">> \in landed => Durable(w.ver, w.row)'
    <3>1. written' = n /\ actor'.ver = n /\ replies' = replies /\ landed' = landed
      BY <1>1
    <3> QED BY <1>5, <3>1 DEF Replying
  <2>1. w.ver \in Nat /\ w.ver < n /\ w.ver <= n /\ w.row \in Rows
    <3>1. w.ver \in Nat /\ w.ver <= written /\ w.row \in Rows
      BY DEF Replying
    <3> QED BY <3>1 DEF Shapes
  <2> QED BY <1>4, <2>1, DurableStays DEF Replying
<1>14. Told'
  BY <1>1, <1>4, ToldStays
<1>15. CopiesOfRows'
  BY <1>1 DEF CopiesOfRows
<1> QED BY <1>8, <1>9, <1>10, <1>11, <1>12, <1>13, <1>14, <1>15

-----------------------------------------------------------------------------
(***************************************************************************)
(* What leaves the command in hand, the queue and the disk alone.          *)
(***************************************************************************)
LEMMA RestKeeps ==
    ASSUME Inv, UNCHANGED <<actor, queue, writer, disk, landed, broken, heard, lost, written>>,
           pending' = pending \/ actor = Idle, replies' \subseteq replies,
           \A c \in acked' \ acked : c.ver \in Nat /\ c.row \in Rows /\ Durable(c.ver, c.row),
           CopiesOfRows'
    PROVE  Inv'
<1> USE DEF Inv
<1>1. /\ Unanswered' = Unanswered /\ Held' = Held /\ Waiting' = Waiting /\ Busy' = Busy
      /\ \A n, r : Durable(n, r)' <=> Durable(n, r)
      /\ \A n : Unlogged(n)' <=> Unlogged(n)
  BY DEF Unanswered, Held, Waiting, Busy, Durable, Unlogged
<1>2. Shapes'
  BY DEF Shapes
<1>3. InOrder'
  BY <1>1 DEF InOrder, Ordered
<1>4. OrderIsLast'
  BY <1>1 DEF OrderIsLast
<1>5. Answers'
  BY DEF Answers
<1>6. InHand'
  <2>1. CASE actor = Idle
    BY <2>1 DEF InHand, Busy, Idle
  <2>2. CASE pending' = pending
    BY <1>1, <2>2 DEF InHand, Has
  <2> QED BY <2>1, <2>2
<1>7. Replying'
  BY <1>1 DEF Replying
<1>8. Told'
  BY <1>1 DEF Told
<1> QED BY <1>2, <1>3, <1>4, <1>5, <1>6, <1>7, <1>8

LEMMA RefusedKeeps ==
    ASSUME Inv, Refused
    PROVE  Inv'
BY RestKeeps DEF Refused, fileVars, history, Inv, CopiesOfRows

(***************************************************************************)
(* A client is told of a write when all its receipts are Ok, the one for   *)
(* its row among them.                                                     *)
(***************************************************************************)
LEMMA ReplyKeeps ==
    ASSUME Inv, Reply
    PROVE  Inv'
<1>1. PICK w \in replies :
         /\ Settled(w.receipts)
         /\ replies' = replies \ {w}
         /\ acked' = IF w.receipts \cap broken = {}
                     THEN acked \cup {[ver |-> w.ver, row |-> w.row]} ELSE acked
         /\ UNCHANGED <<shown, listed, actor, pending, owing, queue, writer, disk, landed, broken,
                        fileVars, heard, lost, written, faults, crashes>>
  BY DEF Reply
<1>2. w.ver \in Nat /\ w.row \in Rows
  BY DEF Inv, Replying
<1>3. w.receipts \cap broken = {} => Durable(w.ver, w.row)
  BY <1>1 DEF Inv, Replying, Settled
<1>4. \A c \in acked' \ acked : c.ver \in Nat /\ c.row \in Rows /\ Durable(c.ver, c.row)
  BY <1>1, <1>2, <1>3
<1>5. CopiesOfRows'
  BY <1>1 DEF Inv, CopiesOfRows, fileVars
<1> QED BY <1>1, <1>4, <1>5, RestKeeps

LEMMA CheckpointerKeeps ==
    ASSUME Inv, Checkpointer
    PROVE  Inv'
<1>1. /\ copying # <<>> /\ copying' = Tail(copying)
      /\ \A c \in copies' : c \in copies \/ c.row = Head(copying).row
      /\ UNCHANGED <<engineVars, queue, writer, disk, landed, broken, history, written>>
  <2>1. CASE TakeCopy
    BY <2>1 DEF TakeCopy, OtherCopies
  <2>2. CASE Forget
    BY <2>2 DEF Forget, OtherCopies
  <2> QED BY <2>1, <2>2 DEF Checkpointer
<1>2. IsSeq(copying') /\ Range(copying) = {Head(copying)} \cup Range(copying')
  BY <1>1, TailSeq, RangeOfTail DEF Inv, CopiesOfRows
<1>3. CopiesOfRows'
  BY <1>1, <1>2 DEF Inv, CopiesOfRows, engineVars
<1> QED BY <1>1, <1>3, RestKeeps DEF engineVars, history

LEMMA GatherKeeps ==
    ASSUME Inv, Gather
    PROVE  Inv'
<1> USE DEF Inv
<1>1. /\ writer = Idle /\ writer' = [at |-> "commit", batch |-> queue] /\ queue' = <<>>
      /\ UNCHANGED <<actor, pending, replies, owing, disk, landed, broken, copying, copies,
                     acked, heard, lost, written>>
  BY DEF Gather, engineVars, fileVars, history
<1>2. /\ Held = {} /\ Held' = Waiting /\ Waiting' = {} /\ Unanswered' = Unanswered
      /\ writer.at = "idle" /\ writer'.at = "commit" /\ writer'.batch = queue
  BY <1>1 DEF Unanswered, Held, Waiting, Idle, Range
<1>3. /\ Busy' = Busy
      /\ \A n, r : Durable(n, r)' <=> Durable(n, r)
      /\ \A n : Unlogged(n)' <=> Unlogged(n)
  BY <1>1 DEF Busy, Durable, Unlogged
<1>4. Shapes'
  BY <1>1, NothingIsSeq DEF Shapes
<1>5. InOrder'
  BY <1>1, <1>2, <1>3, NothingIsSeq DEF InOrder, Ordered
<1>6. OrderIsLast'
  BY <1>2 DEF OrderIsLast
<1>7. Answers'
  BY <1>1 DEF Answers
<1>8. InHand'
  BY <1>1, <1>2, <1>3 DEF InHand, Has
<1>9. Replying'
  BY <1>1, <1>2, <1>3 DEF Replying
<1>10. Told'
  BY <1>1, <1>3 DEF Told
<1>11. CopiesOfRows'
  BY <1>1 DEF CopiesOfRows
<1> QED BY <1>4, <1>5, <1>6, <1>7, <1>8, <1>9, <1>10, <1>11

-----------------------------------------------------------------------------
(***************************************************************************)
(* The command in hand: its row is submitted before its place in the log,  *)
(* and it is through when the log has answered.                            *)
(***************************************************************************)
LEMMA SubmitKeeps ==
    ASSUME Inv, Submit
    PROVE  Inv'
<1> USE DEF Inv
<1> PICK n : n = actor.ver
  OBVIOUS
<1> PICK r : r = actor.row
  OBVIOUS
<1> PICK j : j = Head(actor.left)
  OBVIOUS
<1>1. /\ actor # Idle /\ Settled(actor.waits) /\ actor.left # <<>>
      /\ actor' = [actor EXCEPT !.left = Tail(@),
                                !.waits = IF j.job = "log" THEN {Id(j)} ELSE {}]
      /\ queue' = IF j.job = "forget" THEN queue ELSE Append(queue, j)
      /\ copying' = IF j.job \in {"barrier", "forget"} THEN Append(copying, j) ELSE copying
      /\ pending' = IF j.job \in {"upsert", "append", "order"} THEN pending \cup {Id(j)}
                    ELSE pending
      /\ UNCHANGED <<replies, owing, writer, disk, landed, broken, copies, acked, heard, lost,
                     written>>
  BY DEF Submit, history
<1>2. /\ Busy /\ Busy'
      /\ actor' = [at |-> "busy", ver |-> n, row |-> r, kind |-> actor.kind,
                   from |-> actor.from, left |-> Tail(actor.left),
                   waits |-> IF j.job = "log" THEN {<<n, "log">>} ELSE {}]
      /\ n = written /\ r \in Rows /\ n \in Nat /\ Submission(actor.left, n, r)
      /\ j.ver = n /\ j.row = r /\ j.job \in JobKinds
  <2>1. Busy
    BY <1>1 DEF Shapes, Busy
  <2>2. n = written /\ r \in Rows /\ n \in Nat /\ Submission(actor.left, n, r)
    BY <2>1 DEF InHand, Shapes
  <2>3. j.ver = n /\ j.row = r /\ j.job \in JobKinds
    <3>1. j \in Range(actor.left)
      BY <1>1, <2>2, RangeOfTail DEF Submission
    <3> QED BY <2>2, <3>1 DEF Submission
  <2>4. actor' = [at |-> "busy", ver |-> n, row |-> r, kind |-> actor.kind,
                  from |-> actor.from, left |-> Tail(actor.left),
                  waits |-> IF j.job = "log" THEN {<<n, "log">>} ELSE {}]
    <3>1. actor = [at |-> "busy", ver |-> n, row |-> r, kind |-> actor.kind,
                   from |-> actor.from, left |-> actor.left, waits |-> actor.waits]
      BY <1>1 DEF Shapes
    <3>2. j.job = "log" => Id(j) = <<n, "log">>
      BY <2>3 DEF Id
    <3>3. PICK w : w = IF j.job = "log" THEN {<<n, "log">>} ELSE {}
      OBVIOUS
    <3>4. actor' = [actor EXCEPT !.left = Tail(actor.left), !.waits = w]
      BY <1>1, <3>2, <3>3
    <3>5. PICK a, b, k, f, l, u, m :
             /\ a = actor /\ b = actor' /\ k = actor.kind /\ f = actor.from /\ l = actor.left
             /\ u = actor.waits /\ m = Tail(actor.left)
      OBVIOUS
    <3>6. b = [a EXCEPT !.left = m, !.waits = w]
      BY <3>4, <3>5
    <3>7. a = [at |-> "busy", ver |-> n, row |-> r, kind |-> k, from |-> f, left |-> l,
               waits |-> u]
      BY <3>1, <3>5
    <3>8. b = [at |-> "busy", ver |-> n, row |-> r, kind |-> k, from |-> f, left |-> m,
               waits |-> w]
      BY <3>6, <3>7
    <3> QED BY <3>3, <3>5, <3>8
  <2> QED BY <2>1, <2>2, <2>3, <2>4 DEF Busy
<1>3. /\ Submission(actor'.left, n, r) /\ ~Has(actor'.left, "upsert")
      /\ \A x : Has(actor.left, x) => j.job = x \/ Has(actor'.left, x)
  <2>1. /\ Submission(Tail(actor.left), n, r)
        /\ Range(actor.left) = {j} \cup Range(Tail(actor.left))
        /\ \A x \in Range(Tail(actor.left)) : x.job # "upsert"
    BY <1>1, <1>2, Later DEF Goes
  <2> QED BY <1>2, <2>1 DEF Has
<1>4. /\ Held' = Held /\ Waiting' \in {Waiting, Waiting \cup {j}}
      /\ j.job # "forget" => Waiting' = Waiting \cup {j}
      /\ IsSeq(queue')
  BY <1>1, RangeOfAppended, AppendedSeq DEF Held, Waiting, Shapes
<1>5. /\ \A m, q : Durable(m, q)' <=> Durable(m, q)
      /\ \A m : Unlogged(m)' <=> Unlogged(m)
  BY <1>1 DEF Durable, Unlogged
<1>6. Unanswered' \subseteq Unanswered \cup {j} /\ (j.job # "forget" => j \in Unanswered')
  BY <1>4 DEF Unanswered
<1>7. j.job = "upsert" => Unlogged(n) /\ \A x \in Unanswered : x.ver # n
  <2>1. j.job = "upsert" => Has(actor.left, "upsert")
    BY <1>1, <1>2, RangeOfTail DEF Has, Submission
  <2> QED BY <1>2, <2>1 DEF InHand
<1>8. Shapes'
  <2>1. actor' = [at |-> "busy", ver |-> actor'.ver, row |-> actor'.row, kind |-> actor'.kind,
                  from |-> actor'.from, left |-> actor'.left, waits |-> actor'.waits]
    BY <1>2
  <2> QED BY <1>1, <1>4, <2>1 DEF Shapes
<1>9. CopiesOfRows'
  BY <1>1, <1>2, AppendedSeq, RangeOfAppended DEF CopiesOfRows
<1>10. InOrder'
  <2>1. \A x \in Unanswered' : x.ver \in Nat /\ x.ver <= written' /\ x.row \in Rows
    BY <1>1, <1>2, <1>6 DEF InOrder
  <2>2. Ordered(queue')
    <3>1. \A i \in DOMAIN queue : queue[i].ver <= n /\ queue[i].ver \in Nat
      BY <1>2 DEF InOrder, Unanswered, Waiting, Range
    <3>2. /\ Len(queue) \in Nat /\ DOMAIN queue = 1 .. Len(queue)
          /\ DOMAIN Append(queue, j) = 1 .. Len(queue) + 1
          /\ \A i \in DOMAIN queue : Append(queue, j)[i] = queue[i]
          /\ Append(queue, j)[Len(queue) + 1] = j
      BY SeqDomain, AppendedSeq DEF Shapes
    <3>3. Ordered(Append(queue, j))
      BY <1>2, <3>1, <3>2 DEF Ordered, InOrder
    <3> QED BY <1>1, <3>3 DEF InOrder
  <2>3. \A b \in Held, q \in Waiting' :
            b.ver <= q.ver /\ ~(b.ver = q.ver /\ b.job = "log" /\ q.job = "upsert")
    BY <1>2, <1>4, <1>7 DEF InOrder, Unanswered
  <2>4. \A x \in IF writer.at = "order" THEN Waiting' ELSE Unanswered' :
            x.job = "upsert" => disk.rows[x.row].ver <= x.ver
    BY <1>2, <1>4, <1>6 DEF InOrder, Shapes, Unanswered
  <2>5. \A x \in Unanswered' :
            x.job = "upsert" /\ x.row \notin Masters
            => Busy' /\ x.ver = actor'.ver /\ Unlogged(x.ver)
    BY <1>2, <1>6, <1>7 DEF InOrder
  <2> QED BY <1>1, <1>4, <1>5, <2>1, <2>2, <2>3, <2>4, <2>5 DEF InOrder, Ordered
<1>11. OrderIsLast'
  BY <1>1, <1>4, <1>5 DEF OrderIsLast
<1>12. Answers'
  BY <1>1 DEF Answers
<1>13. InHand'
  <2>1. actor'.ver = n /\ actor'.row = r /\ actor'.kind = actor.kind /\ actor'.from = actor.from
    BY <1>2
  <2>2. \A x \in Unanswered' : x.ver = n => x.row = r
    BY <1>2, <1>6 DEF InHand
  <2>3. actor.kind # "delete" =>
            /\ <<n, "upsert">> \in pending'
            /\ \/ Unlogged(n) /\ \E x \in Unanswered' : x.ver = n /\ x.job = "upsert"
               \/ Durable(n, r)
               \/ n \in lost
    <3>1. CASE j.job = "upsert"
      BY <1>1, <1>2, <1>6, <1>7, <3>1 DEF Id
    <3>2. CASE j.job # "upsert"
      <4>1. ~Has(actor.left, "upsert")
        BY <1>3, <3>2
      <4>2. Unanswered \subseteq Unanswered' /\ pending \subseteq pending'
        BY <1>1, <1>4 DEF Unanswered
      <4> QED BY <1>2, <4>1, <4>2 DEF InHand
    <3> QED BY <3>1, <3>2
  <2>4. actor.kind # "tempo" =>
            Has(actor'.left, "log") \/ actor'.waits = {<<n, "log">>} \/ ~Unlogged(n)
    <3>1. actor.waits = {<<n, "log">>} => ~Unlogged(n)
      BY <1>1 DEF Settled, Unlogged
    <3> QED BY <1>2, <1>3, <3>1 DEF InHand
  <2>5. <<n, "upsert">> \in landed => Durable(n, r)
    BY <1>2 DEF InHand
  <2>6. /\ actor.kind \in Kinds /\ (actor.kind = "tempo" => actor.from = "tick" /\ r \in Masters)
        /\ actor.kind = "delete" => Durable(n, r)
    BY <1>2 DEF InHand
  <2> QED BY <1>1, <1>2, <1>3, <1>5, <2>1, <2>2, <2>3, <2>4, <2>5, <2>6 DEF InHand
<1>14. Replying'
  <2> SUFFICES ASSUME NEW w \in replies
               PROVE  /\ w.ver \in Nat /\ w.ver < n /\ w.ver <= n /\ w.row \in Rows
                      /\ \A x \in Unanswered' : x.ver = w.ver => x.row = w.row
                      /\ Durable(w.ver, w.row) \/ <<w.ver, "upsert">> \in w.receipts
                      /\ <<w.ver, "upsert">> \in landed => Durable(w.ver, w.row)
    <3>1. written' = n /\ actor'.ver = n /\ replies' = replies /\ landed' = landed
      BY <1>1, <1>2
    <3> QED BY <1>5, <3>1 DEF Replying
  <2>1. w.ver \in Nat /\ w.ver < n /\ w.ver <= n /\ w.row \in Rows
    BY <1>2 DEF Replying
  <2>2. \A x \in Unanswered' : x.ver = w.ver => x.row = w.row
    <3>1. w.ver # n
      BY <1>2, <2>1
    <3>2. \A x \in Unanswered : x.ver = w.ver => x.row = w.row
      BY DEF Replying
    <3> QED BY <1>2, <1>6, <3>1, <3>2
  <2> QED BY <2>1, <2>2 DEF Replying
<1>15. Told'
  BY <1>1, <1>5 DEF Told
<1> QED BY <1>8, <1>9, <1>10, <1>11, <1>12, <1>13, <1>14, <1>15

LEMMA FinishKeeps ==
    ASSUME Inv, Finish
    PROVE  Inv'
<1> USE DEF Inv
<1> PICK n : n = actor.ver
  OBVIOUS
<1> PICK r : r = actor.row
  OBVIOUS
<1>1. /\ actor # Idle /\ Settled(actor.waits) /\ actor.left = <<>> /\ actor' = Idle
      /\ heard' = IF actor.from \in {"client", "undo"}
                  THEN heard \cup {[ver |-> n, row |-> r]} ELSE heard
      /\ \/ replies' = replies \cup {[ver |-> n, row |-> r, receipts |-> pending]}
         \/ replies' = replies
      /\ UNCHANGED <<owing, queue, writer, disk, landed, broken, copying, copies, acked, lost,
                     written>>
  BY DEF Finish, fileVars
<1>2. Busy /\ ~Busy'
  BY <1>1 DEF Shapes, Busy, Idle
<1>3. n = written /\ n \in Nat /\ r \in Rows
  BY <1>2 DEF InHand, Shapes
<1>4. \A x : ~Has(actor.left, x)
  BY <1>1 DEF Has, Range
<1>5. actor.kind # "tempo" => ~Unlogged(n)
  BY <1>1, <1>2, <1>4 DEF InHand, Settled, Unlogged
<1>6. /\ Unanswered' = Unanswered /\ Held' = Held /\ Waiting' = Waiting
      /\ \A m, q : Durable(m, q)' <=> Durable(m, q)
      /\ \A m : Unlogged(m)' <=> Unlogged(m)
  BY <1>1 DEF Unanswered, Held, Waiting, Durable, Unlogged
<1>7. Shapes' /\ CopiesOfRows' /\ OrderIsLast' /\ Answers' /\ InHand'
  BY <1>1, <1>2, <1>6 DEF Shapes, CopiesOfRows, OrderIsLast, Answers, InHand
<1>8. InOrder'
  <2>1. ASSUME NEW j \in Unanswered, j.job = "upsert", j.row \notin Masters PROVE FALSE
    <3>1. j.ver = n /\ Unlogged(n)
      BY <2>1 DEF InOrder
    <3>2. j.row = r /\ actor.kind # "tempo"
      BY <1>2, <2>1, <3>1 DEF InHand
    <3> QED BY <1>5, <3>1, <3>2
  <2> QED BY <1>1, <1>6, <2>1 DEF InOrder, Ordered
<1>9. Replying'
  <2>1. /\ \A j \in Unanswered : j.ver = n => j.row = r
        /\ Durable(n, r) \/ <<n, "upsert">> \in pending
        /\ <<n, "upsert">> \in landed => Durable(n, r)
    BY <1>2, <1>4 DEF InHand
  <2> SUFFICES ASSUME NEW w \in replies'
               PROVE  /\ w.ver \in Nat /\ w.ver <= n /\ w.row \in Rows
                      /\ \A j \in Unanswered : j.ver = w.ver => j.row = w.row
                      /\ Durable(w.ver, w.row) \/ <<w.ver, "upsert">> \in w.receipts
                      /\ <<w.ver, "upsert">> \in landed => Durable(w.ver, w.row)
    BY <1>1, <1>2, <1>3, <1>6 DEF Replying
  <2>2. CASE w \in replies
    BY <1>3, <2>2 DEF Replying
  <2>3. CASE w \notin replies
    <3>1. w = [ver |-> n, row |-> r, receipts |-> pending]
      BY <1>1, <2>3
    <3> QED BY <1>3, <2>1, <3>1
  <2> QED BY <2>2, <2>3
<1>10. Told'
  <2>1. actor.from \in {"client", "undo"} /\ n \notin lost => n \in disk.log /\ Durable(n, r)
    <3> SUFFICES ASSUME actor.from \in {"client", "undo"}, n \notin lost
                 PROVE  n \in disk.log /\ Durable(n, r)
      OBVIOUS
    <3>1. ~Unlogged(n)
      BY <1>2, <1>5 DEF InHand
    <3>2. n \in disk.log
      BY <1>3, <3>1 DEF Unlogged, Answers
    <3>3. Durable(n, r)
      BY <1>2, <1>4, <3>1 DEF InHand
    <3> QED BY <3>2, <3>3
  <2> QED BY <1>1, <1>3, <1>6, <2>1 DEF Told
<1> QED BY <1>7, <1>8, <1>9, <1>10

-----------------------------------------------------------------------------
(***************************************************************************)
(* A group is answered as one, and what waits behind it is newer.          *)
(***************************************************************************)
LEMMA AnsweredIds ==
    ASSUME NEW batch
    PROVE  \A x : x \in Answered(batch) <=> \E j \in Range(batch) : x = Id(j)
BY DEF Answered, Range

LEMMA GroupAnswered ==
    ASSUME Inv, writer.at # "idle", writer' = Idle, DiskGrows,
           lost \subseteq lost', landed \subseteq landed', broken \subseteq broken',
           \A r \in Rows : disk'.rows[r].ver <= written,
           \A x \in landed' : \/ x \in landed
                              \/ \E j \in Held : /\ x = Id(j)
                                                 /\ j.job = "upsert" => Durable(j.ver, j.row)'
                                                 /\ j.job = "log" => j.ver \in disk'.log,
           \A x \in broken' : x \in broken \/ \E j \in Held : x = Id(j) /\ j.ver \in lost',
           \A j \in Held : j.job = "upsert" => Durable(j.ver, j.row)' \/ j.ver \in lost',
           \A j \in Waiting : j.job = "upsert" => disk'.rows[j.row].ver <= j.ver,
           UNCHANGED <<actor, pending, replies, owing, queue, copying, copies, acked, heard,
                       written>>
    PROVE  Inv'
<1> USE DEF Inv
<1>1. /\ Held' = {} /\ Waiting' = Waiting /\ Unanswered' = Waiting /\ Busy' = Busy
      /\ Unanswered = Held \cup Waiting
  BY DEF Held, Waiting, Unanswered, Busy, Idle
<1>2. \A n \in Nat, r \in Rows : Durable(n, r) => Durable(n, r)'
  BY DurableStays
<1>3. \A n : Unlogged(n)' => Unlogged(n)
  BY DEF Unlogged
<1>4. \A n, job : <<n, job>> \in landed' =>
          \/ <<n, job>> \in landed
          \/ \E j \in Held : /\ j.ver = n /\ j.job = job
                             /\ job = "upsert" => Durable(j.ver, j.row)'
                             /\ job = "log" => j.ver \in disk'.log
  BY DEF Id
<1>5. \A n, job : <<n, job>> \in broken' =>
          <<n, job>> \in broken \/ \E j \in Held : j.ver = n /\ j.job = job /\ n \in lost'
  BY DEF Id
<1>6. ASSUME NEW q \in Waiting, q.job = "upsert", Unlogged(q.ver) PROVE Unlogged(q.ver)'
  <2>1. \A b \in Held : ~(b.ver = q.ver /\ b.job = "log")
    BY <1>6 DEF InOrder
  <2> QED BY <1>4, <1>5, <1>6, <2>1 DEF Unlogged
<1>7. Shapes'
  BY DEF Shapes, DiskGrows
<1>8. CopiesOfRows'
  BY DEF CopiesOfRows
<1>9. InOrder'
  <2>1. \A j \in Waiting : j.ver \in Nat /\ j.ver <= written /\ j.row \in Rows
    BY <1>1 DEF InOrder
  <2>2. \A j \in Waiting : j.job = "upsert" /\ j.row \notin Masters
                           => Busy /\ j.ver = actor.ver /\ Unlogged(j.ver)'
    BY <1>1, <1>6 DEF InOrder
  <2>3. Ordered(queue)'
    BY DEF InOrder, Ordered
  <2> QED BY <1>1, <2>1, <2>2, <2>3 DEF InOrder, Idle
<1>10. OrderIsLast'
  BY DEF OrderIsLast, Idle
<1>11. Answers'
  <2> SUFFICES ASSUME NEW n \in Nat
               PROVE  /\ \A job \in {"upsert", "log"} : <<n, job>> \in landed' \cup broken' => n <= written
                      /\ \A job \in {"upsert", "log"} : <<n, job>> \in broken' => n \in lost'
                      /\ <<n, "log">> \in landed' => n \in disk'.log
    BY DEF Answers
  <2>1. \A j \in Held : j.ver <= written
    BY <1>1 DEF InOrder
  <2> QED BY <1>4, <1>5, <2>1 DEF Answers, DiskGrows
<1>12. InHand'
  <2> SUFFICES ASSUME Busy PROVE InHand'
    BY <1>1 DEF InHand
  <2> PICK n : n = actor.ver
    OBVIOUS
  <2> PICK r : r = actor.row
    OBVIOUS
  <2>1. n = written /\ n \in Nat /\ r \in Rows
    BY DEF InHand, Shapes
  <2>2. \A j \in Held \cup Waiting : j.ver = n => j.row = r
    BY <1>1 DEF InHand
  <2>3. Has(actor.left, "upsert") => /\ \A j \in Held \cup Waiting : j.ver # n
                                     /\ <<n, "upsert">> \notin landed'
                                     /\ Unlogged(n)'
    BY <1>1, <1>4, <1>5 DEF InHand, Unlogged
  <2>4. actor.kind = "delete" => ~Has(actor.left, "upsert") /\ Durable(n, r)'
    BY <1>2, <2>1 DEF InHand
  <2>5. actor.kind # "delete" =>
           \/ Has(actor.left, "upsert")
           \/ Unlogged(n)' /\ \E j \in Waiting : j.ver = n /\ j.job = "upsert"
           \/ Durable(n, r)'
           \/ n \in lost'
    <3> SUFFICES ASSUME actor.kind # "delete", ~Has(actor.left, "upsert")
                 PROVE  \/ Unlogged(n)' /\ \E j \in Waiting : j.ver = n /\ j.job = "upsert"
                        \/ Durable(n, r)'
                        \/ n \in lost'
      OBVIOUS
    <3>1. \/ Unlogged(n) /\ \E j \in Held \cup Waiting : j.ver = n /\ j.job = "upsert"
          \/ Durable(n, r)
          \/ n \in lost
      BY <1>1 DEF InHand
    <3>2. CASE \E j \in Held : j.ver = n /\ j.job = "upsert"
      BY <2>2, <3>2
    <3>3. CASE Unlogged(n) /\ \E j \in Waiting : j.ver = n /\ j.job = "upsert"
      BY <1>6, <3>3
    <3> QED BY <1>2, <2>1, <3>1, <3>2, <3>3
  <2>6. <<n, "upsert">> \in landed' => Durable(n, r)'
    <3>1. <<n, "upsert">> \in landed => Durable(n, r)'
      BY <1>2, <2>1 DEF InHand
    <3> QED BY <1>4, <2>2, <3>1
  <2>7. /\ actor.kind \in Kinds /\ (actor.kind = "tempo" => actor.from = "tick" /\ r \in Masters)
        /\ Submission(actor.left, n, r)
        /\ actor.kind # "delete" => Has(actor.left, "upsert") \/ <<n, "upsert">> \in pending
        /\ actor.kind # "tempo" =>
              Has(actor.left, "log") \/ actor.waits = {<<n, "log">>} \/ ~Unlogged(n)'
    BY <1>3 DEF InHand
  <2>8. actor' = actor /\ written' = written /\ pending' = pending
    OBVIOUS
  <2> QED BY <1>1, <2>1, <2>2, <2>3, <2>4, <2>5, <2>6, <2>7, <2>8 DEF InHand
<1>13. Replying'
  <2> SUFFICES ASSUME NEW w \in replies
               PROVE  /\ w.ver \in Nat /\ w.ver <= written /\ w.row \in Rows
                      /\ Busy => w.ver < actor.ver
                      /\ \A j \in Waiting : j.ver = w.ver => j.row = w.row
                      /\ Durable(w.ver, w.row)' \/ <<w.ver, "upsert">> \in w.receipts
                      /\ <<w.ver, "upsert">> \in landed' => Durable(w.ver, w.row)'
    BY <1>1 DEF Replying
  <2>1. /\ w.ver \in Nat /\ w.ver <= written /\ w.row \in Rows
        /\ Busy => w.ver < actor.ver
        /\ \A j \in Held \cup Waiting : j.ver = w.ver => j.row = w.row
    BY <1>1 DEF Replying
  <2>2. /\ Durable(w.ver, w.row)' \/ <<w.ver, "upsert">> \in w.receipts
        /\ <<w.ver, "upsert">> \in landed => Durable(w.ver, w.row)'
    BY <1>2, <2>1 DEF Replying
  <2>3. <<w.ver, "upsert">> \in landed' => Durable(w.ver, w.row)'
    BY <1>4, <2>1, <2>2
  <2> QED BY <2>1, <2>2, <2>3
<1>14. Told'
  BY ToldStays
<1> QED BY <1>7, <1>8, <1>9, <1>10, <1>11, <1>12, <1>13, <1>14

(***************************************************************************)
(* What a commit makes of the rows: the last upsert of each is the newest. *)
(***************************************************************************)
LEMMA CommittedIsNewer ==
    ASSUME Inv, writer.at = "commit", disk' = Committed(disk, writer.batch)
    PROVE  /\ DiskGrows /\ \A r \in Rows : disk'.rows[r].ver <= written
           /\ \A j \in Held : /\ j.job = "upsert" => Durable(j.ver, j.row)'
                              /\ j.job = "log" => j.ver \in disk'.log
           /\ \A j \in Waiting : j.job = "upsert" => disk'.rows[j.row].ver <= j.ver
           /\ \A r \in Rows :
                 \/ disk'.rows[r] = disk.rows[r]
                 \/ \E j \in Held : /\ j.job = "upsert" /\ j.row = r
                                    /\ disk'.rows[r] = [ver |-> j.ver, there |-> TRUE]
<1> USE DEF Inv
<1> PICK batch : batch = writer.batch
  OBVIOUS
<1>1. /\ IsSeq(batch) /\ Held = Range(batch) /\ Unanswered = Range(batch) \cup Waiting
      /\ Len(batch) \in Nat /\ DOMAIN batch = 1 .. Len(batch)
  <2>1. IsSeq(batch) /\ Held = Range(batch)
    BY DEF Shapes, Held, Idle
  <2> QED BY <2>1, SeqDomain DEF Unanswered
<1>2. /\ \A j \in Range(batch) : j.ver \in Nat /\ j.ver <= written /\ j.row \in Rows
      /\ \A j \in Range(batch), q \in Waiting : j.ver <= q.ver
      /\ \A j \in Range(batch) \cup Waiting : j.job = "upsert" => disk.rows[j.row].ver <= j.ver
      /\ Ordered(batch)
  BY <1>1 DEF InOrder
<1>3. \A i \in DOMAIN batch : batch[i] \in Range(batch)
  BY DEF Range
<1>4. /\ disk' = [rows |-> disk'.rows, order |-> disk'.order, log |-> disk'.log]
      /\ disk'.log = disk.log \cup Logged(batch)
      /\ disk'.rows = [r \in Rows |-> IF Upserts(batch, r) = {} THEN disk.rows[r]
                                      ELSE [ver |-> batch[Max(Upserts(batch, r))].ver,
                                            there |-> TRUE]]
  BY DEF Committed
<1>5. ASSUME NEW r \in Rows, Upserts(batch, r) # {}
      PROVE  \E i \in Upserts(batch, r) : /\ disk'.rows[r] = [ver |-> batch[i].ver, there |-> TRUE]
                                          /\ \A k \in Upserts(batch, r) : k <= i
  <2>1. Upserts(batch, r) \in SUBSET Nat /\ \A k \in Upserts(batch, r) : k <= Len(batch)
    BY <1>1 DEF Upserts
  <2>2. /\ Max(Upserts(batch, r)) \in Upserts(batch, r)
        /\ \A k \in Upserts(batch, r) : k <= Max(Upserts(batch, r))
    BY <1>1, <1>5, <2>1, MaxBounds
  <2> QED BY <1>4, <1>5, <2>2
<1>6. ASSUME NEW r \in Rows
      PROVE  /\ disk'.rows[r] \in [ver : Nat, there : BOOLEAN]
             /\ disk.rows[r].ver <= disk'.rows[r].ver /\ disk'.rows[r].ver <= written
             /\ \A q \in Waiting : q.job = "upsert" /\ q.row = r => disk'.rows[r].ver <= q.ver
  <2>1. CASE Upserts(batch, r) = {}
    BY <1>2, <1>4, <2>1 DEF Shapes
  <2>2. CASE Upserts(batch, r) # {}
    <3>1. PICK i \in Upserts(batch, r) : disk'.rows[r] = [ver |-> batch[i].ver, there |-> TRUE]
      BY <1>5, <2>2
    <3>2. batch[i] \in Range(batch) /\ batch[i].job = "upsert" /\ batch[i].row = r
      BY <1>3 DEF Upserts
    <3> QED BY <1>2, <3>1, <3>2
  <2> QED BY <2>1, <2>2
<1>7. ASSUME NEW j \in Range(batch), j.job = "upsert" PROVE Durable(j.ver, j.row)'
  <2>1. PICK k \in DOMAIN batch : j = batch[k]
    BY DEF Range
  <2>2. k \in Upserts(batch, j.row) /\ j.row \in Rows /\ j.ver \in Nat
    BY <1>2, <1>7, <2>1 DEF Upserts
  <2>3. PICK i \in Upserts(batch, j.row) :
           disk'.rows[j.row] = [ver |-> batch[i].ver, there |-> TRUE] /\ k <= i
    BY <1>5, <2>2
  <2>4. i \in DOMAIN batch /\ i \in Nat /\ k \in Nat
    BY <1>1, <2>3 DEF Upserts
  <2>5. k = i \/ k < i
    BY <2>3, <2>4
  <2>6. batch[k].ver <= batch[i].ver
    BY <1>2, <2>1, <2>2, <2>4, <2>5 DEF Ordered
  <2> QED BY <2>1, <2>3, <2>6 DEF Durable
<1>8. \A j \in Range(batch) : j.job = "log" => j.ver \in disk'.log
  BY <1>4 DEF Logged, Range
<1>9. DiskGrows
  BY <1>4, <1>6 DEF DiskGrows
<1>10. \A q \in Waiting : q.job = "upsert" => disk'.rows[q.row].ver <= q.ver
  <2>1. \A q \in Waiting : q.row \in Rows
    BY <1>1 DEF InOrder
  <2> QED BY <1>6, <2>1
<1>11. ASSUME NEW r \in Rows, disk'.rows[r] # disk.rows[r]
       PROVE  \E j \in Held : /\ j.job = "upsert" /\ j.row = r
                              /\ disk'.rows[r] = [ver |-> j.ver, there |-> TRUE]
  <2>1. Upserts(batch, r) # {}
    BY <1>4, <1>11
  <2>2. PICK i \in Upserts(batch, r) : disk'.rows[r] = [ver |-> batch[i].ver, there |-> TRUE]
    BY <1>5, <2>1
  <2>3. batch[i] \in Held /\ batch[i].job = "upsert" /\ batch[i].row = r
    BY <1>1, <1>3 DEF Upserts
  <2> QED BY <2>2, <2>3
<1> QED BY <1>1, <1>6, <1>7, <1>8, <1>9, <1>10, <1>11

LEMMA CommitKeeps ==
    ASSUME Inv, Commit
    PROVE  Inv'
<1> USE DEF Inv
<1>1. /\ writer.at = "commit" /\ writer.at # "idle" /\ disk' = Committed(disk, writer.batch)
      /\ UNCHANGED <<actor, pending, replies, owing, queue, broken, copying, copies, acked, heard,
                     lost, written>>
  BY DEF Commit, engineVars, fileVars, history
<1>2. /\ DiskGrows /\ \A r \in Rows : disk'.rows[r].ver <= written
      /\ \A j \in Held : /\ j.job = "upsert" => Durable(j.ver, j.row)'
                         /\ j.job = "log" => j.ver \in disk'.log
      /\ \A j \in Waiting : j.job = "upsert" => disk'.rows[j.row].ver <= j.ver
  BY <1>1, CommittedIsNewer
<1>3. CASE writer' = Idle /\ landed' = landed \cup Answered(writer.batch)
  <2>1. Held = Range(writer.batch)
    BY <1>1 DEF Held
  <2>2. \A x \in landed' : \/ x \in landed
                           \/ \E j \in Held : /\ x = Id(j)
                                              /\ j.job = "upsert" => Durable(j.ver, j.row)'
                                              /\ j.job = "log" => j.ver \in disk'.log
    BY <1>2, <1>3, <2>1, AnsweredIds
  <2> QED BY <1>1, <1>2, <1>3, <2>2, GroupAnswered
<1>4. CASE writer' = [writer EXCEPT !.at = "order"] /\ landed' = landed
  <2>1. writer' = [at |-> "order", batch |-> writer.batch] /\ IsSeq(writer.batch)
    BY <1>1, <1>4 DEF Shapes, Idle
  <2>2. /\ Held = Range(writer.batch) /\ Held' = Held /\ Waiting' = Waiting
        /\ Unanswered' = Unanswered /\ Busy' = Busy /\ writer'.at = "order"
        /\ writer'.batch = writer.batch
    BY <1>1, <2>1 DEF Held, Waiting, Unanswered, Busy
  <2>3. \A n : Unlogged(n)' <=> Unlogged(n)
    BY <1>1, <1>4 DEF Unlogged
  <2>4. \A n \in Nat, r \in Rows : Durable(n, r) => Durable(n, r)'
    BY <1>2, DurableStays
  <2>5. Shapes'
    BY <1>1, <1>2, <2>1 DEF Shapes, DiskGrows
  <2>6. CopiesOfRows'
    BY <1>1 DEF CopiesOfRows
  <2>7. InOrder'
    BY <1>1, <1>2, <2>2, <2>3 DEF InOrder, Ordered
  <2>8. OrderIsLast'
    BY <1>2, <2>2 DEF OrderIsLast
  <2>9. Answers'
    BY <1>1, <1>2, <1>4 DEF Answers, DiskGrows
  <2>10. InHand'
    <3> SUFFICES ASSUME Busy PROVE InHand'
      BY <2>2 DEF InHand
    <3> PICK n : n = actor.ver /\ n = actor'.ver
      BY <1>1
    <3> PICK r : r = actor.row /\ r = actor'.row
      BY <1>1
    <3>1. n = written /\ n \in Nat /\ r \in Rows
      BY DEF InHand, Shapes
    <3>2. Durable(n, r) => Durable(n, r)'
      BY <2>4, <3>1
    <3>3. \A x : Has(actor.left, x)' <=> Has(actor.left, x)
      BY <1>1 DEF Has
    <3>4. /\ actor.kind = "delete" => ~Has(actor.left, "upsert") /\ Durable(n, r)'
          /\ actor.kind # "delete" =>
                /\ Has(actor.left, "upsert") \/ <<n, "upsert">> \in pending
                /\ \/ Has(actor.left, "upsert")
                   \/ Unlogged(n) /\ \E j \in Unanswered : j.ver = n /\ j.job = "upsert"
                   \/ Durable(n, r)'
                   \/ n \in lost
          /\ <<n, "upsert">> \in landed => Durable(n, r)'
      BY <3>2 DEF InHand
    <3>5. /\ actor.kind \in Kinds /\ (actor.kind = "tempo" => actor.from = "tick" /\ r \in Masters)
          /\ Submission(actor.left, n, r)
          /\ \A j \in Unanswered : j.ver = n => j.row = r
          /\ Has(actor.left, "upsert") => /\ \A j \in Unanswered : j.ver # n
                                         /\ <<n, "upsert">> \notin landed /\ Unlogged(n)
          /\ actor.kind # "tempo" =>
                Has(actor.left, "log") \/ actor.waits = {<<n, "log">>} \/ ~Unlogged(n)
      BY DEF InHand
    <3>6. /\ actor' = actor /\ pending' = pending /\ landed' = landed /\ lost' = lost
          /\ written' = written
      BY <1>1, <1>4
    <3> QED BY <2>2, <2>3, <3>1, <3>3, <3>4, <3>5, <3>6 DEF InHand
  <2>11. Replying'
    BY <1>1, <1>4, <2>2, <2>4 DEF Replying
  <2>12. Told'
    BY <1>1, <1>2, ToldStays
  <2> QED BY <2>5, <2>6, <2>7, <2>8, <2>9, <2>10, <2>11, <2>12
<1> QED BY <1>3, <1>4 DEF Commit

LEMMA CommitFailsKeeps ==
    ASSUME Inv, CommitFails
    PROVE  Inv'
<1> USE DEF Inv
<1>1. /\ writer.at = "commit" /\ writer.at # "idle" /\ writer' = Idle
      /\ broken' = broken \cup Answered(writer.batch)
      /\ lost' = lost \cup {writer.batch[i].ver : i \in DOMAIN writer.batch}
      /\ UNCHANGED <<actor, pending, replies, owing, queue, disk, landed, copying, copies, acked,
                     heard, written>>
  BY DEF CommitFails, engineVars, fileVars
<1>2. /\ Held = Range(writer.batch)
      /\ Unanswered = Held \cup Waiting
  BY <1>1 DEF Held, Unanswered
<1>3. \A j \in Held : j.ver \in lost'
  BY <1>1, <1>2 DEF Range
<1>4. DiskGrows /\ \A r \in Rows : disk'.rows[r].ver <= written
  BY <1>1 DEF DiskGrows, Shapes
<1>5. \A x \in broken' : x \in broken \/ \E j \in Held : x = Id(j) /\ j.ver \in lost'
  BY <1>1, <1>2, <1>3, AnsweredIds
<1>6. \A j \in Waiting : j.job = "upsert" => disk'.rows[j.row].ver <= j.ver
  BY <1>1, <1>2 DEF InOrder
<1>7. lost \subseteq lost' /\ landed \subseteq landed' /\ broken \subseteq broken'
  BY <1>1
<1> QED BY <1>1, <1>3, <1>4, <1>5, <1>6, <1>7, GroupAnswered

LEMMA SaveOrderKeeps ==
    ASSUME Inv, SaveOrder
    PROVE  Inv'
<1> USE DEF Inv
<1>1. /\ writer.at = "order" /\ writer.at # "idle" /\ writer' = Idle
      /\ landed' = landed \cup Answered(writer.batch) /\ lost \subseteq lost'
      /\ UNCHANGED <<actor, pending, replies, owing, queue, broken, copying, copies, acked,
                     heard, written>>
  BY DEF SaveOrder, engineVars, fileVars
<1>2. /\ disk'.rows = disk.rows /\ disk'.log = disk.log
      /\ disk' = [rows |-> disk'.rows, order |-> disk'.order, log |-> disk'.log]
  BY DEF SaveOrder, Shapes
<1>3. Held = Range(writer.batch)
  BY <1>1 DEF Held
<1>4. DiskGrows /\ \A r \in Rows : disk'.rows[r].ver <= written
  BY <1>2 DEF DiskGrows, Shapes
<1>5. \A j \in Held : /\ j.job = "upsert" => Durable(j.ver, j.row)'
                      /\ j.job = "log" => j.ver \in disk'.log
  BY <1>1, <1>2 DEF OrderIsLast, Durable
<1>6. \A x \in landed' : \/ x \in landed
                         \/ \E j \in Held : /\ x = Id(j)
                                            /\ j.job = "upsert" => Durable(j.ver, j.row)'
                                            /\ j.job = "log" => j.ver \in disk'.log
  BY <1>1, <1>3, <1>5, AnsweredIds
<1>7. \A j \in Waiting : j.job = "upsert" => disk'.rows[j.row].ver <= j.ver
  BY <1>1, <1>2 DEF InOrder
<1> QED BY <1>1, <1>4, <1>5, <1>6, <1>7, GroupAnswered

-----------------------------------------------------------------------------
(***************************************************************************)
(* A crash takes what waits, and nobody was told of any of that.           *)
(***************************************************************************)
LEMMA RestartKeeps ==
    ASSUME Inv, Restart
    PROVE  Inv'
<1> USE DEF Inv
<1>1. /\ actor' = Idle /\ pending' = {} /\ replies' = {} /\ queue' = <<>> /\ writer' = Idle
      /\ copying' = <<>> /\ lost \subseteq lost'
      /\ UNCHANGED <<disk, landed, broken, copies, acked, heard, written>>
  BY DEF Restart
<1>2. \A r \in owing' : r \in Rows
  BY DEF Restart, CopiesOfRows
<1>3. /\ Held' = {} /\ Waiting' = {} /\ Unanswered' = {} /\ ~Busy' /\ writer'.at = "idle"
  BY <1>1 DEF Held, Waiting, Unanswered, Busy, Idle, Range
<1>4. Shapes'
  BY <1>1, NothingIsSeq DEF Shapes
<1>5. CopiesOfRows'
  BY <1>1, <1>2, NothingIsSeq DEF CopiesOfRows, Range
<1>6. InOrder'
  BY <1>1, <1>3, NothingIsSeq DEF InOrder, Ordered
<1>7. Answers'
  BY <1>1 DEF Answers
<1>8. Told'
  BY <1>1 DEF Told, Durable
<1> QED BY <1>1, <1>3, <1>4, <1>5, <1>6, <1>7, <1>8 DEF OrderIsLast, InHand, Replying

Sources == {"client", "peer", "undo", "tick"}

\* What every way into a command has in common.
Starts(kind, from, r) ==
    /\ Begin(kind, from, r)
    /\ owing' \subseteq owing
    /\ kind = "tempo" => from = "tick" /\ r \in Masters
    /\ kind = "delete" => r \notin Kept
    /\ kind # "create" => shown[r].there
    /\ kind = "create" => shown[r].ver = 0 \/ ~shown[r].there \/ r \in owing

LEMMA CommandStarts ==
    ASSUME CopiesOfRows, Command
    PROVE  Refused \/ \E kind \in Kinds, from \in Sources, r \in Rows : Starts(kind, from, r)
<1>1. ASSUME NEW from \in Sources, Create(from) \/ Replace(from) \/ Delete(from)
      PROVE  \E kind \in Kinds, r \in Rows : Starts(kind, from, r)
  <2>1. CASE Create(from)
    <3>1. PICK r \in Rows : shown[r].ver = 0 /\ Begin("create", from, r) /\ owing' = owing
      BY <2>1 DEF Create
    <3>2. Starts("create", from, r)
      BY <3>1 DEF Starts
    <3> QED BY <3>2 DEF Kinds
  <2>2. CASE Replace(from)
    <3>1. PICK r \in Rows : shown[r].there /\ Begin("replace", from, r) /\ owing' = owing
      BY <2>2 DEF Replace
    <3>2. Starts("replace", from, r)
      BY <3>1 DEF Starts
    <3> QED BY <3>2 DEF Kinds
  <2>3. CASE Delete(from)
    <3>1. PICK r \in Rows \ Kept :
             shown[r].there /\ Begin("delete", from, r) /\ owing' = owing
      BY <2>3 DEF Delete
    <3>2. Starts("delete", from, r)
      BY <3>1 DEF Starts
    <3> QED BY <3>2 DEF Kinds
  <2> QED BY <1>1, <2>1, <2>2, <2>3
<1>2. CASE TakeBack
  <2>1. CASE Replace("undo") \/ Delete("undo")
    BY <1>1, <2>1 DEF Sources
  <2>2. CASE \E r \in Rows : ~shown[r].there /\ Begin("create", "undo", r) /\ owing' = owing
    <3>1. PICK r \in Rows : ~shown[r].there /\ Begin("create", "undo", r) /\ owing' = owing
      BY <2>2
    <3>2. Starts("create", "undo", r)
      BY <3>1 DEF Starts
    <3> QED BY <3>2 DEF Kinds, Sources
  <2> QED BY <1>2, <2>1, <2>2 DEF TakeBack
<1>3. CASE DriveTempo
  <2>1. PICK r \in Masters : shown[r].there /\ Begin("tempo", "tick", r) /\ owing' = owing
    BY <1>3 DEF DriveTempo
  <2>2. Starts("tempo", "tick", r) /\ r \in Rows
    BY <2>1, RowsAssumption DEF Starts
  <2> QED BY <2>2 DEF Kinds, Sources
<1>4. CASE PutBack
  <2>1. PICK r \in owing : Begin("create", "client", r) /\ owing' = owing \ {r}
    BY <1>4 DEF PutBack
  <2>2. Starts("create", "client", r) /\ r \in Rows
    BY <2>1 DEF Starts, CopiesOfRows
  <2> QED BY <2>2 DEF Kinds, Sources
<1>5. CASE \E from \in {"client", "peer"} : Create(from) \/ Replace(from) \/ Delete(from)
  BY <1>1, <1>5 DEF Sources
<1> QED BY <1>2, <1>3, <1>4, <1>5 DEF Command

LEMMA CommandKeeps ==
    ASSUME MastersAreKept, Inv, Command
    PROVE  Inv'
<1>1. CASE Refused
  BY <1>1, RefusedKeeps
<1>2. CASE \E kind \in Kinds, from \in Sources, r \in Rows : Starts(kind, from, r)
  <2>1. PICK kind \in Kinds, from \in Sources, r \in Rows : Starts(kind, from, r)
    BY <1>2
  <2> QED BY <2>1, BeginKeeps DEF Starts
<1> QED BY <1>1, <1>2, CommandStarts DEF Inv

LEMMA NextKeeps ==
    ASSUME MastersAreKept, Inv, [Next]_vars
    PROVE  Inv'
<1>1. CASE Command
  BY <1>1, CommandKeeps
<1>2. CASE Engine
  BY <1>2, SubmitKeeps, FinishKeeps, ReplyKeeps DEF Engine
<1>3. CASE Disk
  BY <1>3, GatherKeeps, CommitKeeps, CommitFailsKeeps, SaveOrderKeeps DEF Disk
<1>4. CASE Checkpointer
  BY <1>4, CheckpointerKeeps
<1>5. CASE Restart
  BY <1>5, RestartKeeps
<1>6. CASE UNCHANGED vars
  BY <1>6, RestKeeps DEF Inv, CopiesOfRows, vars, engineVars, fileVars, history
<1> QED BY <1>1, <1>2, <1>3, <1>4, <1>5, <1>6 DEF Next

(***************************************************************************)
(* Nobody, client or peer, is told of a write that the disk of the station *)
(* that made it does not have, whatever group fails and whenever the       *)
(* station goes down: the wait of log_operation before the broadcast, the  *)
(* receipts of write_through before the reply, and the one queue behind    *)
(* both.                                                                   *)
(***************************************************************************)
THEOREM ToldIsOnDiskAlways == ASSUME MastersAreKept PROVE Spec => []ToldIsOnDisk
<1>1. Init => Inv
  BY InitHolds
<1>2. Inv /\ [Next]_vars => Inv'
  BY NextKeeps
<1>3. Inv => ToldIsOnDisk
  BY InvIsEnough
<1> QED BY <1>1, <1>2, <1>3, PTL DEF Spec

-----------------------------------------------------------------------------
(***************************************************************************)
(* A submission is made once and answered once.                            *)
(***************************************************************************)
\* What the command in hand still has to submit.
Unsent == IF Busy THEN Range(actor.left) ELSE {}

Numbered == (1 .. written) \X JobKinds

Once ==
    /\ \A j \in Unsent \cup Unanswered : Id(j) \in Numbered /\ Id(j) \notin landed \cup broken
    /\ \A a \in Unsent, u \in Unanswered : Id(a) # Id(u)
    /\ \A b \in Held, q \in Waiting : Id(b) # Id(q)
    /\ landed \cup broken \cup pending \subseteq Numbered
    /\ landed \cap broken = {}
    /\ \A w \in replies : w.receipts \subseteq Numbered
    /\ written \in 0 .. MaxWrites

LEMMA InitOnce ==
    ASSUME Init
    PROVE  Once
<1>1. Held = {} /\ Waiting = {} /\ Unanswered = {} /\ Unsent = {}
  BY DEF Init, Idle, Held, Waiting, Unanswered, Range, Busy, Unsent
<1>2. MaxWrites \in Nat
  BY BoundsAssumption
<1> QED BY <1>1, <1>2 DEF Init, Once

\* A write has a number no write had.
LEMMA BeginOnce ==
    ASSUME Inv, Once, NEW kind \in Kinds, NEW from, NEW r \in Rows, Begin(kind, from, r)
    PROVE  Once'
<1> PICK n : n = written + 1
  OBVIOUS
<1>1. /\ actor = Idle /\ written' = n /\ written < MaxWrites
      /\ actor' = [at |-> "busy", ver |-> n, row |-> r, kind |-> kind, from |-> from,
                   left |-> Jobs(kind, from, n, r, listed'), waits |-> {}]
      /\ UNCHANGED <<pending, replies, queue, writer, landed, broken>>
  BY DEF Begin
<1>2. Unanswered' = Unanswered /\ Held' = Held /\ Waiting' = Waiting
  BY <1>1 DEF Unanswered, Held, Waiting
<1>3. n \in 0 .. MaxWrites /\ n \in 1 .. n /\ Numbered \subseteq Numbered'
      /\ \A x \in Numbered : x[1] # n
  <2>1. MaxWrites \in Nat /\ written \in 0 .. MaxWrites
    BY BoundsAssumption DEF Once
  <2> QED BY <1>1, <2>1 DEF Numbered
<1>4. \A j \in Unsent' : j.ver = n /\ j.job \in JobKinds
  <2>1. actor'.left = Jobs(kind, from, n, r, listed') /\ Unsent' = Range(actor'.left)
    BY <1>1 DEF Unsent, Busy
  <2> QED BY <2>1, JobsInOrder DEF Submission
<1>5. \A j \in Unsent' : Id(j) \in Numbered' /\ Id(j) \notin Numbered
  BY <1>1, <1>3, <1>4 DEF Id, Numbered
<1> QED BY <1>1, <1>2, <1>3, <1>5 DEF Once

\* What submits nothing, takes nothing and is not answered.
LEMMA RestOnce ==
    ASSUME Once, UNCHANGED <<landed, broken, written>>,
           Unsent' \subseteq Unsent, Held' \cup Waiting' \subseteq Unanswered,
           (Held' = Held /\ Waiting' = Waiting) \/ Held' = {} \/ Waiting' = {},
           pending' \subseteq pending,
           \A w \in replies' : w \in replies \/ w.receipts = pending
    PROVE  Once'
<1>1. Numbered' = Numbered /\ Unanswered' \subseteq Unanswered
  BY DEF Numbered, Unanswered
<1> QED BY <1>1 DEF Once

LEMMA SubmitOnce ==
    ASSUME Inv, Once, Submit
    PROVE  Once'
<1> PICK j : j = Head(actor.left)
  OBVIOUS
<1>1. /\ actor # Idle /\ actor.left # <<>>
      /\ actor' = [actor EXCEPT !.left = Tail(@),
                                !.waits = IF j.job = "log" THEN {Id(j)} ELSE {}]
      /\ queue' = IF j.job = "forget" THEN queue ELSE Append(queue, j)
      /\ pending' = IF j.job \in Bodies THEN pending \cup {Id(j)} ELSE pending
      /\ UNCHANGED <<replies, writer, landed, broken, written>>
  BY DEF Submit, Bodies
<1>2. Busy /\ actor'.left = Tail(actor.left) /\ actor'.at = "busy"
  BY <1>1 DEF Inv, Shapes, Busy
<1>3. Submission(actor.left, actor.ver, actor.row)
  BY <1>2 DEF Inv, InHand
<1>4. /\ Unsent = {j} \cup Unsent'
      /\ \A x \in Unsent' : x.job # j.job
  <2>1. Unsent = Range(actor.left) /\ Unsent' = Range(Tail(actor.left))
    BY <1>2 DEF Unsent, Busy
  <2> QED BY <1>1, <1>3, <2>1, Later DEF Goes
<1>5. \A x \in Unsent' : Id(x) # Id(j)
  BY <1>4 DEF Id
<1>6. Held' = Held /\ Waiting' \subseteq Waiting \cup {j}
  BY <1>1, RangeOfAppended DEF Held, Waiting, Inv, Shapes
<1>7. Unanswered' \subseteq Unanswered \cup {j} /\ Numbered' = Numbered
  BY <1>1, <1>6 DEF Unanswered, Numbered
<1>8. \A b \in Held, q \in Waiting' : Id(b) # Id(q)
  BY <1>4, <1>6 DEF Once, Unanswered
<1>9. pending' \subseteq Numbered
  BY <1>1, <1>4 DEF Once
<1>10. \A a \in Unsent', u \in Unanswered' : Id(a) # Id(u)
  BY <1>4, <1>5, <1>7 DEF Once
<1> QED BY <1>1, <1>4, <1>6, <1>7, <1>8, <1>9, <1>10 DEF Once

LEMMA AnswerOnce ==
    ASSUME Inv, Once, writer.at # "idle", writer' = Idle,
           \/ landed' = landed \cup Answered(writer.batch) /\ broken' = broken
           \/ broken' = broken \cup Answered(writer.batch) /\ landed' = landed,
           UNCHANGED <<actor, pending, replies, queue, written>>
    PROVE  Once'
<1>1. /\ Held = Range(writer.batch) /\ Held' = {} /\ Waiting' = Waiting
      /\ Unanswered = Held \cup Waiting /\ Unanswered' = Waiting
      /\ Unsent' = Unsent /\ Numbered' = Numbered
  BY DEF Held, Waiting, Unanswered, Unsent, Busy, Idle, Numbered
<1>2. \A x : x \in Answered(writer.batch) <=> \E j \in Held : x = Id(j)
  BY <1>1, AnsweredIds
<1>3. \A j \in Unsent \cup Waiting : Id(j) \notin Answered(writer.batch)
  BY <1>1, <1>2 DEF Once
<1>4. Answered(writer.batch) \subseteq Numbered /\ Answered(writer.batch) \cap (landed \cup broken) = {}
  BY <1>1, <1>2 DEF Once
<1> QED BY <1>1, <1>3, <1>4 DEF Once

LEMMA HeldStays ==
    ASSUME Inv, writer.at = "commit", writer' = [writer EXCEPT !.at = "order"]
    PROVE  Held' = Held
<1>1. writer = [at |-> "commit", batch |-> writer.batch]
  BY DEF Inv, Shapes, Idle
<1> PICK w, b : w = writer /\ b = writer.batch
  OBVIOUS
<1>2. writer' = [w EXCEPT !.at = "order"] /\ w = [at |-> "commit", batch |-> b]
  BY <1>1
<1>3. writer'.at = "order" /\ writer'.batch = b
  BY <1>2
<1> QED BY <1>3 DEF Held

LEMMA NextOnce ==
    ASSUME Inv, Once, [Next]_vars
    PROVE  Once'
<1>1. CASE UNCHANGED <<actor, pending, queue, writer, landed, broken, written>>
           /\ replies' \subseteq replies
  <2>1. Unsent' = Unsent /\ Held' = Held /\ Waiting' = Waiting /\ Unanswered = Held \cup Waiting
    BY <1>1 DEF Unsent, Held, Waiting, Busy, Unanswered
  <2> QED BY <1>1, <2>1, RestOnce
<1>2. CASE Command
  <2>1. CASE Refused
    <3>1. Unsent' = Unsent /\ Held' = Held /\ Waiting' = Waiting /\ Unanswered = Held \cup Waiting
      BY <2>1 DEF Refused, Unsent, Held, Waiting, Busy, Unanswered
    <3> QED BY <2>1, <3>1, RestOnce DEF Refused
  <2>2. CASE \E kind \in Kinds, from \in Sources, r \in Rows : Starts(kind, from, r)
    <3>1. PICK kind \in Kinds, from \in Sources, r \in Rows : Starts(kind, from, r)
      BY <2>2
    <3> QED BY <3>1, BeginOnce DEF Starts
  <2> QED BY <1>2, <2>1, <2>2, CommandStarts DEF Inv
<1>3. CASE Submit
  BY <1>3, SubmitOnce
<1>4. CASE Finish
  <2>1. /\ Unsent' = {} /\ Held' = Held /\ Waiting' = Waiting /\ Unanswered = Held \cup Waiting
        /\ UNCHANGED <<landed, broken, written>>
        /\ pending' \subseteq pending
        /\ \A w \in replies' : w \in replies \/ w.receipts = pending
    BY <1>4 DEF Finish, Unsent, Held, Waiting, Busy, Idle, Unanswered
  <2> QED BY <2>1, RestOnce
<1>5. CASE Reply \/ Checkpointer \/ UNCHANGED vars
  BY <1>1, <1>5 DEF Reply, Checkpointer, TakeCopy, Forget, vars, engineVars
<1>6. CASE Gather
  <2>1. /\ Unsent' = Unsent /\ Held' = Waiting /\ Waiting' = {} /\ Unanswered = Held \cup Waiting
        /\ UNCHANGED <<landed, broken, written, pending, replies>>
    BY <1>6 DEF Gather, engineVars, Unsent, Held, Waiting, Busy, Idle, Unanswered, Range
  <2> QED BY <2>1, RestOnce
<1>7. CASE Commit
  <2>1. CASE Orders(writer.batch) = {}
    BY <1>7, <2>1, AnswerOnce DEF Commit, engineVars
  <2>2. CASE Orders(writer.batch) # {}
    <3>1. writer.at = "commit" /\ writer' = [writer EXCEPT !.at = "order"]
      BY <1>7, <2>2 DEF Commit
    <3>2. Held' = Held
      BY <3>1, HeldStays
    <3>3. UNCHANGED <<actor, pending, replies, queue, landed, broken, written>>
      BY <1>7, <2>2 DEF Commit, engineVars
    <3>4. Unsent' = Unsent /\ Waiting' = Waiting /\ Unanswered = Held \cup Waiting
      BY <3>3 DEF Unsent, Waiting, Busy, Unanswered
    <3> QED BY <3>2, <3>3, <3>4, RestOnce
  <2> QED BY <2>1, <2>2
<1>8. CASE CommitFails
  BY <1>8, AnswerOnce DEF CommitFails, engineVars
<1>9. CASE SaveOrder
  BY <1>9, AnswerOnce DEF SaveOrder, engineVars
<1>10. CASE Restart
  <2>1. /\ Unsent' = {} /\ Held' = {} /\ Waiting' = {} /\ pending' = {} /\ replies' = {}
        /\ UNCHANGED <<landed, broken, written>>
    BY <1>10 DEF Restart, Unsent, Held, Waiting, Busy, Idle, Range
  <2> QED BY <2>1, RestOnce
<1> QED BY <1>2, <1>3, <1>4, <1>5, <1>6, <1>7, <1>8, <1>9, <1>10 DEF Next, Engine, Disk

-----------------------------------------------------------------------------
(***************************************************************************)
(* Versions.  What waits at a barrier has its row before it: on the disk,  *)
(* in a group that failed, or submitted and in no later group.             *)
(***************************************************************************)
RowBefore(j) ==
    \/ Durable(j.ver, j.row)
    \/ j.ver \in lost
    \/ \E u \in Unanswered : /\ u.job = "upsert" /\ u.ver = j.ver /\ u.row = j.row
                             /\ j \in Held => u \in Held

Copied ==
    /\ \A j \in Range(copying) :
          /\ j.ver \in 0 .. written
          /\ \A u \in Unanswered : u.ver = j.ver => u.row = j.row
          /\ Busy /\ j.ver = actor.ver => j.row = actor.row
          /\ j.job = "barrier" /\ Id(j) \in landed => Durable(j.ver, j.row) \/ j.ver \in lost
    /\ \A j \in Unanswered : j.job = "barrier" => RowBefore(j)
    /\ CopyHoldsItsRow

LEMMA InitCopied ==
    ASSUME Init
    PROVE  Copied
<1>1. Unanswered = {} /\ Range(copying) = {}
  BY DEF Init, Idle, Held, Waiting, Unanswered, Range
<1> QED BY <1>1 DEF Init, Copied, CopyHoldsItsRow

\* The queue, the group and the checkpointer left alone.
LEMMA RestCopied ==
    ASSUME Inv, Copied, DiskGrows, written' \in Nat, written <= written',
           UNCHANGED <<queue, landed, lost, copying, copies>>,
           Held' = Held,
           Busy' => (Busy /\ actor' = actor) \/ actor'.ver > written
    PROVE  Copied'
<1>1. Waiting' = Waiting /\ Unanswered' = Unanswered
  BY DEF Waiting, Unanswered
<1>2. \A n \in Nat, r \in Rows : Durable(n, r) => Durable(n, r)'
  BY DurableStays DEF Inv
<1>3. ASSUME NEW j \in Range(copying)
      PROVE  /\ j.ver \in 0 .. written' /\ (Busy' /\ j.ver = actor'.ver => j.row = actor'.row)
             /\ j.job = "barrier" /\ Id(j) \in landed => Durable(j.ver, j.row)' \/ j.ver \in lost
  <2>1. /\ j.ver \in 0 .. written /\ j.ver \in Nat /\ j.row \in Rows /\ written \in Nat
        /\ j.ver \in 0 .. written'
    BY DEF Copied, Inv, CopiesOfRows, Shapes
  <2>2. Busy' /\ j.ver = actor'.ver => Busy /\ actor' = actor
    BY <2>1
  <2> QED BY <1>2, <2>1, <2>2 DEF Copied
<1>4. ASSUME NEW j \in Unanswered, j.job = "barrier" PROVE RowBefore(j)'
  <2>1. j.ver \in Nat /\ j.row \in Rows
    BY DEF Inv, InOrder
  <2> QED BY <1>1, <1>2, <1>4, <2>1 DEF Copied, RowBefore
<1> QED BY <1>1, <1>3, <1>4 DEF Copied, CopyHoldsItsRow

LEMMA CheckpointerCopied ==
    ASSUME Inv, Copied, Checkpointer
    PROVE  Copied'
<1>1. /\ copying # <<>> /\ copying' = Tail(copying)
      /\ UNCHANGED <<actor, queue, writer, disk, landed, broken, lost, written>>
  BY DEF Checkpointer, TakeCopy, Forget, engineVars, history
<1>2. Head(copying) \in Range(copying) /\ Range(copying') \subseteq Range(copying)
  BY <1>1, RangeOfTail DEF Inv, CopiesOfRows
<1>3. /\ Held' = Held /\ Waiting' = Waiting /\ Unanswered' = Unanswered /\ Busy' = Busy
      /\ \A n, r : Durable(n, r)' <=> Durable(n, r)
  BY <1>1 DEF Held, Waiting, Unanswered, Busy, Durable
<1>4. CopyHoldsItsRow'
  <2>1. CASE Forget
    BY <1>1, <2>1 DEF Forget, OtherCopies, Copied, CopyHoldsItsRow
  <2>2. CASE TakeCopy
    <3> PICK j : j = Head(copying)
      OBVIOUS
    <3>1. /\ j.job = "barrier" /\ Settled({Id(j)})
          /\ copies' = IF Id(j) \in broken THEN copies
                       ELSE OtherCopies(j.row) \cup
                            {[row |-> j.row, ver |-> j.ver, rows |-> disk.rows]}
      BY <2>2 DEF TakeCopy
    <3>2. Id(j) \notin broken => Durable(j.ver, j.row) \/ j.ver \in lost
      BY <1>2, <3>1 DEF Settled, Copied
    <3>3. j.ver \in Nat /\ j.row \in Rows /\ disk.rows[j.row].ver \in Nat
      BY <1>2 DEF Copied, Inv, CopiesOfRows, Shapes
    <3>4. ASSUME NEW c \in copies', c.ver \notin lost PROVE c.rows[c.row].ver >= c.ver
      <4>1. CASE c \in copies
        BY <3>4, <4>1 DEF Copied, CopyHoldsItsRow
      <4>2. CASE c \notin copies
        <5>1. c = [row |-> j.row, ver |-> j.ver, rows |-> disk.rows] /\ Id(j) \notin broken
          BY <3>1, <4>2 DEF OtherCopies
        <5> QED BY <3>2, <3>3, <3>4, <5>1 DEF Durable
      <4> QED BY <4>1, <4>2
    <3> QED BY <1>1, <3>4 DEF CopyHoldsItsRow
  <2> QED BY <2>1, <2>2 DEF Checkpointer
<1> QED BY <1>1, <1>2, <1>3, <1>4 DEF Copied, RowBefore

LEMMA GatherCopied ==
    ASSUME Inv, Copied, Gather
    PROVE  Copied'
<1>1. /\ writer = Idle /\ writer' = [at |-> "commit", batch |-> queue] /\ queue' = <<>>
      /\ UNCHANGED <<actor, disk, landed, copying, copies, lost, written>>
  BY DEF Gather, engineVars, fileVars, history
<1>2. /\ Held = {} /\ Held' = Waiting /\ Unanswered = Waiting /\ Unanswered' = Waiting
      /\ Busy' = Busy /\ \A n, r : Durable(n, r)' <=> Durable(n, r)
  BY <1>1 DEF Held, Waiting, Unanswered, Busy, Durable, Idle, Range
<1> QED BY <1>1, <1>2 DEF Copied, RowBefore, CopyHoldsItsRow

\* The barrier of a command comes when its row was submitted.
LEMMA SubmitCopied ==
    ASSUME Inv, Once, Copied, Submit
    PROVE  Copied'
<1> PICK n : n = actor.ver
  OBVIOUS
<1> PICK r : r = actor.row
  OBVIOUS
<1> PICK j : j = Head(actor.left)
  OBVIOUS
<1>1. /\ actor # Idle /\ actor.left # <<>>
      /\ actor' = [actor EXCEPT !.left = Tail(@),
                                !.waits = IF j.job = "log" THEN {Id(j)} ELSE {}]
      /\ queue' = IF j.job = "forget" THEN queue ELSE Append(queue, j)
      /\ copying' = IF j.job \in {"barrier", "forget"} THEN Append(copying, j) ELSE copying
      /\ UNCHANGED <<writer, disk, landed, copies, lost, written>>
  BY DEF Submit, history
<1>2. Busy /\ Busy' /\ actor'.ver = n /\ actor'.row = r
  BY <1>1 DEF Inv, Shapes, Busy
<1>3. n = written /\ n \in Nat /\ r \in Rows /\ Submission(actor.left, n, r)
  BY <1>2 DEF Inv, InHand, Shapes
<1>4. /\ j \in Unsent /\ j.ver = n /\ j.row = r
      /\ j.job # "upsert" => ~Has(actor.left, "upsert")
  <2>1. Range(actor.left) = {j} \cup Range(Tail(actor.left))
        /\ \A x \in Range(Tail(actor.left)) : x.job # "upsert"
    BY <1>1, <1>3, Later DEF Goes
  <2> QED BY <1>2, <1>3, <2>1 DEF Submission, Unsent, Has
<1>5. Id(j) \notin landed /\ j \notin Unanswered
  BY <1>4 DEF Once
<1>6. Held' = Held /\ Waiting \subseteq Waiting' /\ Waiting' \subseteq Waiting \cup {j}
  BY <1>1, RangeOfAppended DEF Held, Waiting, Inv, Shapes
<1>7. Unanswered \subseteq Unanswered' /\ Unanswered' \subseteq Unanswered \cup {j}
  BY <1>6 DEF Unanswered
<1>8. \A m, q : Durable(m, q)' <=> Durable(m, q)
  BY <1>1 DEF Durable
<1>9. Range(copying') \subseteq Range(copying) \cup {j}
  BY <1>1, RangeOfAppended DEF Inv, CopiesOfRows
<1>10. ASSUME NEW x \in Range(copying')
       PROVE  /\ x.ver \in 0 .. written
              /\ \A u \in Unanswered' : u.ver = x.ver => u.row = x.row
              /\ x.ver = n => x.row = r
              /\ x.job = "barrier" /\ Id(x) \in landed => Durable(x.ver, x.row) \/ x.ver \in lost
  <2>1. CASE x = j
    <3>1. \A u \in Unanswered : u.ver = n => u.row = r
      BY <1>2 DEF Inv, InHand
    <3> QED BY <1>3, <1>4, <1>5, <1>7, <2>1, <3>1
  <2>2. CASE x \in Range(copying)
    BY <1>2, <1>4, <1>7, <2>2 DEF Copied
  <2> QED BY <1>9, <2>1, <2>2
<1>11. ASSUME NEW x \in Unanswered', x.job = "barrier" PROVE RowBefore(x)'
  <2>1. CASE x \in Unanswered
    BY <1>1, <1>6, <1>7, <1>8, <1>11, <2>1 DEF Copied, RowBefore
  <2>2. CASE x = j
    <3>1. x \notin Held' /\ ~Has(actor.left, "upsert")
      BY <1>4, <1>5, <1>6, <1>11, <2>2 DEF Unanswered
    <3>2. \/ \E u \in Unanswered : u.ver = n /\ u.job = "upsert"
          \/ Durable(n, r)
          \/ n \in lost
      BY <1>2, <3>1 DEF Inv, InHand
    <3>3. \A u \in Unanswered : u.ver = n => u.row = r
      BY <1>2 DEF Inv, InHand
    <3> QED BY <1>1, <1>4, <1>7, <1>8, <2>2, <3>1, <3>2, <3>3 DEF RowBefore
  <2> QED BY <1>7, <2>1, <2>2
<1> QED BY <1>1, <1>2, <1>7, <1>8, <1>10, <1>11 DEF Copied, CopyHoldsItsRow

LEMMA AnswerCopied ==
    ASSUME Inv, Copied, writer.at # "idle", writer' = Idle, DiskGrows, lost \subseteq lost',
           \A x \in landed' : x \in landed \/ \E j \in Held : x = Id(j),
           \A j \in Held : j.job = "upsert" => Durable(j.ver, j.row)' \/ j.ver \in lost',
           UNCHANGED <<actor, queue, copying, copies, written>>
    PROVE  Copied'
<1>1. /\ Held' = {} /\ Waiting' = Waiting /\ Unanswered' = Waiting /\ Busy' = Busy
      /\ Unanswered = Held \cup Waiting
  BY DEF Held, Waiting, Unanswered, Busy, Idle
<1>2. \A n \in Nat, r \in Rows : Durable(n, r) => Durable(n, r)'
  BY DurableStays DEF Inv
<1>3. ASSUME NEW j \in Unanswered, j.job = "barrier"
      PROVE  \/ Durable(j.ver, j.row)'
             \/ j.ver \in lost'
             \/ j \notin Held /\ \E u \in Waiting : /\ u.job = "upsert" /\ u.ver = j.ver
                                                   /\ u.row = j.row
  <2>1. j.ver \in Nat /\ j.row \in Rows /\ RowBefore(j)
    BY <1>3 DEF Inv, InOrder, Copied
  <2>2. CASE Durable(j.ver, j.row) \/ j.ver \in lost
    BY <1>2, <2>1, <2>2
  <2>3. CASE \E u \in Unanswered : /\ u.job = "upsert" /\ u.ver = j.ver /\ u.row = j.row
                                   /\ j \in Held => u \in Held
    <3>1. PICK u \in Unanswered : /\ u.job = "upsert" /\ u.ver = j.ver /\ u.row = j.row
                                  /\ j \in Held => u \in Held
      BY <2>3
    <3>2. u \in Held => Durable(j.ver, j.row)' \/ j.ver \in lost'
      <4>1. PICK m, q : m = j.ver /\ q = j.row
        OBVIOUS
      <4>2. u \in Held => Durable(u.ver, u.row)' \/ u.ver \in lost'
        BY <3>1
      <4> QED BY <3>1, <4>2 DEF Durable
    <3> QED BY <1>1, <3>1, <3>2
  <2> QED BY <2>1, <2>2, <2>3 DEF RowBefore
<1>4. ASSUME NEW j \in Range(copying), j.job = "barrier", Id(j) \in landed'
      PROVE  Durable(j.ver, j.row)' \/ j.ver \in lost'
  <2>1. j.ver \in Nat /\ j.row \in Rows
    BY DEF Inv, CopiesOfRows, Copied
  <2>2. CASE Id(j) \in landed
    BY <1>2, <1>4, <2>1, <2>2 DEF Copied
  <2>3. CASE \E b \in Held : Id(j) = Id(b)
    <3>1. PICK b \in Held : Id(j) = Id(b)
      BY <2>3
    <3>2. b \in Unanswered /\ b.job = "barrier" /\ b.ver = j.ver
      BY <1>1, <1>4, <3>1 DEF Id
    <3>3. b.row = j.row
      BY <3>2 DEF Copied
    <3>4. Durable(b.ver, b.row)' \/ b.ver \in lost'
      BY <1>3, <3>2
    <3> QED BY <3>2, <3>3, <3>4 DEF Durable
  <2> QED BY <1>4, <2>2, <2>3
<1>5. \A j \in Waiting : j.job = "barrier" => RowBefore(j)'
  BY <1>1, <1>3 DEF RowBefore
<1>6. \A j \in Range(copying) :
          /\ j.ver \in 0 .. written
          /\ \A u \in Waiting : u.ver = j.ver => u.row = j.row
          /\ Busy /\ j.ver = actor.ver => j.row = actor.row
  BY <1>1 DEF Copied
<1>7. CopyHoldsItsRow'
  BY DEF Copied, CopyHoldsItsRow
<1> QED BY <1>1, <1>4, <1>5, <1>6, <1>7 DEF Copied

LEMMA NextCopied ==
    ASSUME Inv, Once, Copied, [Next]_vars
    PROVE  Copied'
<1>1. CASE Command
  <2>1. CASE Refused
    <3>1. UNCHANGED <<actor, queue, writer, disk, landed, lost, written, copying, copies>>
      BY <2>1 DEF Refused, fileVars, history
    <3>2. Held' = Held /\ DiskGrows /\ written' \in Nat /\ written <= written' /\ Busy' = Busy
      BY <3>1 DEF Held, DiskGrows, Inv, Shapes, Busy
    <3> QED BY <3>1, <3>2, RestCopied
  <2>2. CASE \E kind \in Kinds, from \in Sources, r \in Rows : Starts(kind, from, r)
    <3>1. PICK kind \in Kinds, from \in Sources, r \in Rows : Begin(kind, from, r)
      BY <2>2 DEF Starts
    <3>2. /\ UNCHANGED <<queue, writer, landed, lost, copying, copies>>
          /\ written' = written + 1 /\ actor'.ver = written'
      BY <3>1 DEF Begin, fileVars, history
    <3>3. Held' = Held /\ written \in Nat
      BY <3>2 DEF Held, Inv, Shapes
    <3> QED BY <3>1, <3>2, <3>3, BeginOnDisk, RestCopied
  <2> QED BY <1>1, <2>1, <2>2, CommandStarts DEF Inv
<1>2. CASE Submit
  BY <1>2, SubmitCopied
<1>3. CASE Finish \/ Reply \/ UNCHANGED vars
  <2>1. /\ UNCHANGED <<queue, writer, disk, landed, lost, written, copying, copies>>
        /\ actor' = actor \/ actor' = Idle
    BY <1>3 DEF Finish, Reply, vars, engineVars, fileVars, history
  <2>2. /\ Held' = Held /\ DiskGrows /\ written' \in Nat /\ written <= written'
        /\ Busy' => Busy /\ actor' = actor
    BY <2>1 DEF Held, DiskGrows, Inv, Shapes, Busy, Idle
  <2> QED BY <2>1, <2>2, RestCopied
<1>4. CASE Gather
  BY <1>4, GatherCopied
<1>5. CASE Commit
  <2>1. /\ writer.at = "commit" /\ disk' = Committed(disk, writer.batch)
        /\ UNCHANGED <<actor, queue, lost, written, copying, copies>>
    BY <1>5 DEF Commit, engineVars, fileVars, history
  <2>2. /\ DiskGrows
        /\ \A j \in Held : j.job = "upsert" => Durable(j.ver, j.row)'
    BY <2>1, CommittedIsNewer
  <2>3. CASE writer' = Idle /\ landed' = landed \cup Answered(writer.batch)
    <3>1. \A x \in landed' : x \in landed \/ \E j \in Held : x = Id(j)
      BY <2>1, <2>3, AnsweredIds DEF Held
    <3> QED BY <2>1, <2>2, <2>3, <3>1, AnswerCopied
  <2>4. CASE writer' = [writer EXCEPT !.at = "order"] /\ landed' = landed
    <3>1. Held' = Held
      BY <2>1, <2>4, HeldStays
    <3>2. Busy' = Busy /\ written' \in Nat /\ written <= written'
      BY <2>1 DEF Inv, Shapes, Busy
    <3> QED BY <2>1, <2>2, <2>4, <3>1, <3>2, RestCopied
  <2> QED BY <1>5, <2>3, <2>4 DEF Commit
<1>6. CASE CommitFails
  <2>1. /\ writer.at # "idle" /\ writer' = Idle
        /\ lost' = lost \cup {writer.batch[i].ver : i \in DOMAIN writer.batch}
        /\ UNCHANGED <<actor, queue, disk, landed, written, copying, copies>>
    BY <1>6 DEF CommitFails, engineVars, fileVars
  <2>2. DiskGrows /\ \A j \in Held : j.ver \in lost'
    BY <2>1 DEF DiskGrows, Inv, Shapes, Held, Range
  <2> QED BY <2>1, <2>2, AnswerCopied
<1>7. CASE SaveOrder
  <2>1. /\ writer.at = "order" /\ writer.at # "idle" /\ writer' = Idle /\ lost \subseteq lost'
        /\ landed' = landed \cup Answered(writer.batch)
        /\ UNCHANGED <<actor, queue, written, copying, copies>>
    BY <1>7 DEF SaveOrder, engineVars, fileVars
  <2>2. /\ disk'.rows = disk.rows /\ disk'.log = disk.log
        /\ disk' = [rows |-> disk'.rows, order |-> disk'.order, log |-> disk'.log]
    BY <1>7 DEF SaveOrder, Inv, Shapes
  <2>3. DiskGrows
    BY <2>2 DEF DiskGrows, Inv, Shapes
  <2>4. \A j \in Held : j.job = "upsert" => Durable(j.ver, j.row)'
    BY <2>1, <2>2 DEF Inv, OrderIsLast, Durable
  <2>5. \A x \in landed' : x \in landed \/ \E j \in Held : x = Id(j)
    BY <2>1, AnsweredIds DEF Held
  <2> QED BY <2>1, <2>3, <2>4, <2>5, AnswerCopied
<1>8. CASE Checkpointer
  BY <1>8, CheckpointerCopied
<1>9. CASE Restart
  <2>1. /\ Unanswered' = {} /\ Range(copying') = {} /\ lost \subseteq lost' /\ copies' = copies
    BY <1>9 DEF Restart, Unanswered, Held, Waiting, Idle, Range
  <2> QED BY <2>1 DEF Copied, CopyHoldsItsRow
<1> QED BY <1>1, <1>2, <1>3, <1>4, <1>5, <1>6, <1>7, <1>8, <1>9 DEF Next, Engine, Disk

(***************************************************************************)
(* Whatever group fails and whenever the station goes down, the copy a     *)
(* version waits for is made of a file that has the write that made the    *)
(* version, unless that write was lost: the barrier of checkpoint, behind  *)
(* the row on the same queue.                                              *)
(***************************************************************************)
THEOREM CopiesHoldTheirRows == ASSUME MastersAreKept PROVE Spec => []CopyHoldsItsRow
<1>1. Init => Inv /\ Once /\ Copied
  BY InitHolds, InitOnce, InitCopied
<1>2. Inv /\ Once /\ Copied /\ [Next]_vars => (Inv /\ Once /\ Copied)'
  BY NextKeeps, NextOnce, NextCopied
<1>3. Copied => CopyHoldsItsRow
  BY DEF Copied
<1> QED BY <1>1, <1>2, <1>3, PTL DEF Spec

-----------------------------------------------------------------------------
(***************************************************************************)
(* The order of the rows: memory lists what is there, once, and the disk   *)
(* nothing twice.                                                          *)
(***************************************************************************)
Order(s) == s \in Seq(Rows) /\ IsInjective(s)

Lists ==
    /\ shown \in [Rows -> [ver : 0 .. written, there : BOOLEAN]]
    /\ Order(listed) /\ Order(disk.order)
    /\ \A r \in Rows : shown[r].there <=> r \in Range(listed)
    /\ \A j \in Unsent \cup Unanswered : j.job = "order" => Order(j.ids)
    /\ disk.log \subseteq 1 .. written
    /\ \A j \in Unsent \cup Range(copying) :
          j.job \in {"barrier", "forget"} => j.row \in Versions
    /\ \A j \in Range(copying) : j.job \in {"barrier", "forget"}
    /\ \A c \in copies : c.row \in Versions
    /\ owing \subseteq Versions
    /\ writer.at = "order" => Orders(writer.batch) # {}

LEMMA ListsAreTypes ==
    ASSUME Inv, Once, Lists
    PROVE  TypeOK
<1>1. written \in 0 .. MaxWrites /\ MaxWrites \in Nat /\ written \in Nat /\ written <= MaxWrites
  BY BoundsAssumption DEF Once
<1>2. {shown, disk.rows} \subseteq [Rows -> Row]
  <2>1. shown \in [Rows -> Row]
    BY <1>1 DEF Lists, Row
  <2>2. disk.rows \in [Rows -> Row]
    BY <1>1 DEF Inv, Shapes, Row
  <2> QED BY <2>1, <2>2
<1>3. \A r \in Rows : shown[r].there <=> r \in ToSet(listed)
  BY DEF Lists, ToSet, Range
<1>4. Numbered \subseteq Ids
  BY <1>1 DEF Numbered, Ids
<1>5. (landed \cup broken) \cap {Id(queue[i]) : i \in DOMAIN queue} = {}
  BY DEF Once, Unanswered, Waiting, Range
<1> QED BY <1>2, <1>3, <1>4, <1>5 DEF TypeOK, Once, Lists, Order

LEMMA InitLists ==
    ASSUME Init
    PROVE  Lists
<1>1. Unanswered = {} /\ Range(copying) = {} /\ Unsent = {}
  BY DEF Init, Idle, Held, Waiting, Unanswered, Range, Unsent, Busy
<1>2. Order(<<>>) /\ Range(<<>>) = {}
  BY EmptySeq DEF Order, IsInjective, Range
<1>3. shown \in [Rows -> [ver : 0 .. written, there : BOOLEAN]] /\ \A r \in Rows : ~shown[r].there
  BY DEF Init, Blank
<1>4. writer.at # "order"
  BY DEF Init, Idle
<1> QED BY <1>1, <1>2, <1>3, <1>4 DEF Init, Lists

LEMMA BeginListed ==
    ASSUME Lists, NEW kind, NEW from, NEW r \in Rows, Begin(kind, from, r)
    PROVE  /\ Order(listed')
           /\ \A q \in Rows : q \in Range(listed')
                               <=> IF q = r THEN kind # "delete" ELSE q \in Range(listed)
<1>1. listed \in Seq(Rows) /\ IsInjective(listed) /\ (shown[r].there <=> r \in Range(listed))
  BY DEF Lists, Order
<1>2. listed' = Listed(kind, r)
  BY DEF Begin
<1>3. CASE kind = "delete"
  <2>1. listed' = Among(Rows \ {r}, listed)
    BY <1>2, <1>3 DEF Listed
  <2>2. /\ Among(Rows \ {r}, listed) \in Seq(Rows) /\ IsInjective(Among(Rows \ {r}, listed))
        /\ Range(Among(Rows \ {r}, listed)) = Range(listed) \cap (Rows \ {r})
    BY <1>1, AmongHas
  <2> QED BY <1>3, <2>1, <2>2 DEF Order
<1>4. CASE kind # "delete" /\ ~shown[r].there
  <2>1. listed' = Append(listed, r)
    BY <1>2, <1>4 DEF Listed
  <2>2. IsInjective(listed')
    BY <1>1, <1>4, <2>1, OnceMore
  <2>3. Range(listed') = Range(listed) \cup {r} /\ listed' \in Seq(Rows)
    BY <1>1, <2>1, RangeOfAppended DEF IsSeq
  <2> QED BY <1>4, <2>2, <2>3 DEF Order
<1>5. CASE kind # "delete" /\ shown[r].there
  <2>1. listed' = listed
    BY <1>2, <1>5 DEF Listed
  <2> QED BY <1>1, <1>5, <2>1 DEF Order
<1> QED BY <1>3, <1>4, <1>5

LEMMA BeginLists ==
    ASSUME Inv, Once, Lists, NEW kind \in Kinds, NEW from, NEW r \in Rows, Begin(kind, from, r),
           owing' \subseteq owing
    PROVE  Lists'
<1> PICK n : n = written + 1
  OBVIOUS
<1>1. /\ actor = Idle /\ written' = n /\ written \in Nat /\ n \in Nat /\ written <= n
      /\ shown' = [shown EXCEPT ![r] = [ver |-> n, there |-> kind # "delete"]]
      /\ actor' = [at |-> "busy", ver |-> n, row |-> r, kind |-> kind, from |-> from,
                   left |-> Jobs(kind, from, n, r, listed'), waits |-> {}]
      /\ UNCHANGED <<queue, writer, copying, copies>>
  BY DEF Begin, fileVars, Inv, Shapes
<1>2. Unanswered' = Unanswered
  BY <1>1 DEF Unanswered, Held, Waiting
<1>3. /\ Order(listed')
      /\ \A q \in Rows : q \in Range(listed')
                         <=> IF q = r THEN kind # "delete" ELSE q \in Range(listed)
  BY BeginListed
<1>4. /\ shown' \in [Rows -> [ver : 0 .. n, there : BOOLEAN]]
      /\ \A q \in Rows : shown'[q] = IF q = r THEN [ver |-> n, there |-> kind # "delete"]
                                                 ELSE shown[q]
  <2>1. shown \in [Rows -> [ver : 0 .. written, there : BOOLEAN]]
    BY DEF Lists
  <2>2. shown \in [Rows -> [ver : 0 .. n, there : BOOLEAN]]
    BY <1>1, <2>1
  <2> QED BY <1>1, <2>2
<1>5. \A q \in Rows : shown'[q].there <=> q \in Range(listed')
  BY <1>3, <1>4 DEF Lists
<1>6. \A j \in Unsent' : /\ j.job = "order" => Order(j.ids)
                         /\ j.job \in {"barrier", "forget"} => j.row \in Versions
  <2>1. Unsent' = Range(Jobs(kind, from, n, r, listed'))
    BY <1>1 DEF Unsent, Busy
  <2>2. \A j \in Unsent' : j.row = r
    BY <2>1, JobsInOrder DEF Submission
  <2>3. PICK ids : ids = listed'
    OBVIOUS
  <2>4. \A j \in Range(Jobs(kind, from, n, r, ids)) :
           /\ j.job = "order" => j.ids = ids
           /\ j.job \in {"barrier", "forget"} => r \in Versions
    BY JobsSay
  <2> QED BY <1>3, <2>1, <2>2, <2>3, <2>4
<1>7. disk'.log = disk.log /\ disk'.order = disk.order
  BY BeginOnDisk
<1>8. disk.log \subseteq 1 .. n
  BY <1>1 DEF Lists
<1>9. \A j \in Unanswered : j.job = "order" => Order(j.ids)
  BY DEF Lists
<1>10. Order(disk.order)' /\ Order(listed)'
  BY <1>3, <1>7 DEF Lists, Order
<1>11. shown' \in [Rows -> [ver : 0 .. written', there : BOOLEAN]] /\ disk'.log \subseteq 1 .. written'
  BY <1>1, <1>4, <1>7, <1>8
<1>12. \A j \in Unsent' \cup Unanswered' : j.job = "order" => Order(j.ids)
  <2> SUFFICES ASSUME NEW j \in Unsent' \cup Unanswered', j.job = "order" PROVE Order(j.ids)
    OBVIOUS
  <2>1. CASE j \in Unsent'
    BY <1>6, <2>1
  <2>2. CASE j \in Unanswered'
    BY <1>2, <1>9, <2>2
  <2> QED BY <2>1, <2>2
<1>13. /\ \A j \in Unsent' \cup Range(copying') :
             j.job \in {"barrier", "forget"} => j.row \in Versions
       /\ \A j \in Range(copying') : j.job \in {"barrier", "forget"}
       /\ \A c \in copies' : c.row \in Versions
       /\ owing' \subseteq Versions
       /\ writer'.at = "order" => Orders(writer'.batch) # {}
  BY <1>1, <1>6 DEF Lists
<1> QED BY <1>5, <1>10, <1>11, <1>12, <1>13 DEF Lists, Order

\* What writes no row and submits only what the command had left.
LEMMA RestLists ==
    ASSUME Lists, UNCHANGED <<shown, listed, owing, written>>,
           Order(disk'.order), disk'.log \subseteq 1 .. written,
           Unsent' \subseteq Unsent, Unanswered' \subseteq Unsent \cup Unanswered,
           \A j \in Range(copying') :
              j \in Range(copying) \/ (j \in Unsent /\ j.job \in {"barrier", "forget"}),
           \A c \in copies' : c.row \in Versions,
           writer'.at = "order" => Orders(writer'.batch) # {}
    PROVE  Lists'
<1>1. \A j \in Unsent' \cup Unanswered' : j.job = "order" => Order(j.ids)
  BY DEF Lists
<1>2. \A j \in Range(copying') : j.job \in {"barrier", "forget"} /\ j.row \in Versions
  BY DEF Lists
<1>3. \A j \in Unsent' \cup Range(copying') :
          j.job \in {"barrier", "forget"} => j.row \in Versions
  BY <1>2 DEF Lists
<1>4. Order(listed)' /\ Order(disk.order)' /\ owing' \subseteq Versions
      /\ shown' \in [Rows -> [ver : 0 .. written', there : BOOLEAN]]
      /\ \A r \in Rows : shown'[r].there <=> r \in Range(listed')
  BY DEF Lists, Order
<1> QED BY <1>1, <1>2, <1>3, <1>4 DEF Lists, Order

LEMMA SubmitLists ==
    ASSUME Inv, Lists, Submit
    PROVE  Lists'
<1> PICK j : j = Head(actor.left)
  OBVIOUS
<1>1. /\ actor # Idle /\ actor.left # <<>>
      /\ actor' = [actor EXCEPT !.left = Tail(@),
                                !.waits = IF j.job = "log" THEN {Id(j)} ELSE {}]
      /\ queue' = IF j.job = "forget" THEN queue ELSE Append(queue, j)
      /\ copying' = IF j.job \in {"barrier", "forget"} THEN Append(copying, j) ELSE copying
      /\ UNCHANGED <<shown, listed, owing, writer, disk, copies, written>>
  BY DEF Submit
<1>2. Busy /\ actor'.left = Tail(actor.left) /\ actor'.at = "busy"
  BY <1>1 DEF Inv, Shapes, Busy
<1>3. Unsent = {j} \cup Unsent'
  <2>1. Submission(actor.left, actor.ver, actor.row)
    BY <1>2 DEF Inv, InHand
  <2>2. Unsent = Range(actor.left) /\ Unsent' = Range(Tail(actor.left))
    BY <1>2 DEF Unsent, Busy
  <2> QED BY <1>1, <2>1, <2>2, Later
<1>4. Unanswered' \subseteq Unanswered \cup {j}
  BY <1>1, RangeOfAppended DEF Held, Waiting, Unanswered, Inv, Shapes
<1>5. \A x \in Range(copying') :
          x \in Range(copying) \/ (x \in Unsent /\ x.job \in {"barrier", "forget"})
  <2>1. IsSeq(copying)
    BY DEF Inv, CopiesOfRows
  <2>2. Range(Append(copying, j)) = Range(copying) \cup {j}
    BY <2>1, RangeOfAppended
  <2> QED BY <1>1, <1>3, <2>2
<1>6. /\ Order(disk'.order) /\ disk'.log \subseteq 1 .. written
      /\ \A c \in copies' : c.row \in Versions
      /\ writer'.at = "order" => Orders(writer'.batch) # {}
  BY <1>1 DEF Lists
<1> QED BY <1>1, <1>3, <1>4, <1>5, <1>6, RestLists

LEMMA CommitLists ==
    ASSUME Inv, Once, Lists, Commit
    PROVE  Lists'
<1>1. /\ writer.at = "commit" /\ disk' = Committed(disk, writer.batch)
      /\ UNCHANGED <<shown, listed, owing, actor, queue, copying, copies, written>>
  BY DEF Commit, engineVars, fileVars
<1>2. Held = Range(writer.batch) /\ IsSeq(writer.batch)
  BY <1>1 DEF Held, Inv, Shapes, Idle
<1>3. Held' \subseteq Held
  <2>1. CASE writer' = Idle
    BY <2>1 DEF Held, Idle
  <2>2. CASE writer' = [writer EXCEPT !.at = "order"]
    BY <1>1, <2>2, HeldStays
  <2> QED BY <2>1, <2>2 DEF Commit
<1>4. Unsent' = Unsent /\ Unanswered' \subseteq Unanswered
  BY <1>1, <1>3 DEF Unsent, Busy, Unanswered, Waiting
<1>5. disk'.order = FoldLeft(Placed, disk.order, writer.batch)
      /\ disk'.log = disk.log \cup Logged(writer.batch)
  BY <1>1 DEF Committed
<1>6. Order(disk'.order)
  <2>1. disk.order \in Seq(Rows) /\ IsInjective(disk.order)
    BY DEF Lists, Order
  <2>2. \A j \in Range(writer.batch) : j.row \in Rows
    BY <1>2 DEF Unanswered, Inv, InOrder
  <2>3. /\ FoldLeft(Placed, disk.order, writer.batch) \in Seq(Rows)
        /\ IsInjective(FoldLeft(Placed, disk.order, writer.batch))
    BY <1>2, <2>1, <2>2, PlacedKeeps
  <2> QED BY <1>5, <2>3 DEF Order
<1>7. disk'.log \subseteq 1 .. written
  <2>1. \A x \in Logged(writer.batch) : \E j \in Held : x = j.ver
    BY <1>2 DEF Logged, Range
  <2>2. \A j \in Held : j.ver \in 1 .. written
    BY DEF Unanswered, Once, Numbered, Id
  <2> QED BY <1>5, <2>1, <2>2 DEF Lists
<1>8. /\ \A j \in Range(copying') : j \in Range(copying)
      /\ \A c \in copies' : c.row \in Versions
  BY <1>1 DEF Lists
<1>9. writer'.at = "order" => Orders(writer'.batch) # {}
  <2>1. CASE writer' = Idle
    BY <2>1 DEF Idle
  <2>2. CASE writer' = [writer EXCEPT !.at = "order"] /\ Orders(writer.batch) # {}
    <3>1. writer = [at |-> "commit", batch |-> writer.batch]
      BY <1>1 DEF Inv, Shapes, Idle
    <3> PICK w, b : w = writer /\ b = writer.batch
      OBVIOUS
    <3>2. writer' = [w EXCEPT !.at = "order"] /\ w = [at |-> "commit", batch |-> b]
      BY <2>2, <3>1
    <3>3. writer'.batch = b
      BY <3>2
    <3> QED BY <2>2, <3>3
  <2> QED BY <2>1, <2>2 DEF Commit
<1> QED BY <1>1, <1>4, <1>6, <1>7, <1>8, <1>9, RestLists

\* The order that is written is the last of the group.
LEMMA LastOrderHeld ==
    ASSUME Inv, Orders(writer.batch) # {}, writer.at # "idle"
    PROVE  /\ LastOrder(writer.batch) \in Held
           /\ LastOrder(writer.batch).job = "order"
<1>1. IsSeq(writer.batch)
  BY DEF Inv, Shapes, Idle
<1> PICK n : n = Len(writer.batch)
  OBVIOUS
<1>2. n \in Nat /\ DOMAIN writer.batch = 1 .. n
  BY <1>1, SeqDomain
<1>3. Orders(writer.batch) \in SUBSET Nat /\ \A i \in Orders(writer.batch) : i <= n
  BY <1>2 DEF Orders
<1>4. Max(Orders(writer.batch)) \in Orders(writer.batch)
  BY <1>2, <1>3, MaxBounds
<1> QED BY <1>4 DEF Orders, LastOrder, Held, Range

LEMMA SaveOrderLists ==
    ASSUME Inv, Lists, SaveOrder
    PROVE  Lists'
<1>1. /\ writer.at = "order" /\ writer' = Idle
      /\ UNCHANGED <<shown, listed, owing, actor, queue, copying, copies, written>>
      /\ disk' = [disk EXCEPT !.order = LastOrder(writer.batch).ids] \/ disk' = disk
  BY DEF SaveOrder, engineVars, fileVars
<1>2. Unsent' = Unsent /\ Unanswered' \subseteq Unanswered
  BY <1>1 DEF Unsent, Busy, Unanswered, Waiting, Held, Idle
<1>3. Order(LastOrder(writer.batch).ids)
  BY <1>1, LastOrderHeld DEF Lists, Unanswered, Idle
<1>4. disk'.log = disk.log /\ disk'.order \in {disk.order, LastOrder(writer.batch).ids}
  BY <1>1 DEF Inv, Shapes
<1>5. Order(disk'.order) /\ disk'.log \subseteq 1 .. written
  BY <1>3, <1>4 DEF Lists
<1>6. /\ \A j \in Range(copying') : j \in Range(copying)
      /\ \A c \in copies' : c.row \in Versions
  BY <1>1 DEF Lists
<1>7. writer'.at # "order"
  BY <1>1 DEF Idle
<1> QED BY <1>1, <1>2, <1>5, <1>6, <1>7, RestLists

\* What a start shows: the rows that are there, once.
LEMMA ReloadedLists ==
    ASSUME Lists, Shapes
    PROVE  /\ Order(Reloaded(disk))
           /\ \A r \in Rows : disk.rows[r].there <=> r \in Range(Reloaded(disk))
<1> PICK there : there = {r \in Rows : disk.rows[r].there}
  OBVIOUS
<1> PICK before : before = Among(there, disk.order)
  OBVIOUS
<1> PICK rest : rest = there \ Range(disk.order)
  OBVIOUS
<1> PICK after : after = SetToSeq(rest)
  OBVIOUS
<1>1. /\ before \in Seq(Rows) /\ IsInjective(before)
      /\ Range(before) = Range(disk.order) \cap there
  BY AmongHas DEF Lists, Order
<1>2. after \in Seq(rest) /\ IsInjective(after) /\ Range(after) = rest
  <2>1. IsFiniteSet(rest)
    BY FS_Subset, RowsAssumption
  <2> QED BY <2>1, SetListed
<1>3. after \in Seq(Rows)
  BY <1>2, SeqMonotonic
<1>4. PICK both : both = before \o after
  OBVIOUS
<1>5. both \in Seq(Rows) /\ Range(both) = there
  <2>1. IsSeq(before) /\ IsSeq(after)
    BY ONLY <1>1, <1>3 DEF IsSeq
  <2>3. both \in Seq(Rows)
    BY ONLY <1>1, <1>3, <1>4, ConcatProperties
  <2>2. Range(both) = Range(before) \cup Range(after)
    BY <1>4, <2>1, RangeOfConcat
  <2> QED BY <1>1, <1>2, <2>2, <2>3
<1>6. IsInjective(both)
  <2>1. /\ Len(before) \in Nat /\ DOMAIN before = 1 .. Len(before)
        /\ Len(after) \in Nat /\ DOMAIN after = 1 .. Len(after)
        /\ DOMAIN both = 1 .. Len(before) + Len(after)
        /\ \A i \in DOMAIN both :
              both[i] = IF i <= Len(before) THEN before[i] ELSE after[i - Len(before)]
    BY <1>1, <1>3, <1>4, ConcatProperties, LenProperties
  <2>2. ASSUME NEW i \in DOMAIN both, NEW k \in DOMAIN both, both[i] = both[k] PROVE i = k
    <3>1. \A l \in DOMAIN both :
             \/ l \in DOMAIN before /\ both[l] = before[l] /\ both[l] \in Range(before)
             \/ /\ l - Len(before) \in DOMAIN after /\ both[l] = after[l - Len(before)]
                /\ both[l] \in Range(after)
      <4> SUFFICES ASSUME NEW l \in DOMAIN both
                   PROVE  \/ l \in DOMAIN before /\ both[l] = before[l] /\ both[l] \in Range(before)
                          \/ /\ l - Len(before) \in DOMAIN after /\ both[l] = after[l - Len(before)]
                             /\ both[l] \in Range(after)
        OBVIOUS
      <4>1. CASE l <= Len(before)
        <5>1. l \in 1 .. Len(before) + Len(after) /\ l \in Int
          BY <2>1
        <5>2. l \in 1 .. Len(before)
          BY <2>1, <4>1, <5>1
        <5>3. both[l] = before[l]
          BY <2>1, <4>1
        <5> QED BY <2>1, <5>2, <5>3 DEF Range
      <4>2. CASE ~(l <= Len(before))
        <5>1. l - Len(before) \in DOMAIN after /\ both[l] = after[l - Len(before)]
          BY <2>1, <4>2
        <5> QED BY <5>1 DEF Range
      <4> QED BY <4>1, <4>2
    <3>2. Range(before) \cap Range(after) = {}
      BY <1>1, <1>2
    <3>3. \/ i \in DOMAIN before /\ k \in DOMAIN before /\ before[i] = before[k]
          \/ /\ i - Len(before) \in DOMAIN after /\ k - Len(before) \in DOMAIN after
             /\ after[i - Len(before)] = after[k - Len(before)]
      BY <2>2, <3>1, <3>2
    <3>4. CASE i \in DOMAIN before /\ k \in DOMAIN before /\ before[i] = before[k]
      BY <1>1, <3>4 DEF IsInjective
    <3>5. CASE /\ i - Len(before) \in DOMAIN after /\ k - Len(before) \in DOMAIN after
               /\ after[i - Len(before)] = after[k - Len(before)]
      <4>1. i - Len(before) = k - Len(before)
        BY <1>2, <3>5 DEF IsInjective
      <4> QED BY <2>1, <2>2, <4>1
    <3> QED BY <3>3, <3>4, <3>5
  <2> QED BY <2>2, Zenon DEF IsInjective
<1>7. Reloaded(disk) = both
  BY <1>4 DEF Reloaded, ToSet, Range
<1> QED BY <1>5, <1>6, <1>7 DEF Order

LEMMA RestartLists ==
    ASSUME Inv, Lists, Restart
    PROVE  Lists'
<1>1. /\ shown' = disk.rows /\ listed' = Reloaded(disk) /\ disk' = disk /\ written' = written
      /\ owing' = {c.row : c \in {f \in copies : NamesItself(f) /\ ~disk.rows[f.row].there}}
      /\ copies' = copies
  BY DEF Restart
<1>2. Unanswered' = {} /\ Unsent' = {} /\ Range(copying') = {}
  BY DEF Restart, Unanswered, Held, Waiting, Unsent, Busy, Idle, Range
<1>3. disk.rows \in [Rows -> [ver : 0 .. written, there : BOOLEAN]]
  BY DEF Inv, Shapes
<1>4. /\ Order(Reloaded(disk))
      /\ \A r \in Rows : disk.rows[r].there <=> r \in Range(Reloaded(disk))
  BY ReloadedLists DEF Inv
<1>5. owing' \subseteq Versions /\ \A c \in copies' : c.row \in Versions
  BY <1>1 DEF Lists
<1>6. Order(listed)' /\ Order(disk.order)' /\ disk'.log \subseteq 1 .. written'
  BY <1>1, <1>4 DEF Lists, Order
<1>7. writer'.at # "order"
  BY DEF Restart, Idle
<1> QED BY <1>1, <1>2, <1>3, <1>4, <1>5, <1>6, <1>7 DEF Lists, Order

LEMMA NextLists ==
    ASSUME Inv, Once, Lists, [Next]_vars
    PROVE  Lists'
<1>1. /\ Order(disk.order) /\ disk.log \subseteq 1 .. written
      /\ \A c \in copies : c.row \in Versions
      /\ writer.at = "order" => Orders(writer.batch) # {}
  BY DEF Lists
<1>2. CASE /\ UNCHANGED <<shown, listed, owing, written, disk, queue, writer, copying, copies>>
           /\ Busy' => actor' = actor /\ Busy
  <2>1. Unsent' \subseteq Unsent /\ Unanswered' = Unanswered
    BY <1>2 DEF Unsent, Held, Waiting, Unanswered
  <2> QED BY <1>1, <1>2, <2>1, RestLists
<1>3. CASE Command
  <2>1. CASE Refused
    <3>1. Busy' => actor' = actor /\ Busy
      BY <2>1 DEF Refused, Busy
    <3> QED BY <1>2, <2>1, <3>1 DEF Refused, fileVars
  <2>2. CASE \E kind \in Kinds, from \in Sources, r \in Rows : Starts(kind, from, r)
    <3>1. PICK kind \in Kinds, from \in Sources, r \in Rows : Starts(kind, from, r)
      BY <2>2
    <3> QED BY <3>1, BeginLists DEF Starts
  <2> QED BY <1>3, <2>1, <2>2, CommandStarts DEF Inv
<1>4. CASE Submit
  BY <1>4, SubmitLists
<1>5. CASE Finish \/ Reply \/ UNCHANGED vars
  <2>1. /\ UNCHANGED <<shown, listed, owing, written, disk, queue, writer, copying, copies>>
        /\ actor' = actor \/ actor' = Idle
    BY <1>5 DEF Finish, Reply, vars, engineVars, fileVars
  <2>2. Busy' => actor' = actor /\ Busy
    BY <2>1 DEF Busy, Idle
  <2> QED BY <1>2, <2>1, <2>2
<1>6. CASE Gather
  <2>1. /\ writer = Idle /\ writer' = [at |-> "commit", batch |-> queue] /\ queue' = <<>>
        /\ UNCHANGED <<shown, listed, owing, written, actor, disk, copying, copies>>
    BY <1>6 DEF Gather, engineVars, fileVars
  <2>2. /\ Unsent' = Unsent /\ Unanswered' = Unanswered /\ writer'.at # "order"
    BY <2>1 DEF Unsent, Busy, Unanswered, Held, Waiting, Idle, Range
  <2> QED BY <1>1, <2>1, <2>2, RestLists
<1>7. CASE Commit
  BY <1>7, CommitLists
<1>8. CASE CommitFails
  <2>1. /\ writer' = Idle
        /\ UNCHANGED <<shown, listed, owing, written, actor, queue, disk, copying, copies>>
    BY <1>8 DEF CommitFails, engineVars, fileVars
  <2>2. Unsent' = Unsent /\ Unanswered' \subseteq Unanswered /\ writer'.at # "order"
    BY <2>1 DEF Unsent, Busy, Unanswered, Held, Waiting, Idle
  <2> QED BY <1>1, <2>1, <2>2, RestLists
<1>9. CASE SaveOrder
  BY <1>9, SaveOrderLists
<1>10. CASE Checkpointer
  <2>1. /\ copying # <<>> /\ copying' = Tail(copying)
        /\ UNCHANGED <<shown, listed, owing, written, actor, queue, writer, disk>>
    BY <1>10 DEF Checkpointer, TakeCopy, Forget, engineVars
  <2>2. Head(copying) \in Range(copying) /\ Range(copying') \subseteq Range(copying)
    BY <2>1, RangeOfTail DEF Inv, CopiesOfRows
  <2>3. \A c \in copies' : c \in copies \/ (Head(copying).job = "barrier" /\ c.row = Head(copying).row)
    BY <1>10 DEF Checkpointer, TakeCopy, Forget, OtherCopies
  <2>4. \A c \in copies' : c.row \in Versions
    BY <2>2, <2>3 DEF Lists
  <2>5. Unsent' = Unsent /\ Unanswered' = Unanswered
    BY <2>1 DEF Unsent, Busy, Unanswered, Held, Waiting
  <2> QED BY <1>1, <2>1, <2>2, <2>4, <2>5, RestLists
<1>11. CASE Restart
  BY <1>11, RestartLists
<1> QED BY <1>3, <1>4, <1>5, <1>6, <1>7, <1>8, <1>9, <1>10, <1>11 DEF Next, Engine, Disk

(***************************************************************************)
(* Memory lists what is there and once, through every write, refusal and   *)
(* start; a submission is answered once, and only after the writer took    *)
(* it; no reply waits for what was not submitted.                          *)
(***************************************************************************)
THEOREM TypesHold == ASSUME MastersAreKept PROVE Spec => []TypeOK
<1>1. Init => Inv /\ Once /\ Lists
  BY InitHolds, InitOnce, InitLists
<1>2. Inv /\ Once /\ Lists /\ [Next]_vars => (Inv /\ Once /\ Lists)'
  BY NextKeeps, NextOnce, NextLists
<1>3. Inv /\ Once /\ Lists => TypeOK
  BY ListsAreTypes
<1> QED BY <1>1, <1>2, <1>3, PTL DEF Spec

-----------------------------------------------------------------------------
(***************************************************************************)
(* The rows.  The disk has none newer than memory's, the one it has of the *)
(* same write is the same, and what it has not is lost or on its way.      *)
(***************************************************************************)
Coming == {j \in Unsent \cup Unanswered : j.job = "upsert"}

RowFollows(r) ==
    /\ disk.rows[r].ver <= shown[r].ver
    /\ disk.rows[r].ver = shown[r].ver => disk.rows[r] = shown[r]
    /\ \/ disk.rows[r].ver = shown[r].ver
       \/ shown[r].ver \in lost
       \/ \E j \in Coming : j.row = r /\ j.ver = shown[r].ver

Follows ==
    /\ \A j \in Coming : /\ j.row \in Rows /\ j.ver \in Nat /\ j.ver <= shown[j.row].ver
                         /\ j.ver = shown[j.row].ver => shown[j.row].there
    /\ \A r \in Rows : RowFollows(r)

LEMMA InitFollows ==
    ASSUME Init
    PROVE  Follows
<1>1. Coming = {}
  BY DEF Init, Idle, Held, Waiting, Unanswered, Unsent, Busy, Coming, Range
<1>2. \A r \in Rows : disk.rows[r] = [ver |-> 0, there |-> FALSE] /\ shown[r] = disk.rows[r]
  BY DEF Init, Blank
<1> QED BY <1>1, <1>2 DEF Follows, RowFollows

LEMMA BeginFollows ==
    ASSUME Inv, Once, Lists, Follows, NEW kind \in Kinds, NEW from, NEW r \in Rows,
           Begin(kind, from, r)
    PROVE  Follows'
<1> PICK n : n = written + 1
  OBVIOUS
<1>1. /\ actor = Idle /\ written \in Nat /\ n \in Nat /\ n > written
      /\ shown' = [shown EXCEPT ![r] = [ver |-> n, there |-> kind # "delete"]]
      /\ actor' = [at |-> "busy", ver |-> n, row |-> r, kind |-> kind, from |-> from,
                   left |-> Jobs(kind, from, n, r, listed'), waits |-> {}]
      /\ UNCHANGED <<queue, writer, lost>>
  BY DEF Begin, Inv, Shapes
<1>2. /\ Unanswered' = Unanswered /\ Unsent = {}
      /\ Unsent' = Range(Jobs(kind, from, n, r, listed'))
  BY <1>1 DEF Unanswered, Held, Waiting, Unsent, Busy, Idle
<1>3. /\ \A j \in Unsent' : j.ver = n /\ j.row = r
      /\ (\E j \in Unsent' : j.job = "upsert") <=> kind # "delete"
  BY <1>2, JobsInOrder DEF Submission, Has
<1>4. \A q \in Rows : shown[q].ver <= written /\ shown[q].ver \in Nat
  <2>1. shown \in [Rows -> [ver : 0 .. written, there : BOOLEAN]]
    BY DEF Lists
  <2> QED BY <1>1, <2>1
<1>5. \A q \in Rows : shown'[q] = IF q = r THEN [ver |-> n, there |-> kind # "delete"] ELSE shown[q]
  BY <1>1 DEF Lists
<1>6. \A q \in Rows : /\ disk'.rows[q] = IF kind = "delete" /\ q = r
                                         THEN [ver |-> n, there |-> FALSE] ELSE disk.rows[q]
                      /\ disk.rows[q].ver <= written /\ disk.rows[q].ver \in Nat
  BY BeginOnDisk DEF Inv, Shapes
<1>7. ASSUME NEW j \in Coming'
      PROVE  /\ j.row \in Rows /\ j.ver \in Nat /\ j.ver <= shown'[j.row].ver
             /\ j.ver = shown'[j.row].ver => shown'[j.row].there
  <2>1. CASE j \in Unsent'
    <3>1. kind # "delete"
      BY <1>3, <2>1 DEF Coming
    <3>2. j.ver = n /\ j.row = r
      BY <1>3, <2>1
    <3>3. shown'[r] = [ver |-> n, there |-> TRUE]
      BY <1>5, <3>1
    <3>4. shown'[r].ver = n /\ shown'[r].there
      BY <3>3
    <3> QED BY <1>1, <3>2, <3>4
  <2>2. CASE j \in Unanswered
    <3>1. j \in Coming
      BY <2>2 DEF Coming
    <3>2. j.row \in Rows /\ j.ver \in Nat /\ j.ver <= shown[j.row].ver
          /\ (j.ver = shown[j.row].ver => shown[j.row].there)
      BY <3>1 DEF Follows
    <3>3. j.ver <= written /\ written < n
      BY <1>1, <1>4, <3>2
    <3> QED BY <1>1, <1>5, <3>2, <3>3
  <2> QED BY <1>2, <2>1, <2>2 DEF Coming
<1>8. ASSUME NEW q \in Rows PROVE RowFollows(q)'
  <2>1. CASE q = r
    <3>1. shown'[q].ver = n /\ shown'[q] = [ver |-> n, there |-> kind # "delete"]
      BY <1>5, <2>1
    <3>2. CASE kind = "delete"
      <4>1. disk'.rows[q] = shown'[q]
        BY <1>6, <2>1, <3>1, <3>2
      <4> QED BY <1>1, <3>1, <4>1 DEF RowFollows
    <3>3. CASE kind # "delete"
      <4>1. disk'.rows[q].ver <= written /\ disk'.rows[q].ver \in Nat
        BY <1>6, <3>3
      <4>2. PICK j \in Unsent' : j.job = "upsert"
        BY <1>3, <3>3
      <4>3. j \in Coming' /\ j.row = q /\ j.ver = shown'[q].ver
        BY <1>3, <2>1, <3>1, <4>2 DEF Coming
      <4> QED BY <1>1, <3>1, <4>1, <4>3 DEF RowFollows
    <3> QED BY <3>2, <3>3
  <2>2. CASE q # r
    <3>1. shown'[q] = shown[q] /\ disk'.rows[q] = disk.rows[q] /\ lost' = lost
      BY <1>1, <1>5, <1>6, <2>2
    <3>2. Coming \subseteq Coming'
      BY <1>2 DEF Coming
    <3>3. RowFollows(q)
      BY DEF Follows
    <3> QED BY <3>1, <3>2, <3>3 DEF RowFollows
  <2> QED BY <2>1, <2>2
<1> QED BY <1>7, <1>8 DEF Follows

\* What lands is what memory has or something older, and stays on its way until it
\* has landed or is lost.
LEMMA LandFollows ==
    ASSUME Inv, Lists, Follows, shown' = shown, lost \subseteq lost', DiskGrows,
           Coming' \subseteq Coming,
           \A j \in Coming : j \in Coming' \/ j.ver \in lost' \/ Durable(j.ver, j.row)',
           \A r \in Rows :
              \/ disk'.rows[r] = disk.rows[r]
              \/ \E j \in Coming : j.row = r /\ disk'.rows[r] = [ver |-> j.ver, there |-> TRUE]
    PROVE  Follows'
<1>1. ASSUME NEW r \in Rows PROVE RowFollows(r)'
  <2>1. /\ RowFollows(r) /\ shown[r].ver \in Nat /\ shown[r] = [ver |-> shown[r].ver, there |-> shown[r].there]
        /\ disk.rows[r].ver \in Nat /\ disk'.rows[r].ver \in Nat
        /\ disk.rows[r].ver <= disk'.rows[r].ver
    <3>1. shown \in [Rows -> [ver : 0 .. written, there : BOOLEAN]] /\ written \in Nat
      BY DEF Lists, Inv, Shapes
    <3>2. disk.rows \in [Rows -> [ver : Nat, there : BOOLEAN]]
          /\ disk'.rows \in [Rows -> [ver : Nat, there : BOOLEAN]]
      BY DEF Inv, Shapes, DiskGrows
    <3> QED BY <3>1, <3>2 DEF Follows, DiskGrows
  <2>2. /\ disk'.rows[r].ver <= shown[r].ver
        /\ disk'.rows[r].ver = shown[r].ver => disk'.rows[r] = shown[r]
    <3>1. CASE disk'.rows[r] = disk.rows[r]
      BY <2>1, <3>1 DEF RowFollows
    <3>2. CASE \E j \in Coming : j.row = r /\ disk'.rows[r] = [ver |-> j.ver, there |-> TRUE]
      <4>1. PICK j \in Coming : j.row = r /\ disk'.rows[r] = [ver |-> j.ver, there |-> TRUE]
        BY <3>2
      <4>2. j.ver <= shown[r].ver /\ (j.ver = shown[r].ver => shown[r].there = TRUE)
        <5>1. j.ver <= shown[j.row].ver /\ (j.ver = shown[j.row].ver => shown[j.row].there)
          BY DEF Follows
        <5>2. shown[r].there \in BOOLEAN
          BY DEF Lists
        <5>3. shown[r].there => shown[r].there = TRUE
          BY <5>2, Zenon
        <5> QED BY <4>1, <5>1, <5>3
      <4>3. disk'.rows[r].ver = j.ver
        BY <4>1
      <4>4. ASSUME j.ver = shown[r].ver PROVE disk'.rows[r] = shown[r]
        <5>1. shown[r].there = TRUE
          BY <4>2, <4>4
        <5>2. shown[r] = [ver |-> j.ver, there |-> TRUE]
          BY <2>1, <4>4, <5>1, Zenon
        <5> QED BY <4>1, <5>2
      <4> QED BY <4>2, <4>3, <4>4
    <3> QED BY <3>1, <3>2
  <2>3. \/ disk'.rows[r].ver = shown[r].ver
        \/ shown[r].ver \in lost'
        \/ \E j \in Coming' : j.row = r /\ j.ver = shown[r].ver
    <3>1. CASE disk.rows[r].ver = shown[r].ver
      BY <2>1, <2>2, <3>1
    <3>2. CASE shown[r].ver \in lost
      BY <3>2
    <3>3. CASE \E j \in Coming : j.row = r /\ j.ver = shown[r].ver
      <4>1. PICK j \in Coming : j.row = r /\ j.ver = shown[r].ver
        BY <3>3
      <4>2. j \in Coming' \/ j.ver \in lost' \/ j.ver <= disk'.rows[r].ver
        BY <4>1 DEF Durable
      <4> QED BY <2>1, <2>2, <4>1, <4>2
    <3> QED BY <2>1, <3>1, <3>2, <3>3 DEF RowFollows
  <2> QED BY <2>2, <2>3 DEF RowFollows
<1> QED BY <1>1 DEF Follows

LEMMA NextFollows ==
    ASSUME Inv, Once, Lists, Follows, [Next]_vars
    PROVE  Follows'
<1>1. disk.rows \in [Rows -> [ver : Nat, there : BOOLEAN]]
  BY DEF Inv, Shapes
<1>2. ASSUME UNCHANGED <<shown, disk>>, lost \subseteq lost', Coming' = Coming PROVE Follows'
  <2>1. DiskGrows
    BY <1>2 DEF DiskGrows, Inv, Shapes
  <2> QED BY <1>2, <2>1, LandFollows
<1>3. CASE Command
  <2>1. CASE Refused
    <3>1. Coming' = Coming /\ UNCHANGED <<shown, disk, lost>>
      BY <2>1 DEF Refused, history, Coming, Unsent, Busy, Unanswered, Held, Waiting
    <3> QED BY <1>2, <3>1
  <2>2. CASE \E kind \in Kinds, from \in Sources, r \in Rows : Starts(kind, from, r)
    <3>1. PICK kind \in Kinds, from \in Sources, r \in Rows : Starts(kind, from, r)
      BY <2>2
    <3> QED BY <3>1, BeginFollows DEF Starts
  <2> QED BY <1>3, <2>1, <2>2, CommandStarts DEF Inv
<1>4. CASE Submit
  <2> PICK j : j = Head(actor.left)
    OBVIOUS
  <2>1. /\ actor # Idle /\ actor.left # <<>>
        /\ actor' = [actor EXCEPT !.left = Tail(@),
                                  !.waits = IF j.job = "log" THEN {Id(j)} ELSE {}]
        /\ queue' = IF j.job = "forget" THEN queue ELSE Append(queue, j)
        /\ UNCHANGED <<shown, writer, disk, lost>>
    BY <1>4 DEF Submit, history
  <2>2. Busy /\ actor'.left = Tail(actor.left) /\ actor'.at = "busy"
    BY <2>1 DEF Inv, Shapes, Busy
  <2>3. Unsent = {j} \cup Unsent'
    <3>1. Submission(actor.left, actor.ver, actor.row)
      BY <2>2 DEF Inv, InHand
    <3>2. Unsent = Range(actor.left) /\ Unsent' = Range(Tail(actor.left))
      BY <2>2 DEF Unsent, Busy
    <3> QED BY <2>1, <3>1, <3>2, Later
  <2>4. Range(Append(queue, j)) = Range(queue) \cup {j}
    BY RangeOfAppended DEF Inv, Shapes
  <2>5. /\ Unanswered \subseteq Unanswered' /\ Unanswered' \subseteq Unanswered \cup {j}
        /\ j.job = "upsert" => j \in Unanswered'
    BY <2>1, <2>4 DEF Unanswered, Held, Waiting
  <2>6. Coming' = Coming
    BY <2>3, <2>5 DEF Coming
  <2> QED BY <1>2, <2>1, <2>6
<1>5. CASE Finish
  <2>1. /\ UNCHANGED <<shown, disk, lost, queue, writer>> /\ actor' = Idle
        /\ actor.left = <<>>
    BY <1>5 DEF Finish, fileVars
  <2>2. Unsent = {} /\ Unsent' = {} /\ Unanswered' = Unanswered
    BY <2>1 DEF Unsent, Busy, Idle, Range, Unanswered, Held, Waiting
  <2> QED BY <1>2, <2>1, <2>2 DEF Coming
<1>6. CASE Reply \/ UNCHANGED vars \/ Checkpointer
  <2>1. UNCHANGED <<shown, disk, lost, queue, writer, actor>>
    BY <1>6 DEF Reply, vars, engineVars, history, Checkpointer, TakeCopy, Forget
  <2>2. Unsent' = Unsent /\ Unanswered' = Unanswered
    BY <2>1 DEF Unsent, Busy, Unanswered, Held, Waiting
  <2> QED BY <1>2, <2>1, <2>2 DEF Coming
<1>7. CASE Gather
  <2>1. /\ writer = Idle /\ writer' = [at |-> "commit", batch |-> queue] /\ queue' = <<>>
        /\ UNCHANGED <<shown, actor, disk, lost>>
    BY <1>7 DEF Gather, engineVars, history
  <2>2. Unsent' = Unsent /\ Unanswered' = Unanswered
    BY <2>1 DEF Unsent, Busy, Unanswered, Held, Waiting, Idle, Range
  <2> QED BY <1>2, <2>1, <2>2 DEF Coming
<1>8. CASE Commit
  <2>1. /\ writer.at = "commit" /\ disk' = Committed(disk, writer.batch)
        /\ UNCHANGED <<shown, actor, queue, lost>>
    BY <1>8 DEF Commit, engineVars, history
  <2>2. /\ DiskGrows
        /\ \A j \in Held : j.job = "upsert" => Durable(j.ver, j.row)'
        /\ \A r \in Rows :
              \/ disk'.rows[r] = disk.rows[r]
              \/ \E j \in Held : /\ j.job = "upsert" /\ j.row = r
                                 /\ disk'.rows[r] = [ver |-> j.ver, there |-> TRUE]
    BY <2>1, CommittedIsNewer
  <2>3. Held' \subseteq Held
    <3>1. CASE writer' = Idle
      BY <3>1 DEF Held, Idle
    <3>2. CASE writer' = [writer EXCEPT !.at = "order"]
      BY <2>1, <3>2, HeldStays
    <3> QED BY <1>8, <3>1, <3>2 DEF Commit
  <2>4. Unsent' = Unsent /\ Waiting' = Waiting
    BY <2>1 DEF Unsent, Busy, Waiting
  <2>5. /\ Coming' \subseteq Coming
        /\ \A j \in Coming : j \in Coming' \/ Durable(j.ver, j.row)'
        /\ \A r \in Rows :
              \/ disk'.rows[r] = disk.rows[r]
              \/ \E j \in Coming : j.row = r /\ disk'.rows[r] = [ver |-> j.ver, there |-> TRUE]
    BY <2>2, <2>3, <2>4 DEF Coming, Unanswered
  <2> QED BY <2>1, <2>2, <2>5, LandFollows
<1>9. CASE CommitFails
  <2>1. /\ writer.at # "idle" /\ writer' = Idle
        /\ lost' = lost \cup {writer.batch[i].ver : i \in DOMAIN writer.batch}
        /\ UNCHANGED <<shown, actor, queue, disk>>
    BY <1>9 DEF CommitFails, engineVars
  <2>2. DiskGrows /\ \A j \in Held : j.ver \in lost'
    BY <2>1 DEF DiskGrows, Inv, Shapes, Held, Range
  <2>3. Unsent' = Unsent /\ Waiting' = Waiting /\ Held' = {}
    BY <2>1 DEF Unsent, Busy, Waiting, Held, Idle
  <2>4. Coming' \subseteq Coming /\ \A j \in Coming : j \in Coming' \/ j.ver \in lost'
    BY <2>2, <2>3 DEF Coming, Unanswered
  <2> QED BY <2>1, <2>2, <2>4, LandFollows
<1>10. CASE SaveOrder
  <2>1. /\ writer.at = "order" /\ writer.at # "idle" /\ writer' = Idle /\ lost \subseteq lost'
        /\ UNCHANGED <<shown, actor, queue>>
    BY <1>10 DEF SaveOrder, engineVars
  <2>2. /\ disk'.rows = disk.rows /\ disk'.log = disk.log
        /\ disk' = [rows |-> disk'.rows, order |-> disk'.order, log |-> disk'.log]
    BY <1>10 DEF SaveOrder, Inv, Shapes
  <2>3. DiskGrows
    BY <2>2 DEF DiskGrows, Inv, Shapes
  <2>4. \A j \in Held : j.job = "upsert" => Durable(j.ver, j.row)'
    BY <2>1, <2>2 DEF Inv, OrderIsLast, Durable
  <2>5. Unsent' = Unsent /\ Waiting' = Waiting /\ Held' = {}
    BY <2>1 DEF Unsent, Busy, Waiting, Held, Idle
  <2>6. Coming' \subseteq Coming /\ \A j \in Coming : j \in Coming' \/ Durable(j.ver, j.row)'
    BY <2>4, <2>5 DEF Coming, Unanswered
  <2> QED BY <2>1, <2>2, <2>3, <2>6, LandFollows
<1>11. CASE Restart
  <2>1. shown' = disk.rows /\ disk' = disk
    BY <1>11 DEF Restart
  <2>2. Coming' = {}
    BY <1>11 DEF Restart, Unanswered, Held, Waiting, Unsent, Busy, Idle, Range, Coming
  <2>3. \A r \in Rows : disk.rows[r].ver \in Nat
    BY <1>1
  <2> QED BY <2>1, <2>2, <2>3 DEF Follows, RowFollows
<1> QED BY <1>3, <1>4, <1>5, <1>6, <1>7, <1>8, <1>9, <1>10, <1>11 DEF Next, Engine, Disk

-----------------------------------------------------------------------------
(***************************************************************************)
(* The order.  A submission about a row's place is of the command in hand, *)
(* and on its way before the row's place in the log: with the log answered *)
(* there is none left.                                                     *)
(***************************************************************************)
Placing(j) == j.job \in {"append", "order"}

LogLast ==
    /\ \A j \in Unsent \cup Unanswered : Placing(j) =>
          /\ Busy /\ j.ver = actor.ver /\ Unlogged(j.ver)
          /\ actor.kind = IF j.job = "append" THEN "create" ELSE "delete"
    /\ \A j \in Unsent, u \in Unanswered : Placing(j) /\ u.ver = j.ver => u.job # "log"
    /\ \A b \in Held, q \in Waiting : b.ver = q.ver /\ b.job = "log" => ~Placing(q)

LEMMA InitLogLast ==
    ASSUME Init
    PROVE  LogLast
<1>1. Unanswered = {} /\ Unsent = {} /\ Held = {}
  BY DEF Init, Idle, Held, Waiting, Unanswered, Range, Unsent, Busy
<1> QED BY <1>1 DEF LogLast

LEMMA BeginLogLast ==
    ASSUME Inv, Once, LogLast, NEW kind \in Kinds, NEW from, NEW r \in Rows, Begin(kind, from, r)
    PROVE  LogLast'
<1> PICK n : n = written + 1
  OBVIOUS
<1>1. /\ actor = Idle /\ written \in Nat /\ n \in Nat /\ n > written /\ written' = n
      /\ actor' = [at |-> "busy", ver |-> n, row |-> r, kind |-> kind, from |-> from,
                   left |-> Jobs(kind, from, n, r, listed'), waits |-> {}]
      /\ UNCHANGED <<queue, writer, landed, broken>>
  BY DEF Begin, Inv, Shapes
<1>2. /\ Unanswered' = Unanswered /\ Held' = Held /\ Waiting' = Waiting /\ ~Busy /\ Busy'
      /\ Unsent' = Range(Jobs(kind, from, n, r, listed'))
  BY <1>1 DEF Unanswered, Held, Waiting, Unsent, Busy, Idle
<1>3. \A j \in Unanswered : ~Placing(j)
  BY <1>2 DEF LogLast
<1>4. \A j \in Unsent' : /\ j.ver = n
                         /\ j.job = "append" => kind = "create"
                         /\ j.job = "order" => kind = "delete"
  BY <1>2, JobsInOrder DEF Submission, Has
<1>5. <<n, "log">> \notin landed \cup broken
  BY <1>1 DEF Once, Numbered
<1>6. \A u \in Unanswered : u.ver # n
  BY <1>1 DEF Inv, InOrder
<1> QED BY <1>1, <1>2, <1>3, <1>4, <1>5, <1>6 DEF LogLast, Placing, Unlogged

\* Nothing submitted, and nothing answered.
LEMMA RestLogLast ==
    ASSUME LogLast, UNCHANGED <<landed, broken, actor>>, Unanswered' = Unanswered,
           (Held' = Held /\ Waiting' = Waiting) \/ Held' = {} \/ Waiting' = {}
    PROVE  LogLast'
<1>1. Unsent' = Unsent /\ Busy' = Busy /\ \A n : Unlogged(n)' <=> Unlogged(n)
  BY DEF Unsent, Busy, Unlogged
<1> QED BY <1>1 DEF LogLast

LEMMA SubmitLogLast ==
    ASSUME Inv, LogLast, Submit
    PROVE  LogLast'
<1> PICK j : j = Head(actor.left)
  OBVIOUS
<1>1. /\ actor # Idle /\ actor.left # <<>>
      /\ actor' = [actor EXCEPT !.left = Tail(@),
                                !.waits = IF j.job = "log" THEN {Id(j)} ELSE {}]
      /\ queue' = IF j.job = "forget" THEN queue ELSE Append(queue, j)
      /\ UNCHANGED <<writer, landed, broken>>
  BY DEF Submit
<1>2. /\ Busy /\ actor'.left = Tail(actor.left) /\ actor'.at = "busy" /\ Busy'
      /\ actor'.ver = actor.ver /\ actor'.kind = actor.kind
  BY <1>1 DEF Inv, Shapes, Busy
<1>3. /\ Unsent = {j} \cup Unsent'
      /\ \A x \in Unsent' : Goes(j.job, x.job)
  <2>1. Submission(actor.left, actor.ver, actor.row)
    BY <1>2 DEF Inv, InHand
  <2>2. Unsent = Range(actor.left) /\ Unsent' = Range(Tail(actor.left))
    BY <1>2 DEF Unsent, Busy
  <2> QED BY <1>1, <2>1, <2>2, Later
<1>4. Waiting' \subseteq Waiting \cup {j} /\ Held' = Held
  BY <1>1, RangeOfAppended DEF Held, Waiting, Inv, Shapes
<1>5. Unanswered' \subseteq Unanswered \cup {j}
  BY <1>4 DEF Unanswered
<1>6. \A n : Unlogged(n)' <=> Unlogged(n)
  BY <1>1 DEF Unlogged
<1>7. ASSUME NEW x \in Unsent', NEW u \in Unanswered', Placing(x), u.ver = x.ver
      PROVE  u.job # "log"
  <2>1. CASE u = j
    BY <1>3, <1>7, <2>1 DEF Goes, Placing, Bodies
  <2>2. CASE u \in Unanswered
    BY <1>3, <1>7, <2>2 DEF LogLast
  <2> QED BY <1>5, <2>1, <2>2
<1>8. ASSUME NEW b \in Held', NEW q \in Waiting', b.ver = q.ver, b.job = "log"
      PROVE  ~Placing(q)
  <2>1. b \in Held /\ b \in Unanswered
    BY <1>4 DEF Unanswered
  <2>2. CASE q = j
    BY <1>3, <1>8, <2>1, <2>2 DEF LogLast
  <2>3. CASE q \in Waiting
    BY <1>8, <2>1, <2>3 DEF LogLast
  <2> QED BY <1>4, <2>2, <2>3
<1>9. ASSUME NEW x \in Unsent' \cup Unanswered', Placing(x)
      PROVE  /\ x.ver = actor.ver /\ Unlogged(x.ver)
             /\ actor.kind = IF x.job = "append" THEN "create" ELSE "delete"
  <2>1. x \in Unsent \cup Unanswered
    BY <1>3, <1>5
  <2> QED BY <1>9, <2>1 DEF LogLast
<1> QED BY <1>2, <1>6, <1>7, <1>8, <1>9 DEF LogLast

\* The command is through when the log has answered, and nothing about an order is
\* on its way then.
LEMMA FinishedOrder ==
    ASSUME Inv, LogLast, Finish
    PROVE  /\ \A j \in Unanswered : ~Placing(j)
           /\ Unsent = {} /\ Unsent' = {}
           /\ Unanswered' = Unanswered /\ Held' = Held /\ Waiting' = Waiting
<1>1. /\ actor # Idle /\ Settled(actor.waits) /\ actor.left = <<>> /\ actor' = Idle
      /\ UNCHANGED <<queue, writer>>
  BY DEF Finish
<1>2. Busy
  BY <1>1 DEF Inv, Shapes, Busy
<1>3. /\ Unsent = {} /\ Unsent' = {} /\ ~Has(actor.left, "log")
      /\ Unanswered' = Unanswered /\ Held' = Held /\ Waiting' = Waiting
  BY <1>1 DEF Unsent, Busy, Idle, Range, Has, Unanswered, Held, Waiting
<1>4. ASSUME NEW j \in Unanswered, Placing(j) PROVE FALSE
  <2>1. j.ver = actor.ver /\ Unlogged(actor.ver) /\ actor.kind # "tempo"
    BY <1>4 DEF LogLast
  <2>2. actor.waits = {<<actor.ver, "log">>}
    BY <1>2, <1>3, <2>1 DEF Inv, InHand
  <2> QED BY <1>1, <2>1, <2>2 DEF Settled, Unlogged
<1> QED BY <1>3, <1>4

\* A group is answered: what waits behind it has its place in the log there too.
LEMMA AnswerLogLast ==
    ASSUME Inv, LogLast, writer.at # "idle", writer' = Idle,
           landed' \cup broken' \subseteq landed \cup broken \cup Answered(writer.batch),
           UNCHANGED <<actor, queue>>
    PROVE  LogLast'
<1>1. /\ Held = Range(writer.batch) /\ Held' = {} /\ Waiting' = Waiting
      /\ Unanswered = Held \cup Waiting /\ Unanswered' = Waiting
      /\ Unsent' = Unsent /\ Busy' = Busy
  BY DEF Held, Waiting, Unanswered, Unsent, Busy, Idle
<1>2. \A x : x \in Answered(writer.batch) <=> \E j \in Held : x = Id(j)
  BY <1>1, AnsweredIds
<1>3. ASSUME NEW j \in Unsent \cup Waiting, Placing(j) PROVE Unlogged(j.ver)'
  <2>1. Unlogged(j.ver)
    BY <1>1, <1>3 DEF LogLast
  <2>2. \A b \in Held : Id(b) # <<j.ver, "log">>
    BY <1>1, <1>3 DEF LogLast, Id
  <2> QED BY <1>2, <2>1, <2>2 DEF Unlogged
<1> QED BY <1>1, <1>3 DEF LogLast

LEMMA NextLogLast ==
    ASSUME Inv, Once, LogLast, [Next]_vars
    PROVE  LogLast'
<1>1. CASE Command
  <2>1. CASE Refused
    <3>1. UNCHANGED <<landed, broken, actor, queue, writer>>
      BY <2>1 DEF Refused
    <3>2. Held' = Held /\ Waiting' = Waiting /\ Unanswered' = Unanswered
      BY <3>1 DEF Held, Waiting, Unanswered
    <3> QED BY <3>1, <3>2, RestLogLast
  <2>2. CASE \E kind \in Kinds, from \in Sources, r \in Rows : Starts(kind, from, r)
    <3>1. PICK kind \in Kinds, from \in Sources, r \in Rows : Starts(kind, from, r)
      BY <2>2
    <3> QED BY <3>1, BeginLogLast DEF Starts
  <2> QED BY <1>1, <2>1, <2>2, CommandStarts DEF Inv
<1>2. CASE Submit
  BY <1>2, SubmitLogLast
<1>3. CASE Finish
  BY <1>3, FinishedOrder DEF LogLast
<1>4. CASE Reply \/ UNCHANGED vars \/ Checkpointer
  <2>1. UNCHANGED <<landed, broken, actor, queue, writer>>
    BY <1>4 DEF Reply, vars, engineVars, Checkpointer, TakeCopy, Forget
  <2>2. Held' = Held /\ Waiting' = Waiting /\ Unanswered' = Unanswered
    BY <2>1 DEF Held, Waiting, Unanswered
  <2> QED BY <2>1, <2>2, RestLogLast
<1>5. CASE Gather
  <2>1. /\ writer = Idle /\ writer' = [at |-> "commit", batch |-> queue] /\ queue' = <<>>
        /\ UNCHANGED <<landed, broken, actor>>
    BY <1>5 DEF Gather, engineVars
  <2>2. Unanswered' = Unanswered /\ Waiting' = {}
    BY <2>1 DEF Unanswered, Held, Waiting, Idle, Range
  <2> QED BY <2>1, <2>2, RestLogLast
<1>6. CASE Commit
  <2>1. writer.at = "commit" /\ writer.at # "idle" /\ UNCHANGED <<actor, queue, broken>>
    BY <1>6 DEF Commit, engineVars
  <2>2. CASE writer' = Idle /\ landed' = landed \cup Answered(writer.batch)
    BY <2>1, <2>2, AnswerLogLast
  <2>3. CASE writer' = [writer EXCEPT !.at = "order"] /\ landed' = landed
    <3>1. Held' = Held /\ Waiting' = Waiting
      BY <2>1, <2>3, HeldStays DEF Waiting
    <3>2. Unanswered' = Unanswered
      BY <3>1 DEF Unanswered
    <3> QED BY <2>1, <2>3, <3>1, <3>2, RestLogLast
  <2> QED BY <1>6, <2>2, <2>3 DEF Commit
<1>7. CASE CommitFails \/ SaveOrder
  <2>1. /\ writer.at # "idle" /\ writer' = Idle /\ UNCHANGED <<actor, queue>>
        /\ landed' \cup broken' \subseteq landed \cup broken \cup Answered(writer.batch)
    BY <1>7 DEF CommitFails, SaveOrder, engineVars
  <2> QED BY <2>1, AnswerLogLast
<1>8. CASE Restart
  <2>1. Unanswered' = {} /\ Unsent' = {} /\ Held' = {}
    BY <1>8 DEF Restart, Unanswered, Held, Waiting, Unsent, Busy, Idle, Range
  <2> QED BY <2>1 DEF LogLast
<1> QED BY <1>1, <1>2, <1>3, <1>4, <1>5, <1>6, <1>7, <1>8 DEF Next, Engine, Disk

Appends ==
    {j \in Unsent \cup (IF writer.at = "order" THEN Waiting ELSE Unanswered) : j.job = "append"}

Saves == {j \in Unsent \cup Unanswered : j.job = "order"}

\* The order the disk will have is the one memory has: what is on its way is the last
\* row's place, or the whole of it.
InPlace ==
    /\ \A j \in Saves : j.ids = listed
    /\ Appends # {} => listed = Append(disk.order, actor.row) /\ actor.row \notin Range(disk.order)
    /\ Appends = {} /\ Saves = {} => disk.order = listed

Places == lost = {} /\ remade = {} => InPlace

LEMMA InitPlaces ==
    ASSUME Init
    PROVE  Places
<1>1. Appends = {} /\ Saves = {}
  BY DEF Init, Idle, Held, Waiting, Unanswered, Range, Unsent, Busy, Appends, Saves
<1> QED BY <1>1 DEF Init, Places, InPlace

\* Of one command there is one or the other.
LEMMA AppendsOrSaves ==
    ASSUME LogLast
    PROVE  /\ Appends = {} \/ Saves = {}
           /\ ~Busy => Appends = {} /\ Saves = {}
<1>1. \A j \in Appends : Busy /\ actor.kind = "create"
  BY DEF Appends, Unanswered, LogLast, Placing
<1>2. \A j \in Saves : Busy /\ actor.kind = "delete"
  BY DEF Saves, LogLast, Placing
<1> QED BY <1>1, <1>2

LEMMA BeginPlaces ==
    ASSUME Inv, Lists, LogLast, Places, NEW kind \in Kinds, NEW from, NEW r \in Rows,
           Starts(kind, from, r)
    PROVE  Places'
<1> PICK n : n = written + 1
  OBVIOUS
<1>1. /\ actor = Idle /\ listed' = Listed(kind, r)
      /\ actor' = [at |-> "busy", ver |-> n, row |-> r, kind |-> kind, from |-> from,
                   left |-> Jobs(kind, from, n, r, listed'), waits |-> {}]
      /\ remade' = IF kind = "create" /\ shown[r].there THEN remade \cup {r} ELSE remade
      /\ UNCHANGED <<queue, writer, lost>>
  BY DEF Starts, Begin
<1>2. /\ Unanswered' = Unanswered /\ Waiting' = Waiting /\ ~Busy /\ actor'.row = r
      /\ Unsent' = Range(Jobs(kind, from, n, r, listed'))
  BY <1>1 DEF Unanswered, Held, Waiting, Unsent, Busy, Idle
<1>3. \A j \in Unanswered : j.job \notin {"append", "order"}
  BY <1>2 DEF LogLast, Placing
<1>4. /\ Appends' = {j \in Unsent' : j.job = "append"}
      /\ Saves' = {j \in Unsent' : j.job = "order"}
  BY <1>1, <1>2, <1>3 DEF Appends, Saves, Unanswered
<1>5. (Appends' # {} <=> kind = "create") /\ (Saves' # {} <=> kind = "delete")
  BY <1>2, <1>4, JobsInOrder DEF Has
<1>6. \A j \in Saves' : j.ids = listed'
  BY <1>2, <1>4, JobsSay
<1>7. disk'.order = disk.order
  BY BeginOnDisk DEF Starts
<1>8. ASSUME lost' = {}, remade' = {} PROVE InPlace'
  <2>1. disk.order = listed
    <3>1. lost = {} /\ remade = {}
      BY <1>1, <1>8
    <3> QED BY <1>2, <3>1, AppendsOrSaves DEF Places, InPlace
  <2>2. CASE kind = "create"
    <3>1. ~shown[r].there
      BY <1>1, <1>8, <2>2
    <3>2. listed' = Append(listed, r) /\ r \notin Range(listed)
      BY <1>1, <2>2, <3>1 DEF Listed, Lists
    <3> QED BY <1>2, <1>5, <1>6, <1>7, <2>1, <2>2, <3>2 DEF InPlace
  <2>3. CASE kind = "delete"
    BY <1>5, <1>6, <2>3 DEF InPlace
  <2>4. CASE kind \notin {"create", "delete"}
    <3>1. shown[r].there
      BY <2>4 DEF Starts
    <3>2. listed' = listed
      BY <1>1, <2>4, <3>1 DEF Listed
    <3> QED BY <1>5, <1>6, <1>7, <2>1, <2>4, <3>2 DEF InPlace
  <2> QED BY <2>2, <2>3, <2>4
<1> QED BY <1>8 DEF Places

\* What moves nothing and loses nothing.
LEMMA RestPlaces ==
    ASSUME Places, UNCHANGED <<listed, lost, remade>>, disk'.order = disk.order,
           Appends' = Appends, Saves' = Saves, Appends # {} => actor'.row = actor.row
    PROVE  Places'
BY DEF Places, InPlace

LEMMA CommitPlaces ==
    ASSUME Inv, Once, Lists, LogLast, Places, Commit
    PROVE  Places'
<1> PICK batch : batch = writer.batch
  OBVIOUS
<1>1. /\ writer.at = "commit" /\ disk' = Committed(disk, batch)
      /\ UNCHANGED <<listed, actor, queue, lost, remade>>
  BY DEF Commit, engineVars, history
<1>2. disk'.order = FoldLeft(Placed, disk.order, batch)
  BY <1>1 DEF Committed
<1>3. /\ Held = Range(batch) /\ IsSeq(batch) /\ Unanswered = Held \cup Waiting
      /\ Unsent' = Unsent /\ Waiting' = Waiting
  BY <1>1 DEF Held, Inv, Shapes, Idle, Unanswered, Unsent, Busy, Waiting
<1>4. \/ writer' = Idle /\ Held' = {} /\ Orders(batch) = {}
      \/ writer'.at = "order" /\ Held' = Held
  <2>1. CASE writer' = Idle /\ Orders(batch) = {}
    BY <2>1 DEF Held, Idle
  <2>2. CASE writer' = [writer EXCEPT !.at = "order"]
    <3>1. writer = [at |-> "commit", batch |-> writer.batch]
      BY <1>1 DEF Inv, Shapes, Idle
    <3>2. writer'.at = "order"
      BY <2>2, <3>1
    <3> QED BY <1>1, <2>2, <3>2, HeldStays
  <2> QED BY <2>1, <2>2 DEF Commit
<1>5. Unanswered' = Held' \cup Waiting
  BY <1>3 DEF Unanswered
<1>6. /\ Appends = {j \in Unsent \cup Held \cup Waiting : j.job = "append"}
      /\ Appends' = {j \in Unsent \cup Waiting : j.job = "append"}
  BY <1>1, <1>3, <1>4, <1>5 DEF Appends, Idle
<1>7. Saves' = Saves
  <2>1. CASE Orders(batch) = {} /\ Held' = {}
    <3>1. \A j \in Held : j.job # "order"
      BY <1>3, <2>1 DEF Orders, Range
    <3> QED BY <1>3, <1>5, <2>1, <3>1 DEF Saves
  <2>2. CASE Held' = Held
    BY <1>3, <1>5, <2>2 DEF Saves
  <2> QED BY <1>4, <2>1, <2>2
<1>8. CASE \A j \in Held : j.job # "append"
  <2>1. disk'.order = disk.order
    BY <1>2, <1>3, <1>8, PlacedNone
  <2>2. Appends' = Appends
    BY <1>6, <1>8
  <2> QED BY <1>1, <1>7, <2>1, <2>2, RestPlaces
<1>9. CASE \E j \in Held : j.job = "append"
  <2>1. PICK a \in Held : a.job = "append"
    BY <1>9
  <2>2. Appends # {} /\ Saves = {}
    BY <1>6, <2>1, AppendsOrSaves
  <2>3. \A j \in Appends : j.ver = actor.ver /\ Busy /\ j.job = "append"
    BY <1>3, <1>6 DEF LogLast, Placing
  <2>4. /\ actor.row \in Rows
        /\ \A j \in Held : j.job = "append" => j.row = actor.row
    BY <1>3, <1>6, <2>3, <2>1 DEF Inv, InHand
  <2>5. Appends' = {}
    <3>1. \A j \in Unsent \cup Waiting : j.job = "append" => Id(j) = Id(a)
      BY <1>6, <2>1, <2>3 DEF Id
    <3> QED BY <1>3, <1>6, <2>1, <3>1 DEF Once
  <2>6. ASSUME lost = {}, remade = {} PROVE disk'.order = listed
    <3>1. listed = Append(disk.order, actor.row) /\ actor.row \notin Range(disk.order)
      BY <2>2, <2>6 DEF Places, InPlace
    <3>2. disk.order \in Seq(Rows) /\ Has(batch, "append")
      BY <1>3, <2>1 DEF Lists, Order, Has
    <3>3. FoldLeft(Placed, disk.order, batch) = Append(disk.order, actor.row)
      BY <1>3, <2>4, <3>1, <3>2, PlacedLast
    <3> QED BY <1>2, <3>1, <3>3
  <2> QED BY <1>1, <1>7, <2>2, <2>5, <2>6 DEF Places, InPlace
<1> QED BY <1>8, <1>9

LEMMA SaveOrderPlaces ==
    ASSUME Inv, Lists, LogLast, Places, SaveOrder
    PROVE  Places'
<1>1. /\ writer.at = "order" /\ writer' = Idle
      /\ UNCHANGED <<listed, actor, queue, remade>>
      /\ \/ disk' = [disk EXCEPT !.order = LastOrder(writer.batch).ids] /\ lost' = lost
         \/ lost' # {}
  BY DEF SaveOrder, engineVars
<1>2. LastOrder(writer.batch) \in Saves
  BY <1>1, LastOrderHeld DEF Lists, Saves, Unanswered, Idle
<1>3. Appends = {} /\ Appends' = {}
  <2>1. Appends = {}
    BY <1>2, AppendsOrSaves
  <2>2. Appends' \subseteq Appends
    BY <1>1 DEF Appends, Unsent, Busy, Waiting, Unanswered, Held, Idle
  <2> QED BY <2>1, <2>2
<1>4. Saves' \subseteq Saves
  BY <1>1 DEF Saves, Unsent, Busy, Waiting, Unanswered, Held, Idle
<1>5. ASSUME lost' = {}, remade' = {} PROVE InPlace'
  <2>1. lost = {} /\ remade = {} /\ disk' = [disk EXCEPT !.order = LastOrder(writer.batch).ids]
    BY <1>1, <1>5
  <2>2. \A j \in Saves : j.ids = listed
    BY <2>1 DEF Places, InPlace
  <2>3. disk'.order = listed
    BY <1>2, <2>1, <2>2 DEF Inv, Shapes
  <2> QED BY <1>1, <1>3, <1>4, <2>2, <2>3 DEF InPlace
<1> QED BY <1>5 DEF Places

\* A start finds the rows in their order, where every row is in it.
LEMMA ReloadedAsListed ==
    ASSUME Inv, Lists, Follows, LogLast, Places, AtRest, lost = {}, remade = {}
    PROVE  Reloaded(disk) = listed /\ disk.order = listed
<1>1. /\ ~Busy /\ Unsent = {} /\ Unanswered = {}
  BY DEF AtRest, Idle, Busy, Unsent, Unanswered, Held, Waiting, Range
<1>2. disk.order = listed
  BY <1>1, AppendsOrSaves DEF Places, InPlace
<1> PICK there : there = {r \in Rows : disk.rows[r].there}
  OBVIOUS
<1>3. \A r \in Rows : disk.rows[r] = shown[r]
  BY <1>1 DEF Follows, RowFollows, Coming
<1>4. there = Range(listed)
  <2>1. Range(listed) \subseteq Rows
    <3>1. listed \in Seq(Rows)
      BY DEF Lists, Order
    <3> QED BY <3>1, ElementOfSeq, LenProperties DEF Range
  <2> QED BY <1>3, <2>1 DEF Lists
<1>5. Among(there, listed) = listed
  <2>1. listed \in Seq(Rows) /\ Len(listed) \in Nat /\ DOMAIN listed = 1 .. Len(listed)
    BY LenProperties DEF Lists, Order
  <2>2. \A i \in 1 .. Len(listed) : listed[i] \in there
    BY <1>4, <2>1 DEF Range
  <2> QED BY <2>1, <2>2, AmongPrefix
<1>6. there \ ToSet(disk.order) = {}
  BY <1>2, <1>4 DEF ToSet, Range
<1>7. listed \o <<>> = listed
  BY ConcatEmptySeq DEF Lists, Order
<1>8. Reloaded(disk) = Among(there, disk.order) \o SetToSeq(there \ ToSet(disk.order))
  BY DEF Reloaded
<1> QED BY <1>2, <1>5, <1>6, <1>7, <1>8, NothingListed

LEMMA NextPlaces ==
    ASSUME Inv, Once, Lists, Follows, LogLast, Places, [Next]_vars
    PROVE  Places'
<1>1. CASE /\ UNCHANGED <<listed, lost, remade, disk, actor>>
           /\ Unanswered' = Unanswered
           /\ Waiting' = Waiting \/ (writer.at # "order" /\ writer'.at # "order")
           /\ writer.at = "order" <=> writer'.at = "order"
  <2>1. Appends' = Appends /\ Saves' = Saves
    BY <1>1 DEF Appends, Saves, Unsent, Busy
  <2> QED BY <1>1, <2>1, RestPlaces
<1>2. CASE Command
  <2>1. CASE Refused
    <3>1. UNCHANGED <<listed, lost, remade, disk, actor, queue, writer>>
      BY <2>1 DEF Refused, history
    <3>2. Unanswered' = Unanswered /\ Waiting' = Waiting
      BY <3>1 DEF Unanswered, Held, Waiting
    <3> QED BY <1>1, <3>1, <3>2
  <2>2. CASE \E kind \in Kinds, from \in Sources, r \in Rows : Starts(kind, from, r)
    BY <2>2, BeginPlaces
  <2> QED BY <1>2, <2>1, <2>2, CommandStarts DEF Inv
<1>3. CASE Submit
  <2> PICK j : j = Head(actor.left)
    OBVIOUS
  <2>1. /\ actor # Idle /\ actor.left # <<>>
        /\ actor' = [actor EXCEPT !.left = Tail(@),
                                  !.waits = IF j.job = "log" THEN {Id(j)} ELSE {}]
        /\ queue' = IF j.job = "forget" THEN queue ELSE Append(queue, j)
        /\ UNCHANGED <<listed, lost, remade, disk, writer>>
    BY <1>3 DEF Submit, history
  <2>2. Busy /\ actor'.left = Tail(actor.left) /\ actor'.at = "busy" /\ actor'.row = actor.row
    BY <2>1 DEF Inv, Shapes, Busy
  <2>3. Unsent = {j} \cup Unsent'
    <3>1. Submission(actor.left, actor.ver, actor.row)
      BY <2>2 DEF Inv, InHand
    <3>2. Unsent = Range(actor.left) /\ Unsent' = Range(Tail(actor.left))
      BY <2>2 DEF Unsent, Busy
    <3> QED BY <2>1, <3>1, <3>2, Later
  <2>4. Range(Append(queue, j)) = Range(queue) \cup {j}
    BY RangeOfAppended DEF Inv, Shapes
  <2>5. /\ Waiting \subseteq Waiting' /\ Waiting' \subseteq Waiting \cup {j}
        /\ Placing(j) => j \in Waiting'
        /\ Unanswered' = Held \cup Waiting' /\ Unanswered = Held \cup Waiting
    BY <2>1, <2>4 DEF Unanswered, Held, Waiting, Placing
  <2>6. Appends' = Appends /\ Saves' = Saves
    BY <2>1, <2>3, <2>5 DEF Appends, Saves, Placing
  <2> QED BY <2>1, <2>2, <2>6, RestPlaces
<1>4. CASE Finish
  <2>1. UNCHANGED <<listed, lost, remade, disk, writer>>
    BY <1>4 DEF Finish
  <2>2. /\ \A j \in Unanswered : ~Placing(j)
        /\ Unsent = {} /\ Unsent' = {}
        /\ Unanswered' = Unanswered /\ Held' = Held /\ Waiting' = Waiting
    BY <1>4, FinishedOrder
  <2>3. Appends = {} /\ Saves = {} /\ Appends' = {} /\ Saves' = {}
    BY <2>2 DEF Appends, Saves, Placing, Unanswered
  <2> QED BY <2>1, <2>3, RestPlaces
<1>5. CASE Reply \/ UNCHANGED vars \/ Checkpointer
  <2>1. UNCHANGED <<listed, lost, remade, disk, actor, queue, writer>>
    BY <1>5 DEF Reply, vars, engineVars, history, Checkpointer, TakeCopy, Forget
  <2>2. Unanswered' = Unanswered /\ Waiting' = Waiting
    BY <2>1 DEF Unanswered, Held, Waiting
  <2> QED BY <1>1, <2>1, <2>2
<1>6. CASE Gather
  <2>1. /\ writer = Idle /\ writer' = [at |-> "commit", batch |-> queue] /\ queue' = <<>>
        /\ UNCHANGED <<listed, lost, remade, disk, actor>>
    BY <1>6 DEF Gather, engineVars, history
  <2>2. Unanswered' = Unanswered /\ writer.at # "order" /\ writer'.at # "order"
    BY <2>1 DEF Unanswered, Held, Waiting, Idle, Range
  <2> QED BY <1>1, <2>1, <2>2
<1>7. CASE Commit
  BY <1>7, CommitPlaces
<1>8. CASE CommitFails
  <2>1. /\ writer.at = "commit" /\ writer' = Idle
        /\ lost' = lost \cup {writer.batch[i].ver : i \in DOMAIN writer.batch}
        /\ UNCHANGED <<listed, remade, actor, queue, disk>>
    BY <1>8 DEF CommitFails, engineVars
  <2>2. CASE Held = {}
    <3>1. lost' = lost
      BY <2>1, <2>2 DEF Held, Range
    <3>2. /\ Unanswered' = Unanswered /\ Waiting' = Waiting
          /\ writer.at # "order" /\ writer'.at # "order"
      BY <2>1, <2>2 DEF Unanswered, Held, Waiting, Idle
    <3> QED BY <1>1, <2>1, <3>1, <3>2
  <2>3. CASE Held # {}
    <3>1. lost' # {}
      BY <2>1, <2>3 DEF Held, Range
    <3> QED BY <3>1 DEF Places
  <2> QED BY <2>2, <2>3
<1>9. CASE SaveOrder
  BY <1>9, SaveOrderPlaces
<1>10. CASE Restart
  <2>1. /\ listed' = Reloaded(disk) /\ disk' = disk /\ remade' = remade
        /\ lost' = IF AtRest THEN lost ELSE lost \cup {0}
    BY <1>10 DEF Restart, AtRest
  <2>2. Appends' = {} /\ Saves' = {}
    BY <1>10 DEF Restart, Unanswered, Held, Waiting, Unsent, Busy, Idle, Range, Appends, Saves
  <2>3. ASSUME lost' = {}, remade' = {} PROVE disk'.order = listed'
    <3>1. AtRest /\ lost = {} /\ remade = {}
      BY <2>1, <2>3
    <3> QED BY <2>1, <3>1, ReloadedAsListed
  <2> QED BY <2>2, <2>3 DEF Places, InPlace
<1> QED BY <1>2, <1>3, <1>4, <1>5, <1>6, <1>7, <1>8, <1>9, <1>10 DEF Next, Engine, Disk

(***************************************************************************)
(* Once the queue is empty the file holds each row as the station shows    *)
(* it, unless the last write of it was lost to a failed group or a crash;  *)
(* and where nothing was lost, and no row created over itself, a start     *)
(* shows the rows in the order they are shown in.                          *)
(***************************************************************************)
THEOREM DiskFollowsTheShow == ASSUME MastersAreKept PROVE Spec => []DiskFollows
<1> DEFINE IInv == Inv /\ Once /\ Lists /\ Follows /\ LogLast /\ Places
<1>1. Init => IInv
  BY InitHolds, InitOnce, InitLists, InitFollows, InitLogLast, InitPlaces
<1>2. IInv /\ [Next]_vars => IInv'
  BY NextKeeps, NextOnce, NextLists, NextFollows, NextLogLast, NextPlaces
<1>3. IInv => DiskFollows
  <2> SUFFICES ASSUME IInv, AtRest
               PROVE  /\ \A r \in Rows : shown[r].ver \notin lost => disk.rows[r] = shown[r]
                      /\ lost = {} /\ remade = {} => Reloaded(disk) = listed
    BY DEF DiskFollows
  <2>1. Unsent = {} /\ Unanswered = {}
    BY DEF AtRest, Idle, Busy, Unsent, Unanswered, Held, Waiting, Range
  <2>2. \A r \in Rows : shown[r].ver \notin lost => disk.rows[r] = shown[r]
    BY <2>1 DEF Follows, RowFollows, Coming
  <2> QED BY <2>2, ReloadedAsListed
<1> QED BY <1>1, <1>2, <1>3, PTL DEF Spec

=============================================================================
