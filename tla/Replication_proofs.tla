------------------------- MODULE Replication_proofs -------------------------
(***************************************************************************)
(* Replication for any number of stations, writers and writes: its types,  *)
(* the invariant that a station's clock covers whatever it holds, what     *)
(* follows from it about causal order, the refinement of CausalStore, and  *)
(* one show on every station, for two writers of a field and for one of    *)
(* anything.                                                               *)
(***************************************************************************)
EXTENDS Replication, Library_proofs, SequenceTheorems

-----------------------------------------------------------------------------
\* The operators the actions are built from.

\* A path written is always filed under a path that conflicts are looked up by.
LEMMA ConflictPathType ==
    ASSUME NEW p \in Paths
    PROVE  ConflictPath(p) \in ConflictPaths
BY PathsAssumption DEF ConflictPath, ConflictPaths, Verbs, Commands

\* Stamping a write keeps its clock, its author and the path it conflicts on.
LEMMA StampType ==
    ASSUME NEW op \in Ops
    PROVE  /\ Stamp(op) \in Stamps
           /\ Stamp(op).clock = op.clock
           /\ Stamp(op).node = op.node
           /\ Stamp(op).path = ConflictPath(op.path)
BY ConflictPathType DEF Stamp, Stamps, Ops

\* Applying a write that is not refused leaves a row (apply_set).
LEMMA AppliedType ==
    ASSUME NEW r \in Rows, NEW op \in Ops,
           ~Refused(r, op.path) \/ TakenAsCreate(r, op.path)
    PROVE  Applied(r, op) \in Rows
<1>1. op.path \in Paths /\ op.value \in Nat
    BY DEF Ops
<1>2. CASE op.path \in Fields
    <2>1. r \in [Fields -> Nat]
        BY PathsAssumption, <1>2 DEF Refused, TakenAsCreate, Rows, Verbs
    <2>2. Applied(r, op) = [r EXCEPT ![op.path] = op.value]
        BY PathsAssumption, <1>2 DEF Applied, Verbs, Commands
    <2> QED BY <1>1, <2>1, <2>2 DEF Rows
<1>3. CASE op.path \in {"row", "create"}
    <2>1. Applied(r, op) = [f \in Fields |-> op.value]
        BY <1>3 DEF Applied, Verbs, Commands
    <2> QED BY <1>1, <2>1 DEF Rows
<1>4. CASE op.path = "delete"
    BY <1>4 DEF Applied, Rows, Verbs, Commands
<1>5. CASE op.path \in Commands
    <2>1. r \in [Fields -> Nat]
        BY <1>5 DEF Refused, TakenAsCreate, Rows, Commands
    <2>2. Applied(r, op) \in
             {[r EXCEPT !["cue"] = IF @ < Cues THEN @ + 1 ELSE @], [r EXCEPT !["cue"] = 0]}
        BY <1>5 DEF Applied, Verbs, Commands
    <2> QED BY <2>1, <2>2 DEF Rows
<1> QED BY PathsAssumption, <1>1, <1>2, <1>3, <1>4, <1>5 DEF Verbs

\* Fanning a write out leaves every link a sequence of writes.
LEMMA FanOutType ==
    ASSUME link \in [Stations -> [Stations -> Seq(Ops)]],
           NEW s \in Stations, NEW T, NEW op \in Ops
    PROVE  FanOut(s, T, op) \in [Stations -> [Stations -> Seq(Ops)]]
BY DEF FanOut

\* A write that is accepted did not happen before the one it replaces, in all
\* three cases of accepts.
LEMMA AcceptedIsNotOlder ==
    ASSUME TypeOK, NEW s \in Stations, NEW op \in Ops, Accepts(s, op)
    PROVE  ~HappensBefore(op.clock, known[s][ConflictPath(op.path)].clock)
<1> DEFINE k == known[s][ConflictPath(op.path)]
<1>1. op.clock \in Clock(Stations) /\ k.clock \in Clock(Stations)
    BY ConflictPathType DEF Ops, TypeOK
<1>2. CASE k = Unwritten
    BY <1>1, <1>2, NothingBeforeZero DEF Unwritten
<1>3. CASE HappensBefore(k.clock, op.clock)
    BY <1>1, <1>3, HappensBeforeAsymmetric
<1>4. CASE Concurrent(k.clock, op.clock)
    BY <1>4 DEF Concurrent
<1> QED BY <1>2, <1>3, <1>4 DEF Accepts

-----------------------------------------------------------------------------
\* Type correctness, one lemma per action.

LEMMA WriteKeepsTypes ==
    ASSUME TypeOK, NEW s \in Stations, NEW p \in Paths, Write(s, p)
    PROVE  TypeOK'
<1> USE DEF TypeOK
<1> DEFINE now == Increment(clock[s], s)
           op  == [clock |-> now, node |-> s, path |-> p, value |-> issued + 1]
<1>1. s \in Stations /\ now \in Clock(Stations)
    BY IncrementType
<1>2. op \in Ops
    BY <1>1 DEF Ops
<1>3. /\ issued' \in 0..MaxWrites /\ work' = work
      /\ clock' \in [Stations -> Clock(Stations)] /\ inbox' = inbox
    BY MaxWritesAssumption, <1>1 DEF Write
<1>4. CASE Refused(row[s], p)
    BY <1>3, <1>4 DEF Write
<1>5. CASE ~Refused(row[s], p)
    <2> HIDE DEF op, now
    <2>1. /\ row' = [row EXCEPT ![s] = Applied(row[s], op)]
          /\ known' = [known EXCEPT ![s][ConflictPath(p)] = [clock |-> now, node |-> s]]
          /\ link' = FanOut(s, Peers(s), op)
          /\ seen' = [seen EXCEPT ![s] = seen[s] \cup {Stamp(op)}]
        BY <1>5 DEF Write, op, now
    <2>2. op.path = p
        BY DEF op
    <2>3. Applied(row[s], op) \in Rows
        BY <1>1, <1>2, <1>5, <2>2, AppliedType
    <2>4. row' \in [Stations -> Rows]
        BY <1>1, <2>1, <2>3
    <2>5. known' \in [Stations -> [ConflictPaths -> [clock : Clock(Stations), node : Stations]]]
        BY <1>1, <2>1
    <2>6. link' \in [Stations -> [Stations -> Seq(Ops)]]
        BY <1>1, <1>2, <2>1, FanOutType
    <2>7. seen' \in [Stations -> SUBSET Stamps]
        BY <1>1, <1>2, <2>1, StampType
    <2> QED BY <1>3, <2>4, <2>5, <2>6, <2>7
<1> QED BY <1>4, <1>5

LEMMA ReceiveKeepsTypes ==
    ASSUME TypeOK, NEW s \in Stations, NEW t \in Stations, Receive(s, t)
    PROVE  TypeOK'
<1> USE DEF TypeOK
<1> DEFINE op == Head(link[t][s])
           popped == [link EXCEPT ![t][s] = Tail(@)]
<1>1. op \in Ops /\ Tail(link[t][s]) \in Seq(Ops)
    <2>1. link[t][s] \in Seq(Ops) /\ link[t][s] # <<>>
        BY DEF Receive
    <2> QED BY <2>1, HeadTailProperties
<1>2. popped \in [Stations -> [Stations -> Seq(Ops)]]
    BY <1>1
<1>3. inbox' \in [Stations -> Seq(Ops)]
    BY <1>1 DEF Receive
<1>4. link' \in [Stations -> [Stations -> Seq(Ops)]]
    <2>1. CASE s = Leader
        <3> DEFINE T == Peers(s) \ {t, op.node}
        <3> HIDE DEF op, T
        <3>1. FanOut(s, T, op) \in [Stations -> [Stations -> Seq(Ops)]]
            BY <1>1, FanOutType
        <3>2. link' = [popped EXCEPT ![s] = FanOut(s, T, op)[s]]
            BY <2>1 DEF Receive, op, T
        <3> QED BY <1>2, <3>1, <3>2
    <2>2. CASE s # Leader
        BY <1>2, <2>2 DEF Receive
    <2> QED BY <2>1, <2>2
<1> QED BY <1>3, <1>4 DEF Receive

LEMMA ApplyKeepsTypes ==
    ASSUME TypeOK, NEW s \in Stations, ApplyPeerOperation(s)
    PROVE  TypeOK'
<1> USE DEF TypeOK
<1> DEFINE op == Head(inbox[s])
           merged == Merge(clock[s], op.clock)
<1>1. op \in Ops /\ Tail(inbox[s]) \in Seq(Ops)
    BY HeadTailProperties DEF ApplyPeerOperation
<1>2. merged \in Clock(Stations)
    BY <1>1, MergeType DEF Ops
<1>3. inbox' \in [Stations -> Seq(Ops)] /\ link' = link
      /\ work' = work /\ issued' = issued
    BY <1>1 DEF ApplyPeerOperation
<1>4. seen' \in [Stations -> SUBSET Stamps]
    BY <1>1, StampType DEF ApplyPeerOperation
<1>5. clock' \in [Stations -> Clock(Stations)]
    <2>1. Increment(merged, s) \in Clock(Stations)
        BY <1>2, IncrementType
    <2>2. Increment(Increment(merged, s), s) \in Clock(Stations)
        BY <2>1, IncrementType
    <2>3. \E c \in Clock(Stations) : clock' = [clock EXCEPT ![s] = c]
        BY <1>2, <2>1, <2>2 DEF ApplyPeerOperation
    <2> QED BY <2>3
<1>6. CASE UNCHANGED <<row, known>>
    BY <1>3, <1>4, <1>5, <1>6
<1>7. CASE /\ ~Refused(row[s], op.path) \/ TakenAsCreate(row[s], op.path)
           /\ row' = [row EXCEPT ![s] = Applied(row[s], op)]
           /\ known' = [known EXCEPT ![s][ConflictPath(op.path)] =
                          [clock |-> op.clock, node |-> op.node]]
    <2>1. Applied(row[s], op) \in Rows
        BY <1>1, <1>7, AppliedType
    <2>2. op.clock \in Clock(Stations) /\ op.node \in Stations
        BY <1>1 DEF Ops
    <2>3. row' \in [Stations -> Rows]
        BY <1>7, <2>1
    <2>4. known' \in [Stations -> [ConflictPaths -> [clock : Clock(Stations), node : Stations]]]
        BY <1>7, <2>2
    <2> QED BY <1>3, <1>4, <1>5, <2>3, <2>4
<1> QED BY <1>6, <1>7 DEF ApplyPeerOperation

LEMMA InitTypes == Init => TypeOK
<1> SUFFICES ASSUME Init PROVE TypeOK
    OBVIOUS
<1>1. ZeroClock(Stations) \in Clock(Stations)
    BY DEF ZeroClock, Clock
<1>2. Unwritten \in [clock : Clock(Stations), node : Stations]
    BY StationsAssumption, <1>1 DEF Unwritten
<1>3. <<>> \in Seq(Ops)
    OBVIOUS
<1> QED BY MaxWritesAssumption, PathsAssumption, <1>1, <1>2, <1>3 DEF Init, TypeOK, Rows

\* Every reachable state has the types TypeOK states, for any set of stations,
\* any paths and any bound.
THEOREM TypeCorrect == Spec => []TypeOK
<1>1. TypeOK /\ [Next]_vars => TypeOK'
    <2> SUFFICES ASSUME TypeOK, [Next]_vars PROVE TypeOK'
        OBVIOUS
    <2>1. CASE UNCHANGED vars
        BY <2>1 DEF vars, TypeOK
    <2> QED BY <2>1, WriteKeepsTypes, ReceiveKeepsTypes, ApplyKeepsTypes DEF Next
<1> QED BY <1>1, InitTypes, PTL DEF Spec

-----------------------------------------------------------------------------
\* A station's clock covers what it holds.

Inv == TypeOK /\ KnownWithinClock

\* A local write holds its own clock, and moved past everything else it holds.
LEMMA WriteKeepsCover ==
    ASSUME Inv, NEW s \in Stations, NEW p \in Paths, Write(s, p)
    PROVE  KnownWithinClock'
<1> USE DEF Inv
<1> DEFINE now == Increment(clock[s], s)
<1>1. s \in Stations /\ clock[s] \in Clock(Stations) /\ now \in Clock(Stations)
    BY IncrementType DEF TypeOK
<1>2. clock' = [clock EXCEPT ![s] = now]
    BY DEF Write
<1>3. \A u \in Stations, q \in ConflictPaths :
        known'[u][q] = known[u][q] \/ (u = s /\ known'[u][q].clock = now)
    <2>1. CASE known' = known
        BY <2>1
    <2>2. CASE known' = [known EXCEPT ![s][ConflictPath(p)] = [clock |-> now, node |-> s]]
        BY <1>1, <2>2, ConflictPathType DEF TypeOK
    <2> QED BY <2>1, <2>2 DEF Write
<1> SUFFICES ASSUME NEW u \in Stations, NEW q \in ConflictPaths
             PROVE  LeqClock(known'[u][q].clock, clock'[u])
    BY DEF KnownWithinClock
<1>4. known[u][q].clock \in Clock(Stations) /\ LeqClock(known[u][q].clock, clock[u])
    BY DEF KnownWithinClock, TypeOK
<1>5. CASE u = s /\ known'[u][q].clock = now
    BY <1>1, <1>2, <1>5, LeqReflexive DEF TypeOK
<1>6. CASE u = s /\ known'[u][q] = known[u][q]
    <2>1. LeqClock(known[u][q].clock, now)
        BY <1>1, <1>4, <1>6, LeqIncrement
    <2> QED BY <1>1, <1>2, <1>6, <2>1 DEF TypeOK
<1>7. CASE u # s
    BY <1>1, <1>2, <1>3, <1>4, <1>7 DEF TypeOK
<1> QED BY <1>3, <1>5, <1>6, <1>7

\* A peer's write is held with the clock it came with, which the merge covers
\* whether or not the write wins.
LEMMA ApplyKeepsCover ==
    ASSUME Inv, NEW s \in Stations, ApplyPeerOperation(s)
    PROVE  KnownWithinClock'
<1> USE DEF Inv
<1> DEFINE op == Head(inbox[s])
           merged == Merge(clock[s], op.clock)
<1>1. op \in Ops /\ op.clock \in Clock(Stations)
    <2>1. inbox[s] \in Seq(Ops) /\ inbox[s] # <<>>
        BY DEF ApplyPeerOperation, TypeOK
    <2>2. op \in Ops
        BY <2>1, HeadTailProperties
    <2> QED BY <2>2 DEF Ops
<1>2. clock[s] \in Clock(Stations) /\ merged \in Clock(Stations)
    BY <1>1, MergeType DEF TypeOK
<1>3. LeqClock(clock[s], merged) /\ LeqClock(op.clock, merged)
    BY <1>1, <1>2, MergeIsLeastUpperBound
<1>4. PICK next \in Clock(Stations) :
        clock' = [clock EXCEPT ![s] = next] /\ LeqClock(merged, next)
    <2>1. /\ Increment(merged, s) \in Clock(Stations)
          /\ Increment(Increment(merged, s), s) \in Clock(Stations)
          /\ LeqClock(merged, merged)
          /\ LeqClock(merged, Increment(merged, s))
          /\ LeqClock(merged, Increment(Increment(merged, s), s))
        BY <1>2, IncrementType, LeqReflexive, LeqIncrement
    <2> HIDE DEF merged
    <2>2. clock' \in {[clock EXCEPT ![s] = merged],
                      [clock EXCEPT ![s] = Increment(merged, s)],
                      [clock EXCEPT ![s] = Increment(Increment(merged, s), s)]}
        BY DEF ApplyPeerOperation, merged
    <2> QED BY <1>2, <2>1, <2>2
<1>5. LeqClock(clock[s], next) /\ LeqClock(op.clock, next)
    BY <1>1, <1>2, <1>3, <1>4, LeqTransitive
<1>6. \A u \in Stations, q \in ConflictPaths :
        known'[u][q] = known[u][q] \/ (u = s /\ known'[u][q].clock = op.clock)
    <2>1. CASE known' = known
        BY <2>1
    <2>2. CASE known' = [known EXCEPT ![s][ConflictPath(op.path)] =
                           [clock |-> op.clock, node |-> op.node]]
        BY <2>2 DEF TypeOK
    <2> QED BY <2>1, <2>2 DEF ApplyPeerOperation
<1> SUFFICES ASSUME NEW u \in Stations, NEW q \in ConflictPaths
             PROVE  LeqClock(known'[u][q].clock, clock'[u])
    BY DEF KnownWithinClock
<1>7. known[u][q].clock \in Clock(Stations) /\ LeqClock(known[u][q].clock, clock[u])
    BY DEF KnownWithinClock, TypeOK
<1>8. CASE u = s
    <2>1. LeqClock(known[u][q].clock, next)
        BY <1>2, <1>4, <1>5, <1>7, <1>8, LeqTransitive
    <2>2. clock'[u] = next
        BY <1>4, <1>8 DEF TypeOK
    <2> QED BY <1>5, <1>6, <2>1, <2>2
<1>9. CASE u # s
    BY <1>4, <1>6, <1>7, <1>9 DEF TypeOK
<1> QED BY <1>8, <1>9

LEMMA InitCover == Init => KnownWithinClock
BY DEF Init, KnownWithinClock, Unwritten, LeqClock, ZeroClock

\* A station's clock covers the clock of every write it holds, in every
\* reachable state of every session.
THEOREM ClockCoversWhatIsHeld == Spec => []KnownWithinClock
<1>1. Inv /\ [Next]_vars => KnownWithinClock'
    <2> SUFFICES ASSUME Inv, [Next]_vars PROVE KnownWithinClock'
        OBVIOUS
    <2>1. CASE UNCHANGED <<clock, known>>
        BY <2>1 DEF Inv, KnownWithinClock
    <2> QED BY <2>1, WriteKeepsCover, ApplyKeepsCover DEF Next, vars, Receive
<1> QED BY <1>1, InitCover, TypeCorrect, PTL DEF Spec, Inv

-----------------------------------------------------------------------------
\* No path goes back in causal time.

LEMMA StepNeverOlder ==
    ASSUME Inv, [Next]_vars
    PROVE  \A s \in Stations, p \in ConflictPaths :
              ~HappensBefore(known'[s][p].clock, known[s][p].clock)
<1> SUFFICES ASSUME NEW u \in Stations, NEW q \in ConflictPaths
             PROVE  ~HappensBefore(known'[u][q].clock, known[u][q].clock)
    OBVIOUS
<1>1. known[u][q].clock \in Clock(Stations)
    BY DEF Inv, TypeOK
<1>2. CASE known'[u][q] = known[u][q]
    BY <1>1, <1>2, HappensBeforeAsymmetric
<1>3. ASSUME NEW s \in Stations, NEW p \in Paths, Write(s, p), known'[u][q] # known[u][q]
      PROVE  ~HappensBefore(known'[u][q].clock, known[u][q].clock)
    <2> DEFINE now == Increment(clock[s], s)
    <2>1. u = s /\ known'[u][q].clock = now
        <3>1. known' = [known EXCEPT ![s][ConflictPath(p)] = [clock |-> now, node |-> s]]
            BY <1>3 DEF Write
        <3> HIDE DEF now
        <3> QED BY <1>3, <3>1 DEF Inv, TypeOK
    <2>2. clock[s] \in Clock(Stations) /\ now \in Clock(Stations)
        BY IncrementType DEF Inv, TypeOK
    <2>3. HappensBefore(known[u][q].clock, now)
        BY <1>1, <2>1, <2>2, LeqThenIncrement DEF Inv, KnownWithinClock
    <2> QED BY <1>1, <2>1, <2>2, <2>3, HappensBeforeAsymmetric
<1>4. ASSUME NEW s \in Stations, ApplyPeerOperation(s), known'[u][q] # known[u][q]
      PROVE  ~HappensBefore(known'[u][q].clock, known[u][q].clock)
    <2> DEFINE op == Head(inbox[s])
    <2>1. op \in Ops
        <3>1. inbox[s] \in Seq(Ops) /\ inbox[s] # <<>>
            BY <1>4 DEF ApplyPeerOperation, Inv, TypeOK
        <3> QED BY <3>1, HeadTailProperties
    <2>2. /\ Accepts(s, op)
          /\ u = s /\ q = ConflictPath(op.path)
          /\ known'[u][q].clock = op.clock
        <3>1. /\ Accepts(s, op)
              /\ known' = [known EXCEPT ![s][ConflictPath(op.path)] =
                             [clock |-> op.clock, node |-> op.node]]
            BY <1>4 DEF ApplyPeerOperation
        <3> HIDE DEF op
        <3> QED BY <1>4, <3>1 DEF Inv, TypeOK
    <2> QED BY <2>1, <2>2, AcceptedIsNotOlder DEF Inv
<1>5. CASE \E s, t \in Stations : Receive(s, t)
    BY <1>2, <1>5 DEF Receive
<1>6. CASE UNCHANGED vars
    BY <1>2, <1>6 DEF vars
<1> QED BY <1>2, <1>3, <1>4, <1>5, <1>6 DEF Next

\* On every station a path only ever moves to a write that did not happen
\* before the one it held.
THEOREM NeverGoesBack == Spec => NeverCausallyOlder
<1>1. [](TypeOK /\ KnownWithinClock) /\ [][Next]_vars => NeverCausallyOlder
    <2>1. Inv /\ [Next]_vars =>
            [\A s \in Stations, p \in ConflictPaths :
                ~HappensBefore(known'[s][p].clock, known[s][p].clock)]_vars
        BY StepNeverOlder
    <2> QED BY <2>1, PTL DEF NeverCausallyOlder, Inv
<1> QED BY <1>1, TypeCorrect, ClockCoversWhatIsHeld, PTL DEF Spec

-----------------------------------------------------------------------------
\* Refinement.

\* Nothing is on its way, or waiting for an engine, that nobody wrote.
OnItsWayWasWritten ==
    /\ \A s \in Stations : \A i \in 1..Len(inbox[s]) : Stamp(inbox[s][i]) \in Written
    /\ \A s, t \in Stations : \A i \in 1..Len(link[s][t]) : Stamp(link[s][t][i]) \in Written

\* Appending a written write to a sequence of written writes.
LEMMA AppendWritten ==
    ASSUME NEW W, NEW q \in Seq(Ops), NEW op \in Ops, Stamp(op) \in W,
           \A i \in 1..Len(q) : Stamp(q[i]) \in W
    PROVE  \A i \in 1..Len(Append(q, op)) : Stamp(Append(q, op)[i]) \in W
<1>1. /\ Len(Append(q, op)) = Len(q) + 1
      /\ \A i \in 1..Len(q) : Append(q, op)[i] = q[i]
      /\ Append(q, op)[Len(q) + 1] = op
    BY AppendProperties
<1>2. Len(q) \in Nat
    OBVIOUS
<1> QED BY <1>1, <1>2

LEMMA TailWritten ==
    ASSUME NEW W, NEW q \in Seq(Ops), q # <<>>,
           \A i \in 1..Len(q) : Stamp(q[i]) \in W
    PROVE  /\ Stamp(Head(q)) \in W
           /\ \A i \in 1..Len(Tail(q)) : Stamp(Tail(q)[i]) \in W
<1>1. /\ Len(Tail(q)) = Len(q) - 1
      /\ \A i \in 1..Len(Tail(q)) : Tail(q)[i] = q[i + 1]
    BY HeadTailProperties
<1>2. Len(q) \in Nat \ {0} /\ Head(q) = q[1]
    BY EmptySeq
<1> QED BY <1>1, <1>2

\* Fanning out a written write leaves only written writes on the links.
LEMMA FanOutWritten ==
    ASSUME link \in [Stations -> [Stations -> Seq(Ops)]], NEW W,
           NEW s \in Stations, NEW T, NEW op \in Ops, Stamp(op) \in W,
           NEW u \in Stations, NEW v \in Stations,
           \A i \in 1..Len(link[u][v]) : Stamp(link[u][v][i]) \in W
    PROVE  \A i \in 1..Len(FanOut(s, T, op)[u][v]) : Stamp(FanOut(s, T, op)[u][v][i]) \in W
<1>1. CASE u = s /\ v \in T
    <2>1. FanOut(s, T, op)[u][v] = Append(link[u][v], op)
        BY <1>1 DEF FanOut
    <2> QED BY <2>1, AppendWritten
<1>2. CASE ~(u = s /\ v \in T)
    <2>1. FanOut(s, T, op)[u][v] = link[u][v]
        BY <1>2 DEF FanOut
    <2> QED BY <2>1
<1> QED BY <1>1, <1>2

\* A write is written by being made: what was written stays so, and the new
\* one is.
LEMMA WriteExtendsWritten ==
    ASSUME TypeOK, NEW s \in Stations, NEW w,
           seen' = [seen EXCEPT ![s] = @ \cup {w}]
    PROVE  Written' = Written \cup {w}
BY DEF Written, TypeOK

LEMMA WriteKeepsWritten ==
    ASSUME TypeOK, OnItsWayWasWritten, NEW s \in Stations, NEW p \in Paths, Write(s, p)
    PROVE  OnItsWayWasWritten'
<1> DEFINE now == Increment(clock[s], s)
           op  == [clock |-> now, node |-> s, path |-> p, value |-> issued + 1]
<1>1. s \in Stations /\ op \in Ops
    <2>1. now \in Clock(Stations) /\ issued + 1 \in Nat
        BY IncrementType DEF TypeOK
    <2> QED BY <2>1 DEF Ops
<1>2. inbox' = inbox
    BY DEF Write
<1>3. CASE UNCHANGED <<link, seen>>
    <2>1. Written' = Written
        BY <1>3 DEF Written
    <2> QED BY <1>2, <1>3, <2>1 DEF OnItsWayWasWritten
<1>4. CASE /\ link' = FanOut(s, Peers(s), op)
           /\ seen' = [seen EXCEPT ![s] = seen[s] \cup {Stamp(op)}]
    <2> HIDE DEF op
    <2>1. Written' = Written \cup {Stamp(op)}
        BY <1>1, <1>4, WriteExtendsWritten
    <2>2. \A u \in Stations : \A i \in 1..Len(inbox'[u]) : Stamp(inbox'[u][i]) \in Written'
        BY <1>2, <2>1 DEF OnItsWayWasWritten
    <2>3. ASSUME NEW u \in Stations, NEW v \in Stations
          PROVE  \A i \in 1..Len(link'[u][v]) : Stamp(link'[u][v][i]) \in Written'
        <3>1. \A i \in 1..Len(link[u][v]) : Stamp(link[u][v][i]) \in Written'
            BY <2>1 DEF OnItsWayWasWritten
        <3>2. Stamp(op) \in Written'
            BY <2>1
        <3> HIDE DEF Written
        <3> QED BY <1>1, <1>4, <3>1, <3>2, FanOutWritten DEF TypeOK
    <2> QED BY <2>2, <2>3 DEF OnItsWayWasWritten
<1> QED BY <1>3, <1>4 DEF Write

LEMMA ReceiveKeepsWritten ==
    ASSUME TypeOK, OnItsWayWasWritten, NEW s \in Stations, NEW t \in Stations, Receive(s, t)
    PROVE  OnItsWayWasWritten'
<1> DEFINE op == Head(link[t][s])
           popped == [link EXCEPT ![t][s] = Tail(@)]
           T == Peers(s) \ {t, op.node}
<1>1. link[t][s] \in Seq(Ops) /\ link[t][s] # <<>>
    BY DEF Receive, TypeOK
<1>2. op \in Ops /\ Tail(link[t][s]) \in Seq(Ops)
    BY <1>1, HeadTailProperties
<1>3. /\ Stamp(op) \in Written
      /\ \A i \in 1..Len(Tail(link[t][s])) : Stamp(Tail(link[t][s])[i]) \in Written
    BY <1>1, TailWritten DEF OnItsWayWasWritten
<1>4. Written' = Written
    BY DEF Receive, Written
<1>5. ASSUME NEW u \in Stations
      PROVE  \A i \in 1..Len(inbox'[u]) : Stamp(inbox'[u][i]) \in Written
    <2>1. inbox'[u] = IF u = s THEN Append(inbox[u], op) ELSE inbox[u]
        BY DEF Receive, TypeOK
    <2>2. inbox[u] \in Seq(Ops) /\ \A i \in 1..Len(inbox[u]) : Stamp(inbox[u][i]) \in Written
        BY DEF OnItsWayWasWritten, TypeOK
    <2> HIDE DEF op
    <2> QED BY <1>2, <1>3, <2>1, <2>2, AppendWritten
<1>6. ASSUME NEW u \in Stations, NEW v \in Stations
      PROVE  \A i \in 1..Len(link'[u][v]) : Stamp(link'[u][v][i]) \in Written
    <2>1. \A i \in 1..Len(link[u][v]) : Stamp(link[u][v][i]) \in Written
        BY DEF OnItsWayWasWritten
    <2>2. popped[u][v] = IF u = t /\ v = s THEN Tail(link[t][s]) ELSE link[u][v]
        BY DEF TypeOK
    <2>3. CASE link'[u][v] = popped[u][v]
        BY <1>3, <2>1, <2>2, <2>3
    <2>4. CASE link'[u][v] = FanOut(s, T, op)[u][v]
        <3> HIDE DEF op, T
        <3> QED BY <1>2, <1>3, <2>1, <2>4, FanOutWritten DEF TypeOK
    <2>5. \/ link' = popped
          \/ link' = [popped EXCEPT ![s] = FanOut(s, T, op)[s]]
        BY DEF Receive
    <2> HIDE DEF op, T
    <2>6. popped \in [Stations -> [Stations -> Seq(Ops)]]
        BY <1>2 DEF TypeOK
    <2> HIDE DEF popped
    <2> QED BY <2>3, <2>4, <2>5, <2>6
<1>7. \A u \in Stations : \A i \in 1..Len(inbox'[u]) : Stamp(inbox'[u][i]) \in Written'
    BY <1>4, <1>5
<1>8. \A u, v \in Stations : \A i \in 1..Len(link'[u][v]) : Stamp(link'[u][v][i]) \in Written'
    BY <1>4, <1>6
<1> QED BY <1>7, <1>8 DEF OnItsWayWasWritten

LEMMA ApplyKeepsWritten ==
    ASSUME TypeOK, OnItsWayWasWritten, NEW s \in Stations, ApplyPeerOperation(s)
    PROVE  OnItsWayWasWritten' /\ Written' = Written /\ Stamp(Head(inbox[s])) \in Written
<1> DEFINE op == Head(inbox[s])
<1>1. inbox[s] \in Seq(Ops) /\ inbox[s] # <<>>
    BY DEF ApplyPeerOperation, TypeOK
<1>2. /\ Stamp(op) \in Written
      /\ \A i \in 1..Len(Tail(inbox[s])) : Stamp(Tail(inbox[s])[i]) \in Written
    BY <1>1, TailWritten DEF OnItsWayWasWritten
<1>3. Written' = Written
    <2>1. seen' = [seen EXCEPT ![s] = seen[s] \cup {Stamp(op)}]
        BY DEF ApplyPeerOperation
    <2> HIDE DEF op
    <2>2. Written' = Written \cup {Stamp(op)}
        BY <2>1, WriteExtendsWritten
    <2> QED BY <1>2, <2>2
<1>4. ASSUME NEW u \in Stations
      PROVE  \A i \in 1..Len(inbox'[u]) : Stamp(inbox'[u][i]) \in Written
    <2>1. inbox'[u] = IF u = s THEN Tail(inbox[s]) ELSE inbox[u]
        BY DEF ApplyPeerOperation, TypeOK
    <2> QED BY <1>2, <2>1 DEF OnItsWayWasWritten
<1>5. link' = link
    BY DEF ApplyPeerOperation
<1> QED BY <1>2, <1>3, <1>4, <1>5 DEF OnItsWayWasWritten

LEMMA InitWritten == Init => OnItsWayWasWritten
BY EmptySeq DEF Init, OnItsWayWasWritten

\* No link or inbox ever carries a write nobody made.
LEMMA OnlyWhatWasWritten == Spec => []OnItsWayWasWritten
<1>1. TypeOK /\ OnItsWayWasWritten /\ [Next]_vars => OnItsWayWasWritten'
    <2> SUFFICES ASSUME TypeOK, OnItsWayWasWritten, [Next]_vars PROVE OnItsWayWasWritten'
        OBVIOUS
    <2>1. CASE UNCHANGED vars
        <3>1. inbox' = inbox /\ link' = link /\ Written' = Written
            BY <2>1 DEF vars, Written
        <3> QED BY <3>1 DEF OnItsWayWasWritten
    <2>2. ASSUME NEW s \in Stations, NEW p \in Paths, Write(s, p)
          PROVE  OnItsWayWasWritten'
        BY <2>2, WriteKeepsWritten
    <2>3. ASSUME NEW s \in Stations, NEW t \in Stations, Receive(s, t)
          PROVE  OnItsWayWasWritten'
        BY <2>3, ReceiveKeepsWritten
    <2>4. ASSUME NEW s \in Stations, ApplyPeerOperation(s)
          PROVE  OnItsWayWasWritten'
        BY <2>4, ApplyKeepsWritten
    <2> QED BY <2>1, <2>2, <2>3, <2>4 DEF Next
<1> QED BY <1>1, InitWritten, TypeCorrect, PTL DEF Spec

-----------------------------------------------------------------------------
\* The abstract operators, read back as this module's own.

LEMMA StoreOperators ==
    /\ Store!Writes = Stamps
    /\ \A c, d : Store!HappensBefore(c, d) <=> HappensBefore(c, d)
    /\ \A w : Store!AsHeld(w) = [clock |-> w.clock, node |-> w.node]
BY DEF Store!Writes, Stamps, Store!Clock, Clock, Store!HappensBefore, HappensBefore,
       Store!LeqClock, LeqClock, Store!AsHeld

LEMMA InitRefines == Init => Store!Init
<1> SUFFICES ASSUME Init PROVE Store!Init
    OBVIOUS
<1>1. Written = {}
    BY DEF Init, Written
<1> QED BY <1>1 DEF Init, Store!Init, Unwritten, Store!ZeroClock, ZeroClock

\* A local write is a write of the store; a refused one is nothing to it.
LEMMA WriteRefines ==
    ASSUME Inv, NEW s \in Stations, NEW p \in Paths, Write(s, p)
    PROVE  Store!Write(s, ConflictPath(p)) \/ UNCHANGED <<Written, known>>
<1> USE DEF Inv
<1> DEFINE now == Increment(clock[s], s)
           op  == [clock |-> now, node |-> s, path |-> p, value |-> issued + 1]
<1>1. /\ s \in Stations /\ op \in Ops
      /\ op.node = s /\ op.clock = now /\ op.path = p
    <2>1. now \in Clock(Stations) /\ issued + 1 \in Nat
        BY IncrementType DEF TypeOK
    <2> QED BY <2>1 DEF Ops
<1>2. CASE UNCHANGED <<known, seen>>
    BY <1>2 DEF Written
<1>3. CASE /\ known' = [known EXCEPT ![s][ConflictPath(p)] = [clock |-> now, node |-> s]]
           /\ seen' = [seen EXCEPT ![s] = seen[s] \cup {Stamp(op)}]
    <2>1. \A q \in ConflictPaths : HappensBefore(known[s][q].clock, now)
        BY <1>1, LeqThenIncrement DEF KnownWithinClock, TypeOK
    <2> HIDE DEF op, now
    <2>2. Written' = Written \cup {Stamp(op)}
        BY <1>1, <1>3, WriteExtendsWritten
    <2>3. /\ Stamp(op) \in Stamps /\ Stamp(op).node = s /\ Stamp(op).clock = now
          /\ Stamp(op).path = ConflictPath(p)
        BY <1>1, StampType
    <2>4. known' = [known EXCEPT ![s][ConflictPath(p)] = Store!AsHeld(Stamp(op))]
        BY <1>3, <2>3, StoreOperators
    <2>5. \A q \in ConflictPaths : Store!HappensBefore(known[s][q].clock, Stamp(op).clock)
        BY <2>1, <2>3, StoreOperators
    <2>6. Stamp(op) \in Store!Writes
        BY <2>3, StoreOperators
    <2>7. Stamp(op) \in Written'
        BY <2>2
    <2> HIDE DEF Written
    <2> QED BY <2>2, <2>3, <2>4, <2>5, <2>6, <2>7 DEF Store!Write
<1> QED BY <1>2, <1>3 DEF Write

\* A peer's write that is taken is an adoption of a write somebody made; one
\* that is superseded or refused is nothing to the store.
LEMMA ApplyRefines ==
    ASSUME Inv, OnItsWayWasWritten, NEW s \in Stations, ApplyPeerOperation(s)
    PROVE  \/ \E q \in ConflictPaths : Store!Adopt(s, q)
           \/ UNCHANGED <<Written, known>>
<1> USE DEF Inv
<1> DEFINE op == Head(inbox[s])
           q == ConflictPath(op.path)
<1>1. op \in Ops
    <2>1. inbox[s] \in Seq(Ops) /\ inbox[s] # <<>>
        BY DEF ApplyPeerOperation, TypeOK
    <2> QED BY <2>1, HeadTailProperties
<1>2. Written' = Written /\ Stamp(op) \in Written
    BY ApplyKeepsWritten
<1>3. CASE known' = known
    BY <1>2, <1>3
<1>4. CASE /\ Accepts(s, op)
           /\ known' = [known EXCEPT ![s][q] = [clock |-> op.clock, node |-> op.node]]
    <2> HIDE DEF op
    <2>1. ~HappensBefore(op.clock, known[s][q].clock)
        BY <1>1, <1>4, AcceptedIsNotOlder
    <2>2. q \in ConflictPaths
        BY <1>1, ConflictPathType DEF Ops
    <2>3. /\ Stamp(op).path = q
          /\ ~Store!HappensBefore(Stamp(op).clock, known[s][q].clock)
          /\ known' = [known EXCEPT ![s][q] = Store!AsHeld(Stamp(op))]
        BY <1>1, <1>4, <2>1, StampType, StoreOperators
    <2> HIDE DEF q, Written
    <2>4. Store!Adopt(s, q)
        BY <1>2, <2>3 DEF Store!Adopt
    <2> QED BY <2>2, <2>4
<1> QED BY <1>3, <1>4 DEF ApplyPeerOperation

\* Replication implements the causal store: every step is a write, an
\* adoption, or nothing a reader of the shows could see.
THEOREM Refinement == Spec => ImplementsCausalStore
<1>1. Inv /\ OnItsWayWasWritten /\ [Next]_vars => [Store!Next]_<<Written, known>>
    <2> SUFFICES ASSUME Inv, OnItsWayWasWritten, [Next]_vars
                 PROVE  Store!Next \/ UNCHANGED <<Written, known>>
        OBVIOUS
    <2>1. ASSUME NEW s \in Stations, NEW p \in Paths, Write(s, p)
          PROVE  Store!Next \/ UNCHANGED <<Written, known>>
        <3>1. s \in Stations /\ ConflictPath(p) \in ConflictPaths
            BY ConflictPathType
        <3> QED BY <2>1, <3>1, WriteRefines DEF Store!Next
    <2>2. ASSUME NEW s \in Stations, NEW t \in Stations, Receive(s, t)
          PROVE  UNCHANGED <<Written, known>>
        BY <2>2 DEF Receive, Written
    <2>3. ASSUME NEW s \in Stations, ApplyPeerOperation(s)
          PROVE  Store!Next \/ UNCHANGED <<Written, known>>
        BY <2>3, ApplyRefines DEF Store!Next
    <2>4. CASE UNCHANGED vars
        BY <2>4 DEF vars, Written
    <2> QED BY <2>1, <2>2, <2>3, <2>4 DEF Next
<1>2. Spec => [](Inv /\ OnItsWayWasWritten)
    BY TypeCorrect, ClockCoversWhatIsHeld, OnlyWhatWasWritten, PTL DEF Inv
<1> QED BY <1>1, <1>2, InitRefines, PTL DEF Spec, ImplementsCausalStore, Store!Spec

-----------------------------------------------------------------------------
(***************************************************************************)
(* The relay delivers causally, for any number of stations, writers and    *)
(* writes: a station is never told of a write's existence, by the clock of *)
(* another, before it is handed the write itself.  Every link keeps order, *)
(* and the leader passes a write on before its engine can answer it.       *)
(***************************************************************************)

-----------------------------------------------------------------------------
(***************************************************************************)
(* What is on its way, as the stamps of the writes.                        *)
(***************************************************************************)
Stamped(q) == {Stamp(q[i]) : i \in DOMAIN q}

Counts(c, w) == w.clock[w.node] <= c[w.node]

\* Whoever takes q in order, having S, is handed what a write in q counts by the
\* time it gets there.
Carried(q, S, W) ==
    \A i \in DOMAIN q : \A w \in W :
        Counts(q[i].clock, w) => w \in S \/ \E k \in 1..i : w = Stamp(q[k])

LEMMA StampedAppend ==
    ASSUME NEW q \in Seq(Ops), NEW op \in Ops
    PROVE  Stamped(Append(q, op)) = Stamped(q) \cup {Stamp(op)}
<1>1. /\ Len(q) \in Nat /\ DOMAIN q = 1 .. Len(q)
      /\ DOMAIN Append(q, op) = 1 .. Len(q) + 1
      /\ \A i \in DOMAIN q : Append(q, op)[i] = q[i]
      /\ Append(q, op)[Len(q) + 1] = op
  BY LenProperties, AppendProperties
<1> QED BY <1>1 DEF Stamped

LEMMA StampedTail ==
    ASSUME NEW q \in Seq(Ops), q # <<>>
    PROVE  Stamped(q) = {Stamp(Head(q))} \cup Stamped(Tail(q))
<1>1. /\ Len(q) \in Nat \ {0} /\ DOMAIN q = 1 .. Len(q)
      /\ Tail(q) \in Seq(Ops) /\ Len(Tail(q)) = Len(q) - 1
      /\ DOMAIN Tail(q) = 1 .. Len(Tail(q))
      /\ \A i \in 1 .. Len(Tail(q)) : Tail(q)[i] = q[i + 1]
      /\ Head(q) = q[1]
  BY LenProperties, HeadTailProperties, EmptySeq
<1>2. ASSUME NEW i \in DOMAIN q
      PROVE  Stamp(q[i]) = Stamp(Head(q)) \/ Stamp(q[i]) \in Stamped(Tail(q))
  <2>1. CASE i = 1
    BY <1>1, <2>1
  <2>2. CASE i # 1
    <3>1. i - 1 \in DOMAIN Tail(q) /\ Tail(q)[i - 1] = q[i]
      BY <1>1, <2>2
    <3> QED BY <3>1 DEF Stamped
  <2> QED BY <2>1, <2>2
<1>3. \A i \in DOMAIN Tail(q) : i + 1 \in DOMAIN q /\ Tail(q)[i] = q[i + 1]
  BY <1>1
<1>4. 1 \in DOMAIN q /\ Head(q) = q[1]
  BY <1>1
<1> QED BY <1>2, <1>3, <1>4 DEF Stamped

LEMMA CarriedAppend ==
    ASSUME NEW q \in Seq(Ops), NEW op \in Ops, NEW S, NEW W, Carried(q, S, W),
           \A w \in W : Counts(op.clock, w) => w \in S \cup Stamped(q) \cup {Stamp(op)}
    PROVE  Carried(Append(q, op), S, W)
<1>1. /\ Len(q) \in Nat /\ DOMAIN q = 1 .. Len(q)
      /\ DOMAIN Append(q, op) = 1 .. Len(q) + 1
      /\ \A i \in DOMAIN q : Append(q, op)[i] = q[i]
      /\ Append(q, op)[Len(q) + 1] = op
  BY LenProperties, AppendProperties
<1> SUFFICES ASSUME NEW i \in DOMAIN Append(q, op), NEW w \in W,
                    Counts(Append(q, op)[i].clock, w), w \notin S
             PROVE  \E k \in 1..i : w = Stamp(Append(q, op)[k])
  BY DEF Carried
<1>2. CASE i \in DOMAIN q
  <2>1. PICK k \in 1..i : w = Stamp(q[k])
    BY <1>1, <1>2 DEF Carried
  <2>2. k \in DOMAIN q
    BY <1>1, <1>2
  <2> QED BY <1>1, <2>1, <2>2
<1>3. CASE i \notin DOMAIN q
  <2>1. i = Len(q) + 1 /\ Append(q, op)[i] = op
    BY <1>1, <1>3
  <2>2. w \in Stamped(q) \/ w = Stamp(op)
    BY <2>1
  <2>3. CASE w \in Stamped(q)
    <3>1. PICK k \in DOMAIN q : w = Stamp(q[k])
      BY <2>3 DEF Stamped
    <3> QED BY <1>1, <2>1, <3>1
  <2>4. CASE w = Stamp(op)
    BY <1>1, <2>1, <2>4
  <2> QED BY <2>2, <2>3, <2>4
<1> QED BY <1>2, <1>3

LEMMA CarriedTail ==
    ASSUME NEW q \in Seq(Ops), q # <<>>, NEW S, NEW W, Carried(q, S, W)
    PROVE  /\ \A w \in W : Counts(Head(q).clock, w) => w \in S \cup {Stamp(Head(q))}
           /\ Carried(Tail(q), S \cup {Stamp(Head(q))}, W)
<1>1. /\ Len(q) \in Nat \ {0} /\ DOMAIN q = 1 .. Len(q)
      /\ Tail(q) \in Seq(Ops) /\ Len(Tail(q)) = Len(q) - 1
      /\ DOMAIN Tail(q) = 1 .. Len(Tail(q))
      /\ \A i \in 1 .. Len(Tail(q)) : Tail(q)[i] = q[i + 1]
      /\ Head(q) = q[1]
  BY LenProperties, HeadTailProperties, EmptySeq
<1>2. \A w \in W : Counts(Head(q).clock, w) => w \in S \cup {Stamp(Head(q))}
  <2> SUFFICES ASSUME NEW w \in W, Counts(q[1].clock, w), w \notin S
               PROVE  w = Stamp(q[1])
    BY <1>1
  <2>1. PICK k \in 1..1 : w = Stamp(q[k])
    BY <1>1 DEF Carried
  <2>2. k = 1
    OBVIOUS
  <2> QED BY <2>1, <2>2
<1>3. Carried(Tail(q), S \cup {Stamp(Head(q))}, W)
  <2> SUFFICES ASSUME NEW i \in DOMAIN Tail(q), NEW w \in W,
                      Counts(Tail(q)[i].clock, w), w \notin S, w # Stamp(Head(q))
               PROVE  \E k \in 1..i : w = Stamp(Tail(q)[k])
    BY DEF Carried
  <2>1. i + 1 \in DOMAIN q /\ Tail(q)[i] = q[i + 1]
    BY <1>1
  <2>2. PICK k \in 1..(i + 1) : w = Stamp(q[k])
    BY <2>1 DEF Carried
  <2>3. k # 1
    BY <1>1, <2>2
  <2>4. k - 1 \in 1..i /\ k - 1 \in 1 .. Len(Tail(q)) /\ (k - 1) + 1 = k
    BY <1>1, <2>1, <2>2, <2>3
  <2>5. Tail(q)[k - 1] = q[k]
    BY <1>1, <2>4
  <2> QED BY <2>2, <2>4, <2>5
<1> QED BY <1>2, <1>3

\* A write that nothing in q counts asks nothing of it.
LEMMA CarriedMore ==
    ASSUME NEW q, NEW S, NEW T, NEW W, NEW V, Carried(q, S, W), S \subseteq T,
           \A w \in V \ W : \A i \in DOMAIN q : ~Counts(q[i].clock, w)
    PROVE  Carried(q, T, V)
BY DEF Carried

-----------------------------------------------------------------------------
(***************************************************************************)
(* The inductive invariant.                                                *)
(***************************************************************************)
\* Handed to the station, applied or not.
Received(s) == seen[s] \cup Stamped(inbox[s])

\* Who made a write has it.
Authored == \A s \in Stations : \A w \in Received(s) : w \in Stamps /\ w \in seen[w.node]

\* Nobody counts more of a station's writes than the station itself.
Bounded ==
    \A s, n \in Stations : /\ clock[s][n] <= clock[n][n]
                            /\ \A w \in Received(s) : w.clock[n] <= clock[n][n]

\* The links make a star, and what a follower sends is its own.
OnLinks ==
    \A s, t \in Stations : \A w \in Stamped(link[s][t]) :
        /\ t \in Peers(s) /\ w \in Received(s)
        /\ s # Leader => w.node = s

\* What one end of a link was handed the other was too, or it is on the link.
Passed ==
    \A s \in Stations : \A u \in Peers(s) :
        Received(s) \subseteq Received(u) \cup Stamped(link[s][u])

InOrder ==
    \A s \in Stations : /\ Carried(inbox[s], seen[s], Written)
                        /\ \A t \in Stations : Carried(link[s][t], Received(t), Written)

CausalInv ==
    /\ TypeOK /\ Authored /\ Bounded /\ OnLinks /\ Passed /\ InOrder
    /\ ClockCountsOnlyWhatWasSeen

\* What the types say of a queue and of the stamps in it.
LEMMA Queues ==
    ASSUME TypeOK
    PROVE  /\ \A s \in Stations : inbox[s] \in Seq(Ops) /\ clock[s] \in Clock(Stations)
           /\ \A s, t \in Stations : link[s][t] \in Seq(Ops)
           /\ \A q \in Seq(Ops) : \A i \in DOMAIN q : q[i] \in Ops /\ Stamp(q[i]) \in Stamped(q)
           /\ \A op \in Ops : /\ Stamp(op) \in Stamps /\ Stamp(op).clock = op.clock
                              /\ Stamp(op).node = op.node /\ op.node \in Stations
                              /\ op.clock \in Clock(Stations)
<1>1. \A op \in Ops : op.node \in Stations /\ op.clock \in Clock(Stations)
  BY DEF Ops
<1>2. \A q \in Seq(Ops) : \A i \in DOMAIN q : q[i] \in Ops /\ Stamp(q[i]) \in Stamped(q)
  BY LenProperties, ElementOfSeq DEF Stamped
<1> QED BY <1>1, <1>2, StampType DEF TypeOK

LEMMA WrittenIsSeen ==
    ASSUME CausalInv, NEW w \in Written
    PROVE  w \in Stamps /\ w.node \in Stations /\ w \in seen[w.node]
<1>1. PICK s \in Stations : w \in seen[s]
  BY DEF Written
<1>2. w \in Stamps /\ w \in seen[w.node]
  BY <1>1 DEF CausalInv, Authored, Received
<1> QED BY <1>2 DEF Stamps

LEMMA ReceivedIsWritten ==
    ASSUME CausalInv, NEW s \in Stations
    PROVE  Received(s) \subseteq Written
<1> SUFFICES ASSUME NEW w \in Received(s) PROVE w \in Written
  OBVIOUS
<1>1. w \in seen[w.node] /\ w \in Stamps
  BY DEF CausalInv, Authored
<1> QED BY <1>1 DEF Written, Stamps

LEMMA PeersAreStations ==
    ASSUME NEW s \in Stations
    PROVE  Peers(s) \subseteq Stations
<1>1. Leader \in Stations
  BY StationsAssumption
<1> QED BY <1>1 DEF Peers

LEMMA CausalInit ==
    ASSUME Init
    PROVE  CausalInv
<1>1. /\ \A s \in Stations : inbox[s] = <<>> /\ seen[s] = {}
      /\ \A s, t \in Stations : link[s][t] = <<>>
      /\ \A s, n \in Stations : clock[s][n] = 0
  BY DEF Init, ZeroClock
<1>2. Stamped(<<>>) = {} /\ \A S, W : Carried(<<>>, S, W)
  BY DEF Stamped, Carried
<1>3. Written = {} /\ \A s \in Stations : Received(s) = {}
  BY <1>1, <1>2 DEF Written, Received
<1>4. \A s \in Stations : Peers(s) \subseteq Stations
  BY PeersAreStations
<1>5. Authored /\ Bounded
  BY <1>1, <1>3 DEF Authored, Bounded
<1>6. OnLinks
  BY <1>1, <1>2 DEF OnLinks
<1>7. Passed
  BY <1>3 DEF Passed
<1>8. InOrder
  BY <1>1, <1>2 DEF InOrder
<1>9. ClockCountsOnlyWhatWasSeen
  BY <1>3 DEF ClockCountsOnlyWhatWasSeen
<1> QED BY <1>5, <1>6, <1>7, <1>8, <1>9, InitTypes DEF CausalInv

-----------------------------------------------------------------------------
(***************************************************************************)
(* A write is counted by nobody yet, and what its station knows is in      *)
(* front of it on every link.                                              *)
(***************************************************************************)
LEMMA WriteKeepsCausal ==
    ASSUME CausalInv, NEW s \in Stations, NEW p \in Paths, Write(s, p)
    PROVE  CausalInv'
<1> USE DEF CausalInv
<1> PICK now : now = Increment(clock[s], s)
  OBVIOUS
<1> PICK op : op = [clock |-> now, node |-> s, path |-> p, value |-> issued + 1]
  OBVIOUS
<1> PICK n : n = clock[s][s]
  OBVIOUS
<1>1. TypeOK'
  BY WriteKeepsTypes
<1>2. /\ clock[s] \in Clock(Stations) /\ now \in Clock(Stations) /\ n \in Nat
      /\ now[s] = n + 1 /\ \A m \in Stations : m # s => now[m] = clock[s][m]
      /\ op \in Ops
  <2>1. clock[s] \in Clock(Stations)
    BY Queues
  <2>2. now \in Clock(Stations) /\ issued + 1 \in Nat
    BY <2>1, IncrementType DEF TypeOK
  <2> QED BY <2>1, <2>2 DEF Increment, Clock, Ops
<1>3. /\ clock'[s] = now /\ \A u \in Stations : u # s => clock'[u] = clock[u]
      /\ inbox' = inbox
  BY <1>2 DEF Write, TypeOK
<1>4. \A u, m \in Stations : clock[u][m] \in Nat
  BY Queues DEF Clock
<1>5. \A u, m \in Stations : /\ clock'[u][m] <= clock'[m][m] /\ clock[m][m] <= clock'[m][m]
  BY <1>2, <1>3, <1>4 DEF Bounded
<1>6. CASE Refused(row[s], p)
  <2>1. seen' = seen /\ link' = link
    BY <1>6 DEF Write
  <2>2. Written' = Written /\ \A u \in Stations : Received(u)' = Received(u)
    BY <1>3, <2>1 DEF Written, Received
  <2>3. Authored'
    BY <2>1, <2>2 DEF Authored
  <2>4. Bounded'
    <3> SUFFICES ASSUME NEW u \in Stations, NEW m \in Stations, NEW w \in Received(u)
                 PROVE  w.clock[m] <= clock'[m][m]
      BY <1>5, <2>2 DEF Bounded
    <3>1. w.clock[m] \in Nat
      BY DEF Authored, Stamps, Clock
    <3>2. clock'[m][m] \in Nat
      BY <1>2, <1>3, <1>4
    <3> QED BY <1>4, <1>5, <3>1, <3>2 DEF Bounded
  <2>5. OnLinks'
    BY <2>1, <2>2 DEF OnLinks
  <2>8. Passed'
    <3> SUFFICES ASSUME NEW u \in Stations, NEW v \in Peers(u)
                 PROVE  Received(u)' \subseteq Received(v)' \cup Stamped(link'[u][v])
      BY DEF Passed
    <3>1. v \in Stations
      BY PeersAreStations
    <3> QED BY <2>1, <2>2, <3>1 DEF Passed
  <2>6. InOrder'
    BY <1>3, <2>1, <2>2 DEF InOrder
  <2>7. ClockCountsOnlyWhatWasSeen'
    <3> SUFFICES ASSUME NEW u \in Stations, NEW w \in Written,
                        w.clock[w.node] <= clock'[u][w.node]
                 PROVE  w \in seen[u]
      BY <2>1, <2>2 DEF ClockCountsOnlyWhatWasSeen
    <3>1. w.node \in Stations /\ w \in seen[w.node]
      BY WrittenIsSeen
    <3>2. CASE u = s /\ w.node = s
      BY <3>1, <3>2
    <3>3. CASE ~(u = s /\ w.node = s)
      <4>1. clock'[u][w.node] = clock[u][w.node]
        BY <1>2, <1>3, <3>1, <3>3
      <4> QED BY <4>1 DEF ClockCountsOnlyWhatWasSeen
    <3> QED BY <3>2, <3>3
  <2> QED BY <1>1, <2>3, <2>4, <2>5, <2>6, <2>7, <2>8
<1>7. CASE ~Refused(row[s], p)
  <2> PICK new : new = Stamp(op)
    OBVIOUS
  <2>1. seen' = [seen EXCEPT ![s] = @ \cup {new}] /\ link' = FanOut(s, Peers(s), op)
    BY <1>7 DEF Write
  <2>2. new \in Stamps /\ new.clock = now /\ new.node = s
    BY <1>2, Queues
  <2>3. /\ seen'[s] = seen[s] \cup {new} /\ Received(s)' = Received(s) \cup {new}
        /\ \A u \in Stations : u # s => seen'[u] = seen[u] /\ Received(u)' = Received(u)
        /\ \A u \in Stations : seen[u] \subseteq seen'[u] /\ Received(u) \subseteq Received(u)'
    BY <1>3, <2>1 DEF Received, TypeOK
  <2>4. Written' = Written \cup {new}
    BY <2>1, WriteExtendsWritten
  <2>5. /\ \A t \in Stations : link'[s][t] = IF t \in Peers(s) THEN Append(link[s][t], op)
                                             ELSE link[s][t]
        /\ \A u, t \in Stations : u # s => link'[u][t] = link[u][t]
        /\ \A t \in Stations :
              Stamped(link'[s][t]) = Stamped(link[s][t]) \cup (IF t \in Peers(s) THEN {new} ELSE {})
    <3>1. /\ \A t \in Stations : link'[s][t] = IF t \in Peers(s) THEN Append(link[s][t], op)
                                              ELSE link[s][t]
          /\ \A u, t \in Stations : u # s => link'[u][t] = link[u][t]
      BY <2>1 DEF FanOut, TypeOK
    <3> QED BY <1>2, <3>1, Queues, StampedAppend
  <2>6. \A u \in Stations : \A w \in Received(u) : w \in Stamps /\ w.clock[s] \in Nat /\ w.clock[s] <= n
    <3> SUFFICES ASSUME NEW u \in Stations, NEW w \in Received(u)
                 PROVE  w \in Stamps /\ w.clock[s] \in Nat /\ w.clock[s] <= n
      OBVIOUS
    <3> QED BY DEF Authored, Bounded, Stamps, Clock
  <2>7. ASSUME NEW u \in Stations, NEW q \in Seq(Ops), Stamped(q) \subseteq Received(u)
        PROVE  \A i \in DOMAIN q : ~Counts(q[i].clock, new)
    <3> SUFFICES ASSUME NEW i \in DOMAIN q, n + 1 <= q[i].clock[s] PROVE FALSE
      BY <1>2, <2>2 DEF Counts
    <3>1. Stamp(q[i]) \in Received(u) /\ Stamp(q[i]).clock = q[i].clock
      BY <2>7, Queues
    <3> QED BY <1>2, <2>6, <3>1
  <2>8. Authored'
    BY <2>2, <2>3 DEF Authored, Stamps
  <2>9. Bounded'
    <3> SUFFICES ASSUME NEW u \in Stations, NEW m \in Stations, NEW w \in Received(u)'
                 PROVE  w.clock[m] <= clock'[m][m]
      BY <1>5 DEF Bounded
    <3>1. CASE w = new
      BY <1>2, <1>3, <1>5, <2>2, <3>1
    <3>2. CASE w \in Received(u)
      <4>1. w.clock[m] \in Nat /\ clock'[m][m] \in Nat
        BY <1>2, <1>3, <1>4, <3>2 DEF Authored, Stamps, Clock
      <4> QED BY <1>4, <1>5, <3>2, <4>1 DEF Bounded
    <3> QED BY <2>3, <3>1, <3>2
  <2>10. OnLinks'
    BY <2>2, <2>3, <2>5 DEF OnLinks, Peers
  <2>11. Passed'
    <3> SUFFICES ASSUME NEW u \in Stations, NEW v \in Peers(u)
                 PROVE  Received(u)' \subseteq Received(v)' \cup Stamped(link'[u][v])
      BY DEF Passed
    <3>1. v \in Stations /\ Received(u) \subseteq Received(v) \cup Stamped(link[u][v])
      BY PeersAreStations DEF Passed
    <3>2. CASE u = s
      BY <2>3, <2>5, <3>1, <3>2
    <3>3. CASE u # s
      BY <2>3, <2>5, <3>1, <3>3
    <3> QED BY <3>2, <3>3
  <2>12. InOrder'
    <3>1. ASSUME NEW u \in Stations PROVE Carried(inbox[u], seen'[u], Written')
      <4>1. Carried(inbox[u], seen[u], Written)
        BY DEF InOrder
      <4>2. \A i \in DOMAIN inbox[u] : ~Counts(inbox[u][i].clock, new)
        BY <2>7, Queues DEF Received
      <4> QED BY <2>3, <2>4, <4>1, <4>2, CarriedMore
    <3>2. ASSUME NEW u \in Stations, NEW t \in Stations
          PROVE  Carried(link[u][t], Received(t)', Written')
      <4>1. Carried(link[u][t], Received(t), Written)
        BY DEF InOrder
      <4>2. Stamped(link[u][t]) \subseteq Received(u)
        BY DEF OnLinks
      <4>3. \A i \in DOMAIN link[u][t] : ~Counts(link[u][t][i].clock, new)
        BY <2>7, <4>2, Queues
      <4> QED BY <2>3, <2>4, <4>1, <4>3, CarriedMore
    <3>3. ASSUME NEW t \in Peers(s), t \in Stations
          PROVE  Carried(Append(link[s][t], op), Received(t)', Written')
      <4>1. Carried(link[s][t], Received(t)', Written')
        BY <3>2, <3>3
      <4>2. ASSUME NEW w \in Written', Counts(op.clock, w)
            PROVE  w \in Received(t)' \cup Stamped(link[s][t]) \cup {new}
        <5>1. CASE w = new
          BY <5>1
        <5>2. CASE w \in Written /\ w # new
          <6>1. w.node \in Stations /\ w \in seen[w.node] /\ op.clock = now
            BY <5>2, WrittenIsSeen
          <6>2. w \in seen[s]
            <7>1. CASE w.node = s
              BY <6>1, <7>1
            <7>2. CASE w.node # s
              <8>1. w.clock[w.node] <= clock[s][w.node]
                BY <1>2, <4>2, <6>1, <7>2 DEF Counts
              <8> QED BY <5>2, <8>1 DEF ClockCountsOnlyWhatWasSeen
            <7> QED BY <7>1, <7>2
          <6> QED BY <2>3, <3>3, <6>2 DEF Received, Passed
        <5> QED BY <2>4, <5>1, <5>2
      <4> QED BY <1>2, <3>3, <4>1, <4>2, Queues, CarriedAppend
    <3>4. \A u, t \in Stations : Carried(link'[u][t], Received(t)', Written')
      BY <2>5, <3>2, <3>3
    <3> QED BY <1>3, <3>1, <3>4 DEF InOrder
  <2>13. ClockCountsOnlyWhatWasSeen'
    <3> SUFFICES ASSUME NEW u \in Stations, NEW w \in Written',
                        w.clock[w.node] <= clock'[u][w.node]
                 PROVE  w \in seen'[u]
      BY DEF ClockCountsOnlyWhatWasSeen
    <3>1. CASE w = new
      <4>1. n + 1 <= clock'[u][s]
        BY <1>2, <2>2, <3>1
      <4>2. u = s
        BY <1>2, <1>3, <1>4, <4>1 DEF Bounded
      <4> QED BY <2>3, <3>1, <4>2
    <3>2. CASE w \in Written
      <4>1. w.node \in Stations /\ w \in seen[w.node]
        BY <3>2, WrittenIsSeen
      <4>2. CASE u = s /\ w.node = s
        BY <2>3, <4>1, <4>2
      <4>3. CASE ~(u = s /\ w.node = s)
        <5>1. clock'[u][w.node] = clock[u][w.node]
          BY <1>2, <1>3, <4>1, <4>3
        <5> QED BY <2>3, <3>2, <5>1 DEF ClockCountsOnlyWhatWasSeen
      <4> QED BY <4>2, <4>3
    <3> QED BY <2>4, <3>1, <3>2
  <2> QED BY <1>1, <2>8, <2>9, <2>10, <2>11, <2>12, <2>13
<1> QED BY <1>6, <1>7

-----------------------------------------------------------------------------
(***************************************************************************)
(* The relay: what the leader is handed is on its way to everybody else at *)
(* once, behind what it counts.                                            *)
(***************************************************************************)
LEMMA ReceiveKeepsCausal ==
    ASSUME CausalInv, NEW s \in Stations, NEW t \in Stations, Receive(s, t)
    PROVE  CausalInv'
<1> USE DEF CausalInv
<1> PICK q : q = link[t][s]
  OBVIOUS
<1> PICK op : op = Head(q)
  OBVIOUS
<1> PICK new : new = Stamp(op)
  OBVIOUS
<1>1. TypeOK'
  BY ReceiveKeepsTypes
<1>2. q \in Seq(Ops) /\ q # <<>> /\ op \in Ops /\ Tail(q) \in Seq(Ops)
  <2>1. q \in Seq(Ops) /\ q # <<>>
    BY Queues DEF Receive
  <2> QED BY <2>1, HeadTailProperties
<1>3. Stamped(q) = {new} \cup Stamped(Tail(q))
  BY <1>2, StampedTail
<1>4. /\ s \in Peers(t) /\ new \in Received(t) /\ (t # Leader => op.node = t)
      /\ new.node = op.node /\ s # t
  <2>1. s \in Peers(t) /\ new \in Received(t) /\ (t # Leader => new.node = t)
    BY <1>3 DEF OnLinks
  <2>2. new.node = op.node
    BY <1>2, Queues
  <2> QED BY <2>1, <2>2 DEF Peers
<1>5. /\ inbox'[s] = Append(inbox[s], op)
      /\ \A u \in Stations : u # s => inbox'[u] = inbox[u]
      /\ seen' = seen /\ clock' = clock
  BY DEF Receive, TypeOK
<1>6. /\ Received(s)' = Received(s) \cup {new}
      /\ \A u \in Stations : u # s => Received(u)' = Received(u)
      /\ \A u \in Stations : Received(u) \subseteq Received(u)'
  <2>1. Stamped(inbox'[s]) = Stamped(inbox[s]) \cup {new}
    BY <1>2, <1>5, Queues, StampedAppend
  <2> QED BY <1>5, <2>1 DEF Received
<1>7. Written' = Written
  BY <1>5 DEF Written
<1>8. /\ link'[t][s] = Tail(q)
      /\ \A v \in Stations : s = Leader /\ v \in Peers(s) /\ v # t => link'[s][v] = Append(link[s][v], op)
      /\ \A v \in Stations : ~(s = Leader /\ v \in Peers(s) /\ v # t) => link'[s][v] = link[s][v]
      /\ \A u, v \in Stations : u # s /\ ~(u = t /\ v = s) => link'[u][v] = link[u][v]
  <2> PICK popped : popped = [link EXCEPT ![t][s] = Tail(@)]
    OBVIOUS
  <2>1. /\ popped \in [Stations -> [Stations -> Seq(Ops)]]
        /\ popped[t][s] = Tail(q)
        /\ \A u, v \in Stations : ~(u = t /\ v = s) => popped[u][v] = link[u][v]
    BY <1>2 DEF TypeOK
  <2>2. CASE s = Leader
    <3>1. op.node = t
      BY <1>4, <2>2
    <3>2. link' = [popped EXCEPT ![s] = FanOut(s, Peers(s) \ {t}, op)[s]]
      BY <2>2, <3>1 DEF Receive
    <3>3. \A v \in Stations : FanOut(s, Peers(s) \ {t}, op)[s][v] =
             IF v \in Peers(s) \ {t} THEN Append(link[s][v], op) ELSE link[s][v]
      BY DEF FanOut, TypeOK
    <3>4. link'[s] = FanOut(s, Peers(s) \ {t}, op)[s]
          /\ \A u \in Stations : u # s => link'[u] = popped[u]
      BY <2>1, <3>2
    <3>5. link'[t][s] = Tail(q)
      BY <1>4, <2>1, <3>4
    <3>6. \A v \in Stations : v \in Peers(s) /\ v # t => link'[s][v] = Append(link[s][v], op)
      BY <3>3, <3>4
    <3>7. \A v \in Stations : ~(v \in Peers(s) /\ v # t) => link'[s][v] = link[s][v]
      BY <3>3, <3>4
    <3>8. ASSUME NEW u \in Stations, NEW v \in Stations, u # s, ~(u = t /\ v = s)
          PROVE  link'[u][v] = link[u][v]
      <4>1. popped[u][v] = link[u][v]
        BY <2>1, <3>8
      <4>2. link'[u] = popped[u]
        BY <3>4, <3>8
      <4> QED BY ONLY <4>1, <4>2
    <3> HIDE DEF CausalInv
    <3> QED BY <2>2, <3>5, <3>6, <3>7, <3>8
  <2>3. CASE s # Leader
    <3>1. link' = popped
      BY <2>3 DEF Receive
    <3> QED BY <1>4, <2>1, <2>3, <3>1
  <2> QED BY <2>2, <2>3
<1>9. ASSUME NEW v \in Stations, s = Leader, v \in Peers(s), v # t
      PROVE  Stamped(link'[s][v]) = Stamped(link[s][v]) \cup {new}
  <2> PICK sent : sent = link[s][v]
    OBVIOUS
  <2>1. sent \in Seq(Ops)
    BY Queues
  <2>2. Stamped(Append(sent, op)) = Stamped(sent) \cup {new}
    BY <1>2, <2>1, StampedAppend
  <2>3. link'[s][v] = Append(sent, op)
    BY <1>8, <1>9
  <2> QED BY <2>2, <2>3
<1>10. \A w \in Written : Counts(op.clock, w) => w \in Received(s) \cup {new}
  <2>1. Carried(q, Received(s), Written)
    BY DEF InOrder
  <2> QED BY <1>2, <2>1, CarriedTail
<1>11. Authored'
  BY <1>4, <1>5, <1>6 DEF Authored
<1>12. Bounded'
  <2>1. ASSUME NEW u \in Stations, NEW w \in Received(u)' PROVE \E v \in Stations : w \in Received(v)
    BY <1>4, <1>6
  <2> QED BY <1>5, <2>1 DEF Bounded
<1>13. OnLinks'
  <2> SUFFICES ASSUME NEW u \in Stations, NEW v \in Stations, NEW w \in Stamped(link'[u][v])
               PROVE  v \in Peers(u) /\ w \in Received(u)' /\ (u # Leader => w.node = u)
    BY DEF OnLinks, Peers
  <2>1. CASE u = t /\ v = s
    BY <1>3, <1>6, <1>8, <2>1 DEF OnLinks
  <2>2. CASE u = s /\ s = Leader /\ v \in Peers(s) /\ v # t
    BY <1>6, <1>9, <2>2 DEF OnLinks
  <2>3. CASE link'[u][v] = link[u][v]
    BY <1>6, <2>3 DEF OnLinks
  <2> QED BY <1>8, <2>1, <2>2, <2>3
<1>14. Passed'
  <2> SUFFICES ASSUME NEW u \in Stations, NEW v \in Peers(u)
               PROVE  Received(u)' \subseteq Received(v)' \cup Stamped(link'[u][v])
    BY DEF Passed, Peers
  <2>1. v \in Stations /\ Received(u) \subseteq Received(v) \cup Stamped(link[u][v])
    BY PeersAreStations DEF Passed
  <2>2. CASE u = s /\ v = t
    BY <1>4, <1>6, <1>8, <2>1, <2>2
  <2>3. CASE u = s /\ v # t
    <3>1. s = Leader
      BY <1>4, <2>3 DEF Peers
    <3> QED BY <1>6, <1>9, <2>1, <2>3, <3>1
  <2>4. CASE u = t /\ v = s
    BY <1>3, <1>4, <1>6, <1>8, <2>1, <2>4
  <2>5. CASE u # s /\ ~(u = t /\ v = s)
    BY <1>6, <1>8, <2>1, <2>5
  <2> QED BY <2>2, <2>3, <2>4, <2>5
<1>15. InOrder'
  <2>1. ASSUME NEW u \in Stations PROVE Carried(inbox'[u], seen'[u], Written')
    <3>1. Carried(inbox[u], seen[u], Written)
      BY DEF InOrder
    <3>2. CASE u = s
      <4>1. \A w \in Written : Counts(op.clock, w) => w \in seen[s] \cup Stamped(inbox[s]) \cup {new}
        BY <1>10 DEF Received
      <4> QED BY <1>2, <1>5, <1>7, <3>1, <3>2, <4>1, Queues, CarriedAppend
    <3>3. CASE u # s
      BY <1>5, <1>7, <3>1, <3>3
    <3> QED BY <3>2, <3>3
  <2>2. ASSUME NEW u \in Stations, NEW v \in Stations
        PROVE  Carried(link'[u][v], Received(v)', Written')
    <3>1. Carried(link[u][v], Received(v), Written)
      BY DEF InOrder
    <3>2. Carried(link[u][v], Received(v)', Written)
      BY <1>6, <3>1, CarriedMore
    <3>3. CASE u = t /\ v = s
      <4>1. Carried(q, Received(s), Written)
        BY <3>1, <3>3
      <4>2. Carried(Tail(q), Received(s) \cup {new}, Written)
        BY <1>2, <4>1, CarriedTail
      <4> QED BY <1>6, <1>7, <1>8, <3>3, <4>2
    <3>4. CASE u = s /\ s = Leader /\ v \in Peers(s) /\ v # t
      <4>1. Received(s) \subseteq Received(v) \cup Stamped(link[s][v])
        BY <3>4 DEF Passed
      <4>2. \A w \in Written : Counts(op.clock, w)
                => w \in Received(v)' \cup Stamped(link[s][v]) \cup {new}
        BY <1>6, <1>10, <4>1
      <4> PICK sent, got : sent = link[s][v] /\ got = Received(v)'
        OBVIOUS
      <4>3. sent \in Seq(Ops)
        BY Queues
      <4>4. Carried(sent, got, Written)
        BY <3>2, <3>4
      <4>5. \A w \in Written : Counts(op.clock, w) => w \in got \cup Stamped(sent) \cup {Stamp(op)}
        BY <4>2
      <4>6. Carried(Append(sent, op), got, Written)
        BY <1>2, <4>3, <4>4, <4>5, CarriedAppend
      <4> QED BY <1>7, <1>8, <3>4, <4>6
    <3>5. CASE link'[u][v] = link[u][v]
      BY <1>7, <3>2, <3>5
    <3> QED BY <1>8, <3>3, <3>4, <3>5
  <2> QED BY <2>1, <2>2 DEF InOrder
<1>16. ClockCountsOnlyWhatWasSeen'
  BY <1>5, <1>7 DEF ClockCountsOnlyWhatWasSeen
<1> QED BY <1>1, <1>11, <1>12, <1>13, <1>14, <1>15, <1>16

(***************************************************************************)
(* The engine takes over what the write's author counted, and has it all.  *)
(***************************************************************************)
LEMMA ApplyKeepsCausal ==
    ASSUME CausalInv, NEW s \in Stations, ApplyPeerOperation(s)
    PROVE  CausalInv'
<1> USE DEF CausalInv
<1> PICK q : q = inbox[s]
  OBVIOUS
<1> PICK op : op = Head(q)
  OBVIOUS
<1> PICK new : new = Stamp(op)
  OBVIOUS
<1>1. TypeOK'
  BY ApplyKeepsTypes
<1>2. q \in Seq(Ops) /\ q # <<>> /\ op \in Ops /\ Tail(q) \in Seq(Ops)
  <2>1. q \in Seq(Ops) /\ q # <<>>
    BY Queues DEF ApplyPeerOperation
  <2> QED BY <2>1, HeadTailProperties
<1>3. Stamped(q) = {new} \cup Stamped(Tail(q))
  BY <1>2, StampedTail
<1>4. /\ seen'[s] = seen[s] \cup {new} /\ inbox'[s] = Tail(q)
      /\ \A u \in Stations : u # s => seen'[u] = seen[u] /\ inbox'[u] = inbox[u]
      /\ link' = link /\ \A u \in Stations : seen[u] \subseteq seen'[u]
  BY DEF ApplyPeerOperation, TypeOK
<1>5. \A u \in Stations : Received(u)' = Received(u)
  BY <1>3, <1>4 DEF Received
<1>6. new \in Received(s) /\ new.clock = op.clock
  BY <1>2, <1>3, Queues DEF Received
<1>7. Written' = Written
  <2>1. Written' = Written \cup {new}
    BY WriteExtendsWritten DEF ApplyPeerOperation
  <2> QED BY <1>6, <2>1, ReceivedIsWritten
<1>8. /\ clock[s] \in Clock(Stations) /\ op.clock \in Clock(Stations)
      /\ \A u, m \in Stations : clock[u][m] \in Nat
      /\ \A m \in Stations : op.clock[m] \in Nat /\ op.clock[m] <= clock[m][m]
  BY <1>2, <1>6, Queues DEF Clock, Bounded
<1>9. /\ \A u \in Stations : u # s => clock'[u] = clock[u]
      /\ clock'[s][s] \in Nat /\ clock[s][s] <= clock'[s][s]
      /\ \A m \in Stations : m # s => \/ clock'[s][m] = clock[s][m]
                                      \/ clock'[s][m] = op.clock[m]
  <2> PICK merged : merged = Merge(clock[s], op.clock)
    OBVIOUS
  <2>1. /\ merged \in Clock(Stations)
        /\ \A m \in Stations : /\ merged[m] \in {clock[s][m], op.clock[m]}
                               /\ clock[s][m] <= merged[m] /\ merged[m] \in Nat
    <3>1. merged \in Clock(Stations)
      BY <1>8, MergeType
    <3>2. \A m \in Stations : merged[m] = IF op.clock[m] > clock[s][m] THEN op.clock[m] ELSE clock[s][m]
      BY <1>8 DEF Merge, Clock
    <3> QED BY <1>8, <3>1, <3>2
  <2>2. PICK c : /\ clock' = [clock EXCEPT ![s] = c]
                 /\ c \in {merged, Increment(merged, s), Increment(Increment(merged, s), s)}
    BY DEF ApplyPeerOperation
  <2>3. c[s] \in Nat /\ merged[s] <= c[s] /\ \A m \in Stations : m # s => c[m] = merged[m]
    BY <2>1, <2>2 DEF Increment, Clock
  <2>4. clock'[s] = c /\ \A u \in Stations : u # s => clock'[u] = clock[u]
    BY <2>2 DEF TypeOK
  <2> QED BY <1>8, <2>1, <2>3, <2>4
<1>10. \A m \in Stations : clock'[m][m] \in Nat /\ clock[m][m] <= clock'[m][m]
  BY <1>8, <1>9
<1>11. Authored'
  <2> SUFFICES ASSUME NEW u \in Stations, NEW w \in Received(u)
               PROVE  w \in Stamps /\ w \in seen'[w.node]
    BY <1>5 DEF Authored
  <2>1. w \in Stamps /\ w \in seen[w.node] /\ w.node \in Stations
    BY DEF Authored, Stamps
  <2> QED BY <1>4, <2>1
<1>12. Bounded'
  <2> SUFFICES ASSUME NEW u \in Stations, NEW m \in Stations
               PROVE  /\ clock'[u][m] <= clock'[m][m]
                      /\ \A w \in Received(u) : w.clock[m] <= clock'[m][m]
    BY <1>5 DEF Bounded
  <2>1. clock'[u][m] <= clock'[m][m]
    BY <1>8, <1>9, <1>10 DEF Bounded
  <2>2. ASSUME NEW w \in Received(u) PROVE w.clock[m] <= clock'[m][m]
    <3>1. w.clock[m] \in Nat /\ w.clock[m] <= clock[m][m]
      BY DEF Authored, Stamps, Clock, Bounded
    <3> QED BY <1>8, <1>10, <3>1
  <2> QED BY <2>1, <2>2
<1>13. OnLinks'
  BY <1>4, <1>5 DEF OnLinks
<1>14. Passed'
  <2> SUFFICES ASSUME NEW u \in Stations, NEW v \in Peers(u)
               PROVE  Received(u)' \subseteq Received(v)' \cup Stamped(link'[u][v])
    BY DEF Passed
  <2>1. v \in Stations
    BY PeersAreStations
  <2> QED BY <1>4, <1>5, <2>1 DEF Passed
<1>15. InOrder'
  <2>1. ASSUME NEW u \in Stations PROVE Carried(inbox'[u], seen'[u], Written')
    <3>1. Carried(inbox[u], seen[u], Written)
      BY DEF InOrder
    <3>2. CASE u = s
      <4>1. Carried(q, seen[s], Written)
        BY <3>1, <3>2
      <4>2. Carried(Tail(q), seen[s] \cup {new}, Written)
        BY <1>2, <4>1, CarriedTail
      <4> QED BY <1>4, <1>7, <3>2, <4>2
    <3>3. CASE u # s
      BY <1>4, <1>7, <3>1, <3>3
    <3> QED BY <3>2, <3>3
  <2>2. ASSUME NEW u \in Stations, NEW v \in Stations
        PROVE  Carried(link'[u][v], Received(v)', Written')
    BY <1>4, <1>5, <1>7 DEF InOrder
  <2> QED BY <2>1, <2>2 DEF InOrder
<1>16. ClockCountsOnlyWhatWasSeen'
  <2> SUFFICES ASSUME NEW u \in Stations, NEW w \in Written,
                      w.clock[w.node] <= clock'[u][w.node]
               PROVE  w \in seen'[u]
    BY <1>7 DEF ClockCountsOnlyWhatWasSeen
  <2>1. w.node \in Stations /\ w \in seen[w.node]
    BY WrittenIsSeen
  <2>2. CASE u = w.node
    BY <1>4, <2>1, <2>2
  <2>3. CASE u # w.node /\ clock'[u][w.node] = clock[u][w.node]
    BY <1>4, <2>3 DEF ClockCountsOnlyWhatWasSeen
  <2>4. CASE u = s /\ clock'[u][w.node] = op.clock[w.node]
    <3>1. Counts(op.clock, w)
      BY <2>4 DEF Counts
    <3>2. Carried(q, seen[s], Written)
      BY DEF InOrder
    <3>3. w \in seen[s] \cup {new}
      BY <1>2, <3>1, <3>2, CarriedTail
    <3> QED BY <1>4, <2>4, <3>3
  <2> QED BY <1>9, <2>1, <2>2, <2>3, <2>4
<1> QED BY <1>1, <1>11, <1>12, <1>13, <1>14, <1>15, <1>16

\* Delivery is causal in every reachable state.
LEMMA CausallyDelivered == Spec => []CausalInv
<1>1. Init => CausalInv
  BY CausalInit
<1>2. CausalInv /\ [Next]_vars => CausalInv'
  <2> SUFFICES ASSUME CausalInv, [Next]_vars PROVE CausalInv'
    OBVIOUS
  <2>1. CASE UNCHANGED vars
    <3>1. /\ clock' = clock /\ seen' = seen /\ link' = link /\ inbox' = inbox
          /\ Written' = Written /\ \A s \in Stations : Received(s)' = Received(s)
      BY <2>1 DEF vars, Received, Written
    <3>2. TypeOK'
      BY <2>1 DEF vars, CausalInv, TypeOK
    <3>3. Authored' /\ Bounded' /\ OnLinks'
      BY <3>1 DEF CausalInv, Authored, Bounded, OnLinks
    <3>4. Passed'
      BY <3>1, PeersAreStations DEF CausalInv, Passed
    <3>5. InOrder' /\ ClockCountsOnlyWhatWasSeen'
      BY <3>1 DEF CausalInv, InOrder, ClockCountsOnlyWhatWasSeen
    <3> QED BY <3>2, <3>3, <3>4, <3>5 DEF CausalInv
  <2>2. CASE \E s \in Stations, p \in Paths : Write(s, p)
    BY <2>2, WriteKeepsCausal
  <2>3. CASE \E s, t \in Stations : Receive(s, t)
    BY <2>3, ReceiveKeepsCausal
  <2>4. CASE \E s \in Stations : ApplyPeerOperation(s)
    BY <2>4, ApplyKeepsCausal
  <2> QED BY <2>1, <2>2, <2>3, <2>4 DEF Next
<1> QED BY <1>1, <1>2, PTL DEF Spec

(***************************************************************************)
(* A station whose clock counts a write has been handed that write, for    *)
(* any number of stations and any relaying: what operations_since may skip *)
(* by the clock, it may.                                                   *)
(***************************************************************************)
THEOREM ClocksAreHonest == Spec => []ClockCountsOnlyWhatWasSeen
<1>1. CausalInv => ClockCountsOnlyWhatWasSeen
  BY DEF CausalInv
<1> QED BY <1>1, CausallyDelivered, PTL

-----------------------------------------------------------------------------
(***************************************************************************)
(* Two writers of a field.  Whoever is handed the writes of two stations,  *)
(* in any order the links deliver, ends up holding the same one: among two *)
(* writers the tie break of accepts is a total order.  Among three it is   *)
(* not, and the shows drift apart.                                         *)
(***************************************************************************)
\* Nothing but fields is written, and no field by more than two stations.
TwoToAField ==
    /\ work \subseteq Stations \X Fields
    /\ \A f \in Fields : \E a, b \in Stations :
          \A s \in Stations : <<s, f>> \in work => s \in {a, b}

\* What accepts decides between two writes of a path.
Beats(x, y) ==
    \/ HappensBefore(y.clock, x.clock)
    \/ Concurrent(y.clock, x.clock) /\ x.node > y.node

\* What is held at p, as the stamp it came with.
Held(k, p) == [clock |-> k.clock, node |-> k.node, path |-> p]

\* A station counted everything it was handed before it goes on.
SeenWithinClock == \A s \in Stations : \A w \in seen[s] : LeqClock(w.clock, clock[s])

\* The writes of one station come one after the other.
Lined ==
    \A v, w \in Written :
        v.node = w.node => \/ v.clock = w.clock
                           \/ HappensBefore(v.clock, w.clock)
                           \/ HappensBefore(w.clock, v.clock)

\* A write is of somebody who is at its field, and counts itself.
AuthorsAtWork ==
    \A w \in Written : /\ w.path \in Fields /\ <<w.node, w.path>> \in work
                       /\ w.clock[w.node] >= 1

\* A station holds the write that beats all it was handed.
HoldsTheBest ==
    \A s \in Stations, f \in Fields :
        IF known[s][f] = Unwritten
        THEN \A w \in seen[s] : w.path # f
        ELSE LET best == Held(known[s][f], f)
             IN  best \in seen[s] /\ \A w \in seen[s] : w.path = f => w = best \/ Beats(best, w)

\* Every write some station has still to apply.
Queued(ib, lk) ==
    (UNION {Range(ib[s]) : s \in Stations}) \cup (UNION {Range(lk[s][t]) : s, t \in Stations})

OnTheWay == Queued(inbox, link)

\* The value that goes with a stamp, on its way and in the rows.
Valued(val) ==
    /\ \A op \in OnTheWay : op.value = val[Stamp(op)]
    /\ \A s \in Stations :
          row[s] = [f \in Fields |->
              IF known[s][f] = Unwritten THEN 0 ELSE val[Held(known[s][f], f)]]

TwoInv ==
    /\ SeenWithinClock /\ Lined /\ AuthorsAtWork /\ HoldsTheBest
    /\ \E val \in [Stamps -> Nat] : Valued(val)

\* Among the writes of two stations that each come one after the other,
\* beating is asymmetric, total and transitive.
LEMMA BeatsOrders ==
    ASSUME StationsAssumption, NEW a \in Stations, NEW b \in Stations,
           NEW x \in Stamps, NEW y \in Stamps, NEW z \in Stamps,
           {x.node, y.node, z.node} \subseteq {a, b}, x.path = y.path,
           \A v, w \in {x, y, z} : v.node = w.node => \/ v.clock = w.clock
                           \/ HappensBefore(v.clock, w.clock)
                           \/ HappensBefore(w.clock, v.clock)
    PROVE  /\ Beats(x, y) => ~Beats(y, x)
           /\ x = y \/ Beats(x, y) \/ Beats(y, x)
           /\ Beats(x, y) /\ Beats(y, z) => Beats(x, z)
<1>1. /\ x.clock \in Clock(Stations) /\ y.clock \in Clock(Stations) /\ z.clock \in Clock(Stations)
      /\ a \in Nat /\ b \in Nat
  BY StationsAssumption DEF Stamps
<1>2. \A c, d \in {x.clock, y.clock, z.clock} : HappensBefore(c, d) => ~HappensBefore(d, c)
  BY <1>1, HappensBeforeAsymmetric
<1>3. \A c, d, e \in {x.clock, y.clock, z.clock} :
         HappensBefore(c, d) /\ HappensBefore(d, e) => HappensBefore(c, e)
  BY <1>1, HappensBeforeTransitive
<1>4. x.node = y.node /\ x.clock = y.clock => x = y
  BY DEF Stamps
<1> PICK xn, yn, zn, xc, yc, zc :
      xn = x.node /\ yn = y.node /\ zn = z.node /\ xc = x.clock /\ yc = y.clock /\ zc = z.clock
  OBVIOUS
<1>5. /\ xn \in {a, b} /\ yn \in {a, b} /\ zn \in {a, b}
      /\ xn = yn => xc = yc \/ HappensBefore(xc, yc) \/ HappensBefore(yc, xc)
      /\ xn = zn => xc = zc \/ HappensBefore(xc, zc) \/ HappensBefore(zc, xc)
      /\ yn = zn => yc = zc \/ HappensBefore(yc, zc) \/ HappensBefore(zc, yc)
  OBVIOUS
<1>6. Beats(x, y) <=> HappensBefore(yc, xc) \/ (~HappensBefore(xc, yc) /\ xn > yn)
  BY DEF Beats, Concurrent
<1>7. Beats(y, x) <=> HappensBefore(xc, yc) \/ (~HappensBefore(yc, xc) /\ yn > xn)
  BY DEF Beats, Concurrent
<1>8. Beats(y, z) <=> HappensBefore(zc, yc) \/ (~HappensBefore(yc, zc) /\ yn > zn)
  BY DEF Beats, Concurrent
<1>9. Beats(x, z) <=> HappensBefore(zc, xc) \/ (~HappensBefore(xc, zc) /\ xn > zn)
  BY DEF Beats, Concurrent
<1>10. Beats(x, y) => ~Beats(y, x)
  BY <1>1, <1>2, <1>5, <1>6, <1>7
<1>11. x = y \/ Beats(x, y) \/ Beats(y, x)
  BY <1>1, <1>2, <1>4, <1>5, <1>6, <1>7
<1>12. Beats(x, y) /\ Beats(y, z) => Beats(x, z)
  BY <1>1, <1>2, <1>3, <1>5, <1>6, <1>8, <1>9
<1> QED BY <1>10, <1>11, <1>12

\* A queue of writes with one more.
LEMMA QueueGrows ==
    ASSUME NEW q \in Seq(Ops), NEW op \in Ops
    PROVE  Range(Append(q, op)) = Range(q) \cup {op}
<1>1. IsSeq(q)
  BY DEF IsSeq
<1> QED BY <1>1, RangeOfAppended

\* A queue of writes without its first.
LEMMA QueueShrinks ==
    ASSUME NEW q \in Seq(Ops), q # <<>>
    PROVE  /\ Range(q) = {Head(q)} \cup Range(Tail(q))
           /\ Head(q) \in Ops /\ Tail(q) \in Seq(Ops)
<1>1. IsSeq(q)
  BY DEF IsSeq
<1>2. Range(q) = {Head(q)} \cup Range(Tail(q))
  BY <1>1, RangeOfTail
<1>3. Head(q) \in Ops /\ Tail(q) \in Seq(Ops)
  BY HeadTailProperties
<1> QED BY <1>2, <1>3

\* To be queued is to wait at some station or on some link.
LEMMA InQueued ==
    ASSUME NEW ib, NEW lk, NEW op
    PROVE  op \in Queued(ib, lk) <=> \/ \E s \in Stations : op \in Range(ib[s])
                                     \/ \E s, t \in Stations : op \in Range(lk[s][t])
BY DEF Queued

\* What holds of every queue holds of all that is queued.
LEMMA QueuedWithin ==
    ASSUME NEW ib, NEW lk, NEW S,
           \A s \in Stations : Range(ib[s]) \subseteq S,
           \A s, t \in Stations : Range(lk[s][t]) \subseteq S
    PROVE  Queued(ib, lk) \subseteq S
BY DEF Queued

\* Every queue is part of it.
LEMMA QueuesAreQueued ==
    ASSUME NEW ib, NEW lk, NEW s \in Stations
    PROVE  /\ Range(ib[s]) \subseteq Queued(ib, lk)
           /\ \A t \in Stations : Range(lk[s][t]) \subseteq Queued(ib, lk)
BY InQueued

\* What is on its way was written by somebody.
LEMMA OnTheWayIsWritten ==
    ASSUME TypeOK, OnItsWayWasWritten, NEW op \in OnTheWay
    PROVE  op \in Ops /\ Stamp(op) \in Written
<1>1. CASE \E s \in Stations : op \in Range(inbox[s])
  <2>1. PICK s \in Stations : op \in Range(inbox[s])
    BY <1>1
  <2>2. inbox[s] \in Seq(Ops)
    BY DEF TypeOK
  <2>3. PICK i \in DOMAIN inbox[s] : op = inbox[s][i]
    BY <2>1 DEF Range
  <2>4. i \in 1..Len(inbox[s]) /\ inbox[s][i] \in Ops
    BY <2>2, <2>3, LenProperties, ElementOfSeq
  <2>5. Stamp(inbox[s][i]) \in Written
    BY <2>4 DEF OnItsWayWasWritten
  <2> QED BY <2>3, <2>4, <2>5
<1>2. CASE \E s, t \in Stations : op \in Range(link[s][t])
  <2>1. PICK s \in Stations, t \in Stations : op \in Range(link[s][t])
    BY <1>2
  <2>2. link[s][t] \in Seq(Ops)
    BY DEF TypeOK
  <2>3. PICK i \in DOMAIN link[s][t] : op = link[s][t][i]
    BY <2>1 DEF Range
  <2>4. i \in 1..Len(link[s][t]) /\ link[s][t][i] \in Ops
    BY <2>2, <2>3, LenProperties, ElementOfSeq
  <2>5. Stamp(link[s][t][i]) \in Written
    BY <2>4 DEF OnItsWayWasWritten
  <2> QED BY <2>3, <2>4, <2>5
<1> QED BY <1>1, <1>2, InQueued DEF OnTheWay

\* Fanning a write out puts that one on its way.
LEMMA FanOutOnTheWay ==
    ASSUME TypeOK, NEW s \in Stations, NEW T, NEW op \in Ops, NEW u \in Stations, NEW v \in Stations
    PROVE  Range(FanOut(s, T, op)[u][v]) \subseteq Range(link[u][v]) \cup {op}
<1>1. link[u][v] \in Seq(Ops)
  BY DEF TypeOK
<1>2. FanOut(s, T, op)[u][v] \in {link[u][v], Append(link[u][v], op)}
  BY DEF FanOut, TypeOK
<1> QED BY <1>1, <1>2, QueueGrows

\* Only a write puts anything new on its way.
LEMMA WhatGetsOnTheWay ==
    ASSUME TypeOK
    PROVE  /\ \A s \in Stations, p \in Paths : Write(s, p) =>
                 OnTheWay' \subseteq OnTheWay \cup
                    {[clock |-> Increment(clock[s], s), node |-> s, path |-> p, value |-> issued + 1]}
           /\ \A s, t \in Stations : Receive(s, t) => OnTheWay' \subseteq OnTheWay
           /\ \A s \in Stations : ApplyPeerOperation(s) =>
                 OnTheWay' \subseteq OnTheWay /\ Head(inbox[s]) \in OnTheWay
<1>1. ASSUME NEW s \in Stations, NEW p \in Paths, Write(s, p), NEW op,
             op = [clock |-> Increment(clock[s], s), node |-> s, path |-> p, value |-> issued + 1]
      PROVE  OnTheWay' \subseteq OnTheWay \cup {op}
  <2>1. inbox' = inbox /\ (link' = link \/ link' = FanOut(s, Peers(s), op))
    BY <1>1 DEF Write
  <2>2. op \in Ops
    <3>1. clock[s] \in Clock(Stations) /\ issued + 1 \in Nat
      BY MaxWritesAssumption DEF TypeOK
    <3> QED BY <1>1, <3>1, IncrementType DEF Ops
  <2>3. \A u, v \in Stations : Range(link'[u][v]) \subseteq Range(link[u][v]) \cup {op}
    BY <2>1, <2>2, FanOutOnTheWay
  <2>4. \A u \in Stations : Range(inbox'[u]) \subseteq OnTheWay
    BY <2>1, QueuesAreQueued DEF OnTheWay
  <2>5. \A u, v \in Stations : Range(link'[u][v]) \subseteq OnTheWay \cup {op}
    BY <2>3, QueuesAreQueued DEF OnTheWay
  <2> QED BY <2>4, <2>5, QueuedWithin DEF OnTheWay
<1>2. ASSUME NEW s \in Stations, NEW t \in Stations, Receive(s, t)
      PROVE  OnTheWay' \subseteq OnTheWay
  <2> PICK q : q = link[t][s]
    OBVIOUS
  <2> PICK op : op = Head(q)
    OBVIOUS
  <2>1. q \in Seq(Ops) /\ q # <<>>
    BY <1>2 DEF Receive, TypeOK
  <2>2. Range(q) = {op} \cup Range(Tail(q)) /\ op \in Ops
    BY <2>1, QueueShrinks
  <2>3. op \in OnTheWay
    BY <2>2, QueuesAreQueued DEF OnTheWay
  <2>4. \A u \in Stations : Range(inbox'[u]) \subseteq Range(inbox[u]) \cup {op}
    <3>1. \A u \in Stations : inbox'[u] \in {inbox[u], Append(inbox[u], op)}
      BY <1>2 DEF Receive, TypeOK
    <3>2. \A u \in Stations : inbox[u] \in Seq(Ops)
      BY DEF TypeOK
    <3>3. \A u \in Stations : Range(Append(inbox[u], op)) = Range(inbox[u]) \cup {op}
      BY <2>2, <3>2, QueueGrows
    <3> QED BY <3>1, <3>3
  <2>5. \A u, v \in Stations : Range(link'[u][v]) \subseteq Range(link[u][v]) \cup {op}
    <3> PICK popped : popped = [link EXCEPT ![t][s] = Tail(@)]
      OBVIOUS
    <3>1. /\ popped \in [Stations -> [Stations -> Seq(Ops)]]
          /\ \A u, v \in Stations : popped[u][v] = IF u = t /\ v = s THEN Tail(q) ELSE link[u][v]
      BY <2>1, QueueShrinks DEF TypeOK
    <3>2. \A u, v \in Stations : Range(popped[u][v]) \subseteq Range(link[u][v])
      BY <2>2, <3>1
    <3> PICK T : T = Peers(s) \ {t, op.node}
      OBVIOUS
    <3>3. link' = popped \/ link' = [popped EXCEPT ![s] = FanOut(s, T, op)[s]]
      BY <1>2 DEF Receive
    <3>4. ASSUME NEW u \in Stations, NEW v \in Stations
          PROVE  link'[u][v] \in {popped[u][v], FanOut(s, T, op)[u][v]}
      <4> PICK out : out = FanOut(s, T, op)[s]
        OBVIOUS
      <4>1. link' = popped \/ link' = [popped EXCEPT ![s] = out]
        BY <3>3
      <4>2. DOMAIN popped = Stations
        BY <3>1
      <4>3. link'[u] = popped[u] \/ (u = s /\ link'[u] = out)
        BY ONLY <4>1, <4>2, u \in Stations
      <4> QED BY <4>3
    <3>5. ASSUME NEW u \in Stations, NEW v \in Stations
          PROVE  Range(FanOut(s, T, op)[u][v]) \subseteq Range(link[u][v]) \cup {op}
      <4>1. op \in Ops
        BY <2>2
      <4> QED BY ONLY TypeOK, s \in Stations, u \in Stations, v \in Stations, <4>1, FanOutOnTheWay
    <3>6. ASSUME NEW u \in Stations, NEW v \in Stations
          PROVE  Range(link'[u][v]) \subseteq Range(link[u][v]) \cup {op}
      <4>1. link'[u][v] = popped[u][v] \/ link'[u][v] = FanOut(s, T, op)[u][v]
        BY <3>4
      <4> QED BY <3>2, <3>5, <4>1
    <3> QED BY <3>6
  <2>6. \A u \in Stations : Range(inbox'[u]) \subseteq OnTheWay
    BY <2>3, <2>4, QueuesAreQueued DEF OnTheWay
  <2>7. \A u, v \in Stations : Range(link'[u][v]) \subseteq OnTheWay
    BY <2>3, <2>5, QueuesAreQueued DEF OnTheWay
  <2> QED BY <2>6, <2>7, QueuedWithin DEF OnTheWay
<1>3. ASSUME NEW s \in Stations, ApplyPeerOperation(s)
      PROVE  OnTheWay' \subseteq OnTheWay /\ Head(inbox[s]) \in OnTheWay
  <2> PICK q : q = inbox[s]
    OBVIOUS
  <2>1. q \in Seq(Ops) /\ q # <<>>
    BY <1>3 DEF ApplyPeerOperation, TypeOK
  <2>2. Range(q) = {Head(q)} \cup Range(Tail(q))
    BY <2>1, QueueShrinks
  <2>3. link' = link /\ inbox'[s] = Tail(q) /\ \A u \in Stations : u # s => inbox'[u] = inbox[u]
    BY <1>3 DEF ApplyPeerOperation, TypeOK
  <2>4. Range(q) \subseteq OnTheWay /\ \A u \in Stations : Range(inbox[u]) \subseteq OnTheWay
    BY QueuesAreQueued DEF OnTheWay
  <2>5. \A u \in Stations : Range(inbox'[u]) \subseteq OnTheWay
    BY <2>2, <2>3, <2>4
  <2>6. \A u, v \in Stations : Range(link'[u][v]) \subseteq OnTheWay
    BY <2>3, QueuesAreQueued DEF OnTheWay
  <2> QED BY <2>2, <2>4, <2>5, <2>6, QueuedWithin DEF OnTheWay
<1>4. \A s \in Stations, p \in Paths : Write(s, p) =>
        OnTheWay' \subseteq OnTheWay \cup
          {[clock |-> Increment(clock[s], s), node |-> s, path |-> p, value |-> issued + 1]}
  BY <1>1
<1> QED BY <1>2, <1>3, <1>4

-----------------------------------------------------------------------------
\* A station counts everything it was handed (the merge of apply_peer_operation),
\* and its next write comes after all of it.
LEMMA SeenStaysWithin ==
    ASSUME TypeOK, SeenWithinClock, [Next]_vars
    PROVE  SeenWithinClock'
<1>1. ASSUME NEW s \in Stations, NEW c \in Clock(Stations), NEW w \in Stamps,
             clock' = [clock EXCEPT ![s] = c], LeqClock(clock[s], c), LeqClock(w.clock, c),
             \/ seen' = seen
             \/ seen' = [seen EXCEPT ![s] = seen[s] \cup {w}]
      PROVE  SeenWithinClock'
  <2> SUFFICES ASSUME NEW u \in Stations, NEW x \in seen'[u]
               PROVE  LeqClock(x.clock, clock'[u])
    BY DEF SeenWithinClock
  <2>1. CASE u # s
    BY <1>1, <2>1 DEF SeenWithinClock, TypeOK
  <2>2. CASE u = s /\ x \in seen[s]
    <3>1. x.clock \in Clock(Stations) /\ clock[s] \in Clock(Stations)
      BY <2>2 DEF TypeOK, Stamps
    <3>2. LeqClock(x.clock, clock[s])
      BY <2>2 DEF SeenWithinClock
    <3>3. LeqClock(x.clock, c)
      BY <1>1, <3>1, <3>2, LeqTransitive
    <3> QED BY <1>1, <2>2, <3>3 DEF TypeOK
  <2>3. CASE u = s /\ x = w
    BY <1>1, <2>3 DEF TypeOK
  <2>4. u # s \/ (u = s /\ x \in seen[s]) \/ (u = s /\ x = w)
    BY <1>1 DEF TypeOK
  <2> QED BY <2>1, <2>2, <2>3, <2>4
<1>2. ASSUME NEW s \in Stations, NEW p \in Paths, Write(s, p)
      PROVE  SeenWithinClock'
  <2> PICK now : now = Increment(clock[s], s)
    OBVIOUS
  <2> PICK op : op = [clock |-> now, node |-> s, path |-> p, value |-> issued + 1]
    OBVIOUS
  <2>1. clock[s] \in Clock(Stations) /\ now \in Clock(Stations) /\ issued + 1 \in Nat
    BY IncrementType, MaxWritesAssumption DEF TypeOK
  <2>2. op \in Ops
    BY <2>1 DEF Ops
  <2>3. Stamp(op) \in Stamps /\ Stamp(op).clock = now
    BY <2>2, StampType
  <2>4. LeqClock(clock[s], now) /\ LeqClock(now, now)
    BY <2>1, IncrementAfter, LeqReflexive DEF HappensBefore
  <2>5. clock' = [clock EXCEPT ![s] = now]
    BY <1>2 DEF Write
  <2>6. seen' = seen \/ seen' = [seen EXCEPT ![s] = seen[s] \cup {Stamp(op)}]
    BY <1>2 DEF Write
  <2> QED BY <1>1, <2>1, <2>3, <2>4, <2>5, <2>6
<1>3. ASSUME NEW s \in Stations, ApplyPeerOperation(s)
      PROVE  SeenWithinClock'
  <2> PICK op : op = Head(inbox[s])
    OBVIOUS
  <2>1. op \in Ops
    <3>1. inbox[s] \in Seq(Ops) /\ inbox[s] # <<>>
      BY <1>3 DEF ApplyPeerOperation, TypeOK
    <3> QED BY <3>1, HeadTailProperties
  <2>2. Stamp(op) \in Stamps /\ Stamp(op).clock = op.clock
    BY <2>1, StampType
  <2> PICK merged : merged = Merge(clock[s], op.clock)
    OBVIOUS
  <2>3. clock[s] \in Clock(Stations) /\ op.clock \in Clock(Stations) /\ merged \in Clock(Stations)
    BY <2>1, MergeType DEF TypeOK, Ops
  <2>4. LeqClock(clock[s], merged) /\ LeqClock(op.clock, merged)
    BY <2>3, MergeIsLeastUpperBound
  <2>5. Increment(merged, s) \in Clock(Stations) /\ Increment(Increment(merged, s), s) \in Clock(Stations)
    BY <2>3, IncrementType
  <2>6. PICK c : /\ clock' = [clock EXCEPT ![s] = c]
                 /\ c \in {merged, Increment(merged, s), Increment(Increment(merged, s), s)}
    BY <1>3 DEF ApplyPeerOperation
  <2>7. c \in Clock(Stations) /\ LeqClock(clock[s], c) /\ LeqClock(op.clock, c)
    <3>1. \A d \in Clock(Stations) : LeqClock(d, merged) => /\ LeqClock(d, Increment(merged, s))
                                                            /\ LeqClock(d, Increment(Increment(merged, s), s))
      BY <2>3, <2>5, LeqIncrement
    <3> QED BY <2>3, <2>4, <2>5, <2>6, <3>1
  <2>8. seen' = [seen EXCEPT ![s] = seen[s] \cup {Stamp(op)}]
    BY <1>3 DEF ApplyPeerOperation
  <2> QED BY <1>1, <2>2, <2>6, <2>7, <2>8
<1>4. CASE UNCHANGED <<clock, seen>>
  BY <1>4 DEF SeenWithinClock
<1> QED BY <1>2, <1>3, <1>4 DEF Next, vars, Receive

\* What TwoToAField says of what is written, and of who wrote it.
LEMMA OnlyFields ==
    ASSUME TypeOK, TwoToAField, AuthorsAtWork, TwoInv, OnItsWayWasWritten
    PROVE  /\ Fields \subseteq ConflictPaths
           /\ \A s \in Stations : row[s] \in [Fields -> Nat] /\ row[s] # Gone
           /\ \A op \in OnTheWay : /\ op \in Ops /\ op.path \in Fields
                                   /\ ConflictPath(op.path) = op.path
                                   /\ Stamp(op) \in Written
<1>1. Fields \subseteq ConflictPaths
  BY DEF ConflictPaths
<1>2. ASSUME NEW s \in Stations PROVE row[s] \in [Fields -> Nat] /\ row[s] # Gone
  <2>1. PICK val \in [Stamps -> Nat] : Valued(val)
    BY DEF TwoInv
  <2>2. row[s] = [f \in Fields |-> IF known[s][f] = Unwritten THEN 0 ELSE val[Held(known[s][f], f)]]
    BY <2>1 DEF Valued
  <2>3. \A f \in Fields : Held(known[s][f], f) \in Stamps
    <3>1. \A f \in ConflictPaths : known[s][f] \in [clock : Clock(Stations), node : Stations]
      BY DEF TypeOK
    <3> QED BY <1>1, <3>1 DEF Held, Stamps
  <2>4. row[s] \in [Fields -> Nat]
    BY <2>2, <2>3
  <2>5. DOMAIN row[s] = Fields /\ DOMAIN Gone = {} /\ Fields # {}
    BY <2>4, PathsAssumption DEF Gone
  <2> QED BY <2>4, <2>5
<1>3. ASSUME NEW op \in OnTheWay
      PROVE  op \in Ops /\ op.path \in Fields /\ ConflictPath(op.path) = op.path /\ Stamp(op) \in Written
  <2>1. op \in Ops /\ Stamp(op) \in Written
    BY OnTheWayIsWritten
  <2>2. Stamp(op).path = ConflictPath(op.path)
    BY <2>1, StampType
  <2>3. ConflictPath(op.path) \in Fields
    BY <2>1, <2>2 DEF AuthorsAtWork
  <2>4. "row" \notin Fields
    BY PathsAssumption DEF Verbs
  <2> QED BY <2>1, <2>3, <2>4 DEF ConflictPath
<1> QED BY <1>1, <1>2, <1>3

\* A station's own write: it comes after all the station was handed.
LEMMA WriteKeepsTwo ==
    ASSUME CausalInv, OnItsWayWasWritten, TwoToAField, TwoInv,
           NEW s \in Stations, NEW p \in Paths, Write(s, p)
    PROVE  Lined' /\ AuthorsAtWork' /\ HoldsTheBest' /\ \E val \in [Stamps -> Nat] : Valued(val)'
<1> PICK now : now = Increment(clock[s], s)
  OBVIOUS
<1> PICK op : op = [clock |-> now, node |-> s, path |-> p, value |-> issued + 1]
  OBVIOUS
<1> PICK x : x = Stamp(op)
  OBVIOUS
<1>1. TypeOK /\ p \in Fields /\ <<s, p>> \in work
  BY DEF CausalInv, Write, TwoToAField
<1>2. /\ clock[s] \in Clock(Stations) /\ now \in Clock(Stations) /\ issued + 1 \in Nat
      /\ op \in Ops /\ now[s] = clock[s][s] + 1 /\ clock[s][s] \in Nat
  <2>1. clock[s] \in Clock(Stations) /\ issued + 1 \in Nat
    BY <1>1, MaxWritesAssumption DEF TypeOK
  <2>2. now \in Clock(Stations)
    BY <2>1, IncrementType
  <2>3. now[s] = clock[s][s] + 1 /\ clock[s][s] \in Nat
    BY <2>1 DEF Increment, Clock
  <2> QED BY <2>1, <2>2, <2>3 DEF Ops
<1>3. x \in Stamps /\ x.clock = now /\ x.node = s /\ x.path = p /\ x = Held([clock |-> now, node |-> s], p)
  <2>1. ConflictPath(p) = p
    BY <1>1, PathsAssumption DEF ConflictPath, Verbs
  <2> QED BY <1>2, <2>1, StampType DEF Stamp, Held
<1>4. row[s] # Gone /\ Fields \subseteq ConflictPaths
      /\ \A u \in Stations : row[u] \in [Fields -> Nat]
  BY <1>1, OnlyFields DEF TwoInv
<1>5. /\ row' = [row EXCEPT ![s] = [row[s] EXCEPT ![p] = issued + 1]]
      /\ known' = [known EXCEPT ![s][p] = [clock |-> now, node |-> s]]
      /\ seen' = [seen EXCEPT ![s] = seen[s] \cup {x}]
      /\ work' = work
  <2>1. p \notin Verbs
    BY <1>1, PathsAssumption
  <2>2. ConflictPath(p) = p
    BY <2>1 DEF ConflictPath, Verbs
  <2>3. Applied(row[s], op) = [row[s] EXCEPT ![p] = issued + 1]
    BY <1>1, <2>1 DEF Applied, Verbs, Commands
  <2>4. ~Refused(row[s], p)
    BY <1>4 DEF Refused
  <2>5. row' = [row EXCEPT ![s] = Applied(row[s], op)]
    BY <2>4 DEF Write
  <2>6. known' = [known EXCEPT ![s][ConflictPath(p)] = [clock |-> now, node |-> s]]
    BY <2>4 DEF Write
  <2>7. seen' = [seen EXCEPT ![s] = seen[s] \cup {x}] /\ work' = work
    BY <2>4 DEF Write
  <2> QED BY <2>2, <2>3, <2>5, <2>6, <2>7
<1>6. Written' = Written \cup {x}
  BY <1>1, <1>5, WriteExtendsWritten
<1>7. \A w \in seen[s] : HappensBefore(w.clock, now)
  <2> SUFFICES ASSUME NEW w \in seen[s] PROVE HappensBefore(w.clock, now)
    OBVIOUS
  <2>1. w.clock \in Clock(Stations)
    BY <1>1 DEF TypeOK, Stamps
  <2>2. LeqClock(w.clock, clock[s])
    BY DEF TwoInv, SeenWithinClock
  <2> QED BY <1>2, <2>1, <2>2, LeqThenIncrement
<1>8. \A w \in Written : w.node = s => HappensBefore(w.clock, now)
  BY <1>7, WrittenIsSeen
<1>9. x \notin Written
  <2> SUFFICES ASSUME x \in Written PROVE FALSE
    OBVIOUS
  <2>1. HappensBefore(now, now)
    BY <1>3, <1>8
  <2> QED BY <1>2, <2>1, HappensBeforeAsymmetric
<1>10. Lined'
  <2> SUFFICES ASSUME NEW v \in Written \cup {x}, NEW w \in Written \cup {x}, v.node = w.node
               PROVE  v.clock = w.clock \/ HappensBefore(v.clock, w.clock) \/ HappensBefore(w.clock, v.clock)
    BY <1>6 DEF Lined
  <2>1. CASE v \in Written /\ w \in Written
    BY <2>1 DEF TwoInv, Lined
  <2> QED BY <1>3, <1>8, <2>1
<1>11. AuthorsAtWork'
  <2> SUFFICES ASSUME NEW w \in Written \cup {x}
               PROVE  w.path \in Fields /\ <<w.node, w.path>> \in work /\ w.clock[w.node] >= 1
    BY <1>5, <1>6 DEF AuthorsAtWork
  <2>1. CASE w \in Written
    BY <2>1 DEF TwoInv, AuthorsAtWork
  <2> QED BY <1>1, <1>2, <1>3, <2>1
<1>12. [clock |-> now, node |-> s] # Unwritten
  <2>1. Unwritten.clock[s] = 0
    BY DEF Unwritten, ZeroClock
  <2> QED BY <1>2, <2>1
<1>13. \A u \in Stations, f \in Fields :
         known'[u][f] = IF u = s /\ f = p THEN [clock |-> now, node |-> s] ELSE known[u][f]
  BY <1>1, <1>4, <1>5 DEF TypeOK
<1>14. \A u \in Stations : seen'[u] = IF u = s THEN seen[u] \cup {x} ELSE seen[u]
  BY <1>1, <1>5 DEF TypeOK
<1>15. HoldsTheBest'
  <2> SUFFICES ASSUME NEW u \in Stations, NEW f \in Fields
               PROVE  IF known'[u][f] = Unwritten
                      THEN \A w \in seen'[u] : w.path # f
                      ELSE LET best == Held(known'[u][f], f)
                           IN  best \in seen'[u] /\ \A w \in seen'[u] : w.path = f => w = best \/ Beats(best, w)
    BY DEF HoldsTheBest, Unwritten
  <2>1. CASE u = s /\ f = p
    <3>1. known'[u][f] = [clock |-> now, node |-> s] /\ Held(known'[u][f], f) = x
      BY <1>3, <1>13, <2>1
    <3>2. \A w \in seen[s] : Beats(x, w)
      BY <1>3, <1>7 DEF Beats
    <3> QED BY <1>12, <1>14, <2>1, <3>1, <3>2
  <2>2. CASE ~(u = s /\ f = p)
    <3>1. known'[u][f] = known[u][f]
      BY <1>13, <2>2
    <3>2. \A w \in seen'[u] : w.path = f => w \in seen[u]
      BY <1>3, <1>14, <2>2
    <3>3. seen[u] \subseteq seen'[u]
      BY <1>14
    <3>4. IF known[u][f] = Unwritten
          THEN \A w \in seen[u] : w.path # f
          ELSE LET best == Held(known[u][f], f)
               IN  best \in seen[u] /\ \A w \in seen[u] : w.path = f => w = best \/ Beats(best, w)
      BY DEF TwoInv, HoldsTheBest
    <3> QED BY <3>1, <3>2, <3>3, <3>4
  <2> QED BY <2>1, <2>2
<1>16. \E val \in [Stamps -> Nat] : Valued(val)'
  <2>1. PICK old \in [Stamps -> Nat] : Valued(old)
    BY DEF TwoInv
  <2> PICK val : val = [old EXCEPT ![x] = issued + 1]
    OBVIOUS
  <2>2. val \in [Stamps -> Nat] /\ val[x] = issued + 1 /\ \A w \in Stamps : w # x => val[w] = old[w]
    BY <1>2, <1>3
  <2>3. \A w \in Written : w \in Stamps /\ val[w] = old[w]
    BY <1>9, <2>2, WrittenIsSeen
  <2>4. ASSUME NEW o \in OnTheWay' PROVE o.value = val[Stamp(o)]
    <3>1. o = op \/ o \in OnTheWay
      BY <1>1, WhatGetsOnTheWay
    <3>2. CASE o = op
      BY <2>2, <3>2
    <3>3. CASE o \in OnTheWay
      <4>1. Stamp(o) \in Written
        BY <1>1, <3>3, OnTheWayIsWritten
      <4> QED BY <2>1, <2>3, <3>3, <4>1 DEF Valued
    <3> QED BY <3>1, <3>2, <3>3
  <2>5. ASSUME NEW u \in Stations
        PROVE  row'[u] = [f \in Fields |->
                  IF known'[u][f] = Unwritten THEN 0 ELSE val[Held(known'[u][f], f)]]
    <3>1. row[u] = [f \in Fields |-> IF known[u][f] = Unwritten THEN 0 ELSE old[Held(known[u][f], f)]]
      BY <2>1 DEF Valued
    <3>2. \A f \in Fields : known[u][f] # Unwritten => Held(known[u][f], f) \in Written
      BY DEF TwoInv, HoldsTheBest, Written
    <3>3. row'[u] = IF u = s THEN [row[s] EXCEPT ![p] = issued + 1] ELSE row[u]
      BY <1>1, <1>5 DEF TypeOK
    <3>4. row'[u] = [f \in Fields |-> row'[u][f]]
      BY <1>2, <1>4, <3>3
    <3>5. ASSUME NEW f \in Fields
          PROVE  row'[u][f] = IF known'[u][f] = Unwritten THEN 0 ELSE val[Held(known'[u][f], f)]
      <4>1. CASE u = s /\ f = p
        <5>1. row'[u][f] = issued + 1
          BY <1>1, <1>4, <3>3, <4>1
        <5>2. known'[u][f] # Unwritten /\ Held(known'[u][f], f) = x
          BY <1>3, <1>12, <1>13, <4>1
        <5> QED BY <2>2, <5>1, <5>2
      <4>2. CASE ~(u = s /\ f = p)
        <5>1. row'[u][f] = row[u][f]
          BY <1>4, <3>3, <4>2
        <5>2. known'[u][f] = known[u][f]
          BY <1>13, <4>2
        <5>3. row[u][f] = IF known[u][f] = Unwritten THEN 0 ELSE old[Held(known[u][f], f)]
          BY <3>1
        <5> QED BY <2>3, <3>2, <5>1, <5>2, <5>3
      <4> QED BY <4>1, <4>2
    <3> QED BY <3>4, <3>5
  <2>6. Valued(val)'
    BY <2>4, <2>5 DEF Valued, Unwritten
  <2> QED BY <2>2, <2>6
<1> QED BY <1>10, <1>11, <1>15, <1>16

\* What is written to one field is ordered by what beats what.
LEMMA WritesAreOrdered ==
    ASSUME CausalInv, TwoToAField, Lined, AuthorsAtWork,
           NEW x \in Written, NEW y \in Written, NEW z \in Written,
           x.path = y.path, y.path = z.path
    PROVE  /\ Beats(x, y) => ~Beats(y, x)
           /\ x = y \/ Beats(x, y) \/ Beats(y, x)
           /\ Beats(x, y) /\ Beats(y, z) => Beats(x, z)
<1>1. x \in Stamps /\ y \in Stamps /\ z \in Stamps
      /\ x.node \in Stations /\ y.node \in Stations /\ z.node \in Stations
  BY WrittenIsSeen
<1>2. x.path \in Fields /\ <<x.node, x.path>> \in work
      /\ <<y.node, x.path>> \in work /\ <<z.node, x.path>> \in work
  BY DEF AuthorsAtWork
<1>3. PICK a \in Stations, b \in Stations :
        \A s \in Stations : <<s, x.path>> \in work => s \in {a, b}
  BY <1>2 DEF TwoToAField
<1>4. {x.node, y.node, z.node} \subseteq {a, b}
  BY <1>1, <1>2, <1>3
<1>5. \A v, w \in {x, y, z} : v.node = w.node => \/ v.clock = w.clock
                           \/ HappensBefore(v.clock, w.clock)
                           \/ HappensBefore(w.clock, v.clock)
  BY DEF Lined
<1> QED BY <1>1, <1>4, <1>5, StationsAssumption, BeatsOrders

\* A peer's write: taken when it beats what is held, and what is held beats
\* the rest.
LEMMA ApplyKeepsTwo ==
    ASSUME CausalInv, OnItsWayWasWritten, TwoToAField, TwoInv,
           NEW s \in Stations, ApplyPeerOperation(s)
    PROVE  Lined' /\ AuthorsAtWork' /\ HoldsTheBest' /\ \E val \in [Stamps -> Nat] : Valued(val)'
<1> PICK op : op = Head(inbox[s])
  OBVIOUS
<1> PICK x : x = Stamp(op)
  OBVIOUS
<1> PICK p : p = op.path
  OBVIOUS
<1>1. TypeOK
  BY DEF CausalInv
<1>2. op \in OnTheWay /\ OnTheWay' \subseteq OnTheWay
  BY <1>1, WhatGetsOnTheWay
<1>3. /\ Fields \subseteq ConflictPaths
      /\ \A u \in Stations : row[u] \in [Fields -> Nat] /\ row[u] # Gone
      /\ op \in Ops /\ p \in Fields /\ ConflictPath(p) = p /\ x \in Written
  BY <1>1, <1>2, OnlyFields DEF TwoInv
<1>4. x \in Stamps /\ x.clock = op.clock /\ x.node = op.node /\ x.path = p
      /\ x = Held([clock |-> op.clock, node |-> op.node], p)
  BY <1>3, StampType DEF Stamp, Held
<1>5. work' = work /\ seen' = [seen EXCEPT ![s] = seen[s] \cup {x}]
  BY DEF ApplyPeerOperation
<1>6. Written' = Written
  <2>1. Written' = Written \cup {x}
    BY <1>1, <1>5, WriteExtendsWritten
  <2> QED BY <1>3, <2>1
<1>7. Lined' /\ AuthorsAtWork'
  BY <1>5, <1>6 DEF TwoInv, Lined, AuthorsAtWork
<1>8. \A u \in Stations : seen'[u] = IF u = s THEN seen[u] \cup {x} ELSE seen[u]
  BY <1>1, <1>5 DEF TypeOK
<1>9. p \notin Verbs /\ p # "row" /\ p # "create" /\ p # "delete"
  BY <1>3, PathsAssumption DEF Verbs
<1>10. known[s][p] # Unwritten =>
         /\ Held(known[s][p], p) \in seen[s] /\ Held(known[s][p], p) \in Written
         /\ \A w \in seen[s] : w.path = p =>
               w = Held(known[s][p], p) \/ Beats(Held(known[s][p], p), w)
  BY <1>3 DEF TwoInv, HoldsTheBest, Written
<1>11. /\ Held(known[s][p], p).clock = known[s][p].clock
       /\ Held(known[s][p], p).node = known[s][p].node
       /\ Held(known[s][p], p).path = p
  BY DEF Held
<1>12. Accepts(s, op) <=> known[s][p] = Unwritten \/ Beats(x, Held(known[s][p], p))
  BY <1>3, <1>4, <1>11 DEF Accepts, Beats
<1>13. PICK old \in [Stamps -> Nat] : Valued(old)
  BY DEF TwoInv
<1>14. \A o \in OnTheWay : o.value = old[Stamp(o)]
  BY <1>13 DEF Valued
<1>15. CASE ~Accepts(s, op)
  <2>1. known' = known /\ row' = row
    BY <1>15 DEF ApplyPeerOperation
  <2>2. x = Held(known[s][p], p) \/ Beats(Held(known[s][p], p), x)
    BY <1>3, <1>4, <1>10, <1>11, <1>12, <1>15, WritesAreOrdered DEF TwoInv
  <2>3. HoldsTheBest'
    <3> SUFFICES ASSUME NEW u \in Stations, NEW f \in Fields
                 PROVE  IF known[u][f] = Unwritten
                        THEN \A w \in seen'[u] : w.path # f
                        ELSE LET best == Held(known[u][f], f)
                             IN  best \in seen'[u] /\ \A w \in seen'[u] : w.path = f => w = best \/ Beats(best, w)
      BY <2>1 DEF HoldsTheBest, Unwritten
    <3>1. IF known[u][f] = Unwritten
          THEN \A w \in seen[u] : w.path # f
          ELSE LET best == Held(known[u][f], f)
               IN  best \in seen[u] /\ \A w \in seen[u] : w.path = f => w = best \/ Beats(best, w)
      BY DEF TwoInv, HoldsTheBest
    <3>2. CASE u = s /\ f = p
      BY <1>8, <1>12, <1>15, <2>2, <3>1, <3>2
    <3>3. CASE ~(u = s /\ f = p)
      BY <1>4, <1>8, <3>1, <3>3
    <3> QED BY <3>2, <3>3
  <2>4. Valued(old)'
    BY <1>2, <1>13, <2>1 DEF Valued, Unwritten
  <2> QED BY <1>7, <2>3, <2>4
<1>16. CASE Accepts(s, op)
  <2> PICK k : k = [clock |-> op.clock, node |-> op.node]
    OBVIOUS
  <2>1. Applied(row[s], op) = [row[s] EXCEPT ![p] = op.value]
    <3>1. op.path \in Fields /\ op.path \notin Verbs /\ op.path = p
      BY <1>3, <1>9
    <3> QED BY <3>1 DEF Applied, Verbs, Commands
  <2>2. row' = [row EXCEPT ![s] = [row[s] EXCEPT ![p] = op.value]]
        /\ known' = [known EXCEPT ![s][p] = k]
    <3>1. ~Refused(row[s], op.path) /\ op.path = p /\ ConflictPath(op.path) = p
      BY <1>3 DEF Refused
    <3>2. row' = [row EXCEPT ![s] = Applied(row[s], op)]
          /\ known' = [known EXCEPT ![s][ConflictPath(op.path)] = k]
      BY <1>16, <3>1 DEF ApplyPeerOperation
    <3> QED BY <2>1, <3>1, <3>2
  <2>3. \A u \in Stations, f \in Fields :
          known'[u][f] = IF u = s /\ f = p THEN k ELSE known[u][f]
    BY <1>1, <1>3, <2>2 DEF TypeOK
  <2>4. k # Unwritten /\ Held(k, p) = x
    <3>1. x.clock[x.node] >= 1 /\ x.node \in Stations
      BY <1>3, WrittenIsSeen DEF TwoInv, AuthorsAtWork
    <3>2. Unwritten.clock[x.node] = 0
      BY <3>1 DEF Unwritten, ZeroClock
    <3>3. k.clock = x.clock
      BY <1>4
    <3>4. k # Unwritten
      BY <3>1, <3>2, <3>3
    <3> QED BY <1>4, <3>4
  <2>5. \A w \in seen[s] : w.path = p => w = x \/ Beats(x, w)
    <3> SUFFICES ASSUME NEW w \in seen[s], w.path = p, w # x
                 PROVE  Beats(x, w)
      OBVIOUS
    <3>1. known[s][p] # Unwritten
      BY <1>3 DEF TwoInv, HoldsTheBest
    <3> PICK best : best = Held(known[s][p], p)
      OBVIOUS
    <3>2. best \in Written /\ best.path = p /\ Beats(x, best) /\ (w = best \/ Beats(best, w))
      BY <1>10, <1>11, <1>12, <1>16, <3>1
    <3>3. w \in Written
      BY DEF Written
    <3>4. Beats(best, w) => Beats(x, w)
      BY <1>3, <1>4, <3>2, <3>3, WritesAreOrdered DEF TwoInv
    <3> QED BY <3>2, <3>4
  <2>6. HoldsTheBest'
    <3> SUFFICES ASSUME NEW u \in Stations, NEW f \in Fields
                 PROVE  IF known'[u][f] = Unwritten
                        THEN \A w \in seen'[u] : w.path # f
                        ELSE LET best == Held(known'[u][f], f)
                             IN  best \in seen'[u] /\ \A w \in seen'[u] : w.path = f => w = best \/ Beats(best, w)
      BY DEF HoldsTheBest, Unwritten
    <3>1. CASE u = s /\ f = p
      <4>1. known'[u][f] = k /\ k # Unwritten /\ Held(k, f) = x /\ seen'[u] = seen[s] \cup {x}
        BY <1>8, <2>3, <2>4, <3>1
      <4>2. \A w \in seen[s] : w.path = f => w = x \/ Beats(x, w)
        BY <2>5, <3>1
      <4> QED BY <4>1, <4>2
    <3>2. CASE ~(u = s /\ f = p)
      <4>1. IF known[u][f] = Unwritten
            THEN \A w \in seen[u] : w.path # f
            ELSE LET best == Held(known[u][f], f)
                 IN  best \in seen[u] /\ \A w \in seen[u] : w.path = f => w = best \/ Beats(best, w)
        BY DEF TwoInv, HoldsTheBest
      <4>2. known'[u][f] = known[u][f]
        BY <2>3, <3>2
      <4> QED BY <1>4, <1>8, <3>2, <4>1, <4>2
    <3> QED BY <3>1, <3>2
  <2>7. ASSUME NEW u \in Stations
        PROVE  row'[u] = [f \in Fields |->
                  IF known'[u][f] = Unwritten THEN 0 ELSE old[Held(known'[u][f], f)]]
    <3>1. row[u] = [f \in Fields |-> IF known[u][f] = Unwritten THEN 0 ELSE old[Held(known[u][f], f)]]
      BY <1>13 DEF Valued
    <3>2. row'[u] = IF u = s THEN [row[s] EXCEPT ![p] = op.value] ELSE row[u]
      BY <1>1, <2>2 DEF TypeOK
    <3>3. row'[u] = [f \in Fields |-> row'[u][f]]
      BY <1>3, <3>2
    <3>4. op.value = old[x]
      BY <1>2, <1>14
    <3>5. ASSUME NEW f \in Fields
          PROVE  row'[u][f] = IF known'[u][f] = Unwritten THEN 0 ELSE old[Held(known'[u][f], f)]
      <4>1. CASE u = s /\ f = p
        <5>1. row'[u][f] = op.value
          BY <1>3, <3>2, <4>1
        <5> QED BY <2>3, <2>4, <3>4, <4>1, <5>1
      <4>2. CASE ~(u = s /\ f = p)
        <5>1. row'[u][f] = row[u][f]
          BY <1>3, <3>2, <4>2
        <5> QED BY <2>3, <3>1, <4>2, <5>1
      <4> QED BY <4>1, <4>2
    <3> QED BY <3>3, <3>5
  <2>8. Valued(old)'
    BY <1>2, <1>14, <2>7 DEF Valued, Unwritten
  <2> QED BY <1>7, <2>6, <2>8
<1> QED BY <1>15, <1>16

\* Nothing written: everybody holds nothing and shows the same row.
LEMMA TwoInit ==
    ASSUME Init
    PROVE  TwoInv
<1>1. /\ \A s \in Stations : inbox[s] = <<>> /\ seen[s] = {}
      /\ \A s, t \in Stations : link[s][t] = <<>>
      /\ \A s \in Stations, f \in Fields : known[s][f] = Unwritten
      /\ \A s \in Stations : row[s] = [f \in Fields |-> 0]
  BY DEF Init, ConflictPaths
<1>2. Written = {}
  BY <1>1 DEF Written
<1>3. OnTheWay = {}
  <2>1. Range(<<>>) = {}
    BY DEF Range
  <2> QED BY <1>1, <2>1, QueuedWithin DEF OnTheWay
<1>4. SeenWithinClock /\ Lined /\ AuthorsAtWork /\ HoldsTheBest
  BY <1>1, <1>2 DEF SeenWithinClock, Lined, AuthorsAtWork, HoldsTheBest
<1>5. \E val \in [Stamps -> Nat] : Valued(val)
  <2> PICK val : val = [w \in Stamps |-> 0]
    OBVIOUS
  <2>1. val \in [Stamps -> Nat]
    OBVIOUS
  <2>2. Valued(val)
    BY <1>1, <1>3 DEF Valued
  <2> QED BY <2>1, <2>2
<1> QED BY <1>4, <1>5 DEF TwoInv

\* Every step keeps it, as long as the operators stay two to a field.
LEMMA TwoStep ==
    ASSUME CausalInv, OnItsWayWasWritten, TwoToAField, TwoInv, [Next]_vars
    PROVE  TwoInv'
<1>1. SeenWithinClock' /\ TypeOK
  BY SeenStaysWithin DEF TwoInv, CausalInv
<1>2. ASSUME NEW s \in Stations, NEW p \in Paths, Write(s, p) PROVE TwoInv'
  BY <1>1, <1>2, WriteKeepsTwo DEF TwoInv
<1>3. ASSUME NEW s \in Stations, ApplyPeerOperation(s) PROVE TwoInv'
  BY <1>1, <1>3, ApplyKeepsTwo DEF TwoInv
<1>4. ASSUME known' = known, row' = row, seen' = seen, work' = work, OnTheWay' \subseteq OnTheWay
      PROVE  TwoInv'
  <2>1. Written' = Written
    BY <1>4 DEF Written
  <2>2. Lined' /\ AuthorsAtWork' /\ HoldsTheBest'
    BY <1>4, <2>1 DEF TwoInv, Lined, AuthorsAtWork, HoldsTheBest, Unwritten
  <2>3. \E val \in [Stamps -> Nat] : Valued(val)'
    <3>1. PICK val \in [Stamps -> Nat] : Valued(val)
      BY DEF TwoInv
    <3>2. Valued(val)'
      BY <1>4, <3>1 DEF Valued, Unwritten
    <3> QED BY <3>2
  <2> QED BY <1>1, <2>2, <2>3 DEF TwoInv
<1>5. ASSUME NEW s \in Stations, NEW t \in Stations, Receive(s, t) PROVE TwoInv'
  <2>1. OnTheWay' \subseteq OnTheWay
    BY <1>1, <1>5, WhatGetsOnTheWay
  <2> QED BY <1>4, <1>5, <2>1 DEF Receive
<1>6. CASE UNCHANGED vars
  BY <1>4, <1>6 DEF vars, OnTheWay
<1> QED BY <1>2, <1>3, <1>5, <1>6 DEF Next

\* With nothing on its way every station was handed the same.
LEMMA QuietIsComplete ==
    ASSUME CausalInv, Quiet, NEW s \in Stations, NEW t \in Stations
    PROVE  seen[s] = seen[t]
<1>1. Stamped(<<>>) = {}
  BY DEF Stamped
<1>2. \A u \in Stations : Received(u) = seen[u]
  BY <1>1 DEF Received, Quiet
<1>3. Leader \in Stations
  BY StationsAssumption
<1>4. ASSUME NEW u \in Stations PROVE seen[u] = seen[Leader]
  <2>1. CASE u = Leader
    BY <2>1
  <2>2. CASE u # Leader
    <3>1. Leader \in Peers(u) /\ u \in Peers(Leader)
      BY <2>2 DEF Peers
    <3>2. Received(u) \subseteq Received(Leader) \cup Stamped(link[u][Leader])
      BY <3>1 DEF CausalInv, Passed
    <3>3. Received(Leader) \subseteq Received(u) \cup Stamped(link[Leader][u])
      BY <1>3, <3>1 DEF CausalInv, Passed
    <3>4. Stamped(link[u][Leader]) = {} /\ Stamped(link[Leader][u]) = {}
      BY <1>1, <1>3 DEF Quiet
    <3>5. Received(u) = seen[u] /\ Received(Leader) = seen[Leader]
      BY <1>2, <1>3
    <3>6. seen[u] \subseteq seen[Leader]
      BY <3>2, <3>4, <3>5
    <3>7. seen[Leader] \subseteq seen[u]
      BY <3>3, <3>4, <3>5
    <3> QED BY <3>6, <3>7
  <2> QED BY <2>1, <2>2
<1> QED BY <1>4

\* Whoever was handed the same holds the same.
LEMMA SameHandedSameShow ==
    ASSUME CausalInv, TwoToAField, TwoInv, NEW s \in Stations, NEW t \in Stations, seen[s] = seen[t]
    PROVE  row[s] = row[t]
<1>1. \A u \in Stations, f \in Fields :
        IF known[u][f] = Unwritten
        THEN \A w \in seen[u] : w.path # f
        ELSE /\ Held(known[u][f], f) \in seen[u] /\ Held(known[u][f], f) \in Written
             /\ \A w \in seen[u] : w.path = f =>
                   w = Held(known[u][f], f) \/ Beats(Held(known[u][f], f), w)
  BY DEF TwoInv, HoldsTheBest, Written
<1>2. \A u \in Stations, f \in Fields : Held(known[u][f], f).path = f
  BY DEF Held
<1>3. ASSUME NEW f \in Fields
      PROVE  \/ known[s][f] = Unwritten /\ known[t][f] = Unwritten
             \/ /\ known[s][f] # Unwritten /\ known[t][f] # Unwritten
                /\ Held(known[s][f], f) = Held(known[t][f], f)
  <2> PICK hs, ht : hs = Held(known[s][f], f) /\ ht = Held(known[t][f], f)
    OBVIOUS
  <2>1. hs.path = f /\ ht.path = f
    BY <1>2
  <2>2. known[s][f] = Unwritten <=> known[t][f] = Unwritten
    BY <1>1, <2>1
  <2>3. CASE known[s][f] # Unwritten /\ known[t][f] # Unwritten
    <3>1. hs \in Written /\ ht \in Written
          /\ (ht = hs \/ Beats(hs, ht)) /\ (hs = ht \/ Beats(ht, hs))
      BY <1>1, <2>1, <2>3
    <3>2. Beats(hs, ht) => ~Beats(ht, hs)
      BY <2>1, <3>1, WritesAreOrdered DEF TwoInv
    <3> QED BY <2>3, <3>1, <3>2
  <2> QED BY <2>2, <2>3
<1>4. PICK val \in [Stamps -> Nat] : Valued(val)
  BY DEF TwoInv
<1>5. \A u \in Stations : row[u] = [f \in Fields |->
         IF known[u][f] = Unwritten THEN 0 ELSE val[Held(known[u][f], f)]]
  BY <1>4 DEF Valued
<1>6. /\ row[s] = [f \in Fields |-> IF known[s][f] = Unwritten THEN 0 ELSE val[Held(known[s][f], f)]]
      /\ row[t] = [f \in Fields |-> IF known[t][f] = Unwritten THEN 0 ELSE val[Held(known[t][f], f)]]
  BY <1>5
<1> QED BY <1>3, <1>6

(***************************************************************************)
(* Two operators at a field, any number of fields and of stations between  *)
(* them: once everything is delivered, every station shows the same row.   *)
(* Who is at what does not change in a behaviour.                          *)
(***************************************************************************)
THEOREM TwoWritersConverge == Spec => [](TwoToAField => Converged)
<1> DEFINE I == TwoToAField => TwoInv
<1>1. Init => I
  BY TwoInit
<1>2. CausalInv /\ OnItsWayWasWritten /\ I /\ [Next]_vars => I'
  <2> SUFFICES ASSUME CausalInv, OnItsWayWasWritten, I, [Next]_vars, TwoToAField'
               PROVE  TwoInv'
    OBVIOUS
  <2>1. work' = work
    BY DEF Next, vars, Write, Receive, ApplyPeerOperation
  <2>2. TwoToAField
    BY <2>1 DEF TwoToAField
  <2> QED BY <2>2, TwoStep
<1>3. CausalInv /\ I => (TwoToAField => Converged)
  BY QuietIsComplete, SameHandedSameShow DEF Converged, OneShow
<1>4. Spec => []CausalInv
  BY CausallyDelivered
<1>5. Spec => []OnItsWayWasWritten
  BY OnlyWhatWasWritten
<1> HIDE DEF I
<1> QED BY <1>1, <1>2, <1>3, <1>4, <1>5, PTL DEF Spec

-----------------------------------------------------------------------------
(***************************************************************************)
(* One writer of anything: fields, whole rows, creations, deletions and    *)
(* commands.  Every station replays one history, each as far as it has     *)
(* been handed it.  h is the history, r[i] the row after i of its writes,  *)
(* n[s] how many station s applied and m[s] how many it was handed.        *)
(***************************************************************************)
OneWriter == \E a \in Stations : work \subseteq {a} \X Paths

\* q holds what h has after its i-th write and up to its j-th.
Slice(q, h, i, j) ==
    /\ q \in Seq(Ops) /\ i \in 0..j /\ j \in 0..Len(h) /\ Len(q) = j - i
    /\ \A k \in 1..(j - i) : q[k] = h[i + k]

\* Where a station is handed what a writes.
Upstream(a, t) == IF t = Leader THEN a ELSE Leader

\* The writes that were made and the rows they made, one after the other, none
\* of them past c.
History(a, h, r, c) ==
    /\ h \in Seq(Ops) /\ r \in [0..Len(h) -> Rows] /\ r[0] = [f \in Fields |-> 0]
    /\ \A i \in 1..Len(h) :
          /\ h[i].node = a /\ h[i].clock[a] >= 1 /\ LeqClock(h[i].clock, c)
          /\ ~Refused(r[i - 1], h[i].path) /\ r[i] = Applied(r[i - 1], h[i])
    /\ \A i, j \in 1..Len(h) : i < j => HappensBefore(h[i].clock, h[j].clock)

\* A station shows the row of the writes it applied, and holds no other.
Replayed(h, r, n) ==
    \A s \in Stations :
        /\ row[s] = r[n[s]]
        /\ \A q \in ConflictPaths :
              known[s][q] = Unwritten \/ \E i \in 1..n[s] : known[s][q].clock = h[i].clock

\* What it has still to apply waits in its inbox and on the links to it.
HandedDown(a, h, n, m) ==
    /\ \A s \in Stations : Slice(inbox[s], h, n[s], m[s])
    /\ \A s, t \in Stations :
          IF t # a /\ s = Upstream(a, t)
          THEN Slice(link[s][t], h, m[t], m[s])
          ELSE link[s][t] = <<>>

OneReplay(a, h, r, n, m) ==
    /\ work \subseteq {a} \X Paths /\ n[a] = Len(h) /\ m[a] = Len(h)
    /\ History(a, h, r, clock[a]) /\ Replayed(h, r, n) /\ HandedDown(a, h, n, m)

OneInv ==
    \E a \in Stations, h \in Seq(Ops), n, m \in [Stations -> Nat] :
        \E r \in [0..Len(h) -> Rows] : OneReplay(a, h, r, n, m)

-----------------------------------------------------------------------------
\* Slices of the history.
LEMMA SliceOfLonger ==
    ASSUME NEW h \in Seq(Ops), NEW op \in Ops, NEW q, NEW i, NEW j, Slice(q, h, i, j)
    PROVE  Slice(q, Append(h, op), i, j)
<1>1. /\ Len(Append(h, op)) = Len(h) + 1 /\ Len(h) \in Nat
      /\ \A k \in 1..Len(h) : Append(h, op)[k] = h[k]
  BY LenProperties, AppendProperties
<1>2. i \in Nat /\ j \in Nat /\ i <= j /\ j <= Len(h)
  BY <1>1 DEF Slice
<1>3. \A k \in 1..(j - i) : i + k \in 1..Len(h)
  BY <1>1, <1>2
<1> QED BY <1>1, <1>2, <1>3 DEF Slice

\* The write after a slice makes it longer by one.
LEMMA SliceAppend ==
    ASSUME NEW h \in Seq(Ops), NEW q, NEW i, NEW j, Slice(q, h, i, j), j < Len(h),
           NEW op \in Ops, op = h[j + 1]
    PROVE  Slice(Append(q, op), h, i, j + 1)
<1>1. /\ q \in Seq(Ops) /\ i \in Nat /\ j \in Nat /\ i <= j /\ Len(h) \in Nat /\ Len(q) = j - i
      /\ \A k \in 1..(j - i) : q[k] = h[i + k]
  BY LenProperties DEF Slice
<1>2. /\ Append(q, op) \in Seq(Ops) /\ Len(Append(q, op)) = Len(q) + 1
      /\ \A k \in 1..Len(q) : Append(q, op)[k] = q[k]
      /\ Append(q, op)[Len(q) + 1] = op
  <2>1. q \in Seq(Ops)
    BY <1>1
  <2> QED BY ONLY <2>1, op \in Ops, LenProperties, AppendProperties
<1>3. ASSUME NEW k \in 1..(j + 1 - i) PROVE Append(q, op)[k] = h[i + k]
  <2>1. CASE k = j + 1 - i
    BY <1>1, <1>2, <2>1
  <2>2. CASE k # j + 1 - i
    <3>1. k \in 1..(j - i)
      BY <1>1, <2>2
    <3> QED BY <1>1, <1>2, <3>1
  <2> QED BY <2>1, <2>2
<1> QED BY <1>1, <1>2, <1>3 DEF Slice

\* Taking a slice's first write leaves the rest of it.
LEMMA SliceTail ==
    ASSUME NEW h \in Seq(Ops), NEW q, NEW i, NEW j, Slice(q, h, i, j), q # <<>>
    PROVE  /\ i + 1 \in 1..Len(h) /\ i < j /\ j <= Len(h) /\ Head(q) = h[i + 1] /\ Head(q) \in Ops
           /\ Slice(Tail(q), h, i + 1, j)
<1>1. /\ q \in Seq(Ops) /\ i \in Nat /\ j \in Nat /\ i <= j /\ Len(h) \in Nat
      /\ j <= Len(h) /\ Len(q) = j - i
      /\ \A k \in 1..(j - i) : q[k] = h[i + k]
  BY LenProperties DEF Slice
<1>2. /\ Len(q) # 0 /\ Tail(q) \in Seq(Ops) /\ Len(Tail(q)) = Len(q) - 1 /\ Head(q) = q[1]
      /\ Head(q) \in Ops
      /\ \A k \in 1..Len(Tail(q)) : Tail(q)[k] = q[k + 1]
  BY <1>1, HeadTailProperties, EmptySeq
<1>3. i < j /\ 1 \in 1..(j - i)
  BY <1>1, <1>2
<1>4. Head(q) = h[i + 1]
  BY <1>1, <1>2, <1>3
<1>5. ASSUME NEW k \in 1..(j - (i + 1)) PROVE Tail(q)[k] = h[(i + 1) + k]
  <2>1. k + 1 \in 1..(j - i) /\ k \in 1..Len(Tail(q)) /\ i + (k + 1) = (i + 1) + k
    BY <1>1, <1>2
  <2> QED BY <1>1, <1>2, <2>1
<1>6. i + 1 \in 0..j /\ j \in 0..Len(h) /\ Len(Tail(q)) = j - (i + 1)
  BY <1>1, <1>2, <1>3
<1>7. Slice(Tail(q), h, i + 1, j)
  BY <1>2, <1>5, <1>6 DEF Slice
<1> QED BY <1>1, <1>2, <1>3, <1>4, <1>7

\* A slice of nothing starts where it ends.
LEMMA EmptySlice ==
    ASSUME NEW h, NEW i, NEW j, Slice(<<>>, h, i, j)
    PROVE  i = j
<1>1. i \in Int /\ j \in Int /\ 0 = j - i
  BY EmptySeq DEF Slice
<1> QED BY <1>1

\* And from anywhere to there is nothing.
LEMMA NoSlice ==
    ASSUME NEW h \in Seq(Ops), NEW i \in 0..Len(h)
    PROVE  Slice(<<>>, h, i, i)
<1>1. Len(h) \in Nat /\ <<>> \in Seq(Ops) /\ Len(<<>>) = 0
  BY LenProperties, EmptySeq
<1> QED BY <1>1 DEF Slice

\* op is what the writer of a history, now at clock c, may add to it.
Adds(a, h, r, c, op) ==
    /\ a \in Stations /\ h \in Seq(Ops) /\ r \in [0..Len(h) -> Rows]
    /\ c \in Clock(Stations) /\ History(a, h, r, c)
    /\ op \in Ops /\ op.node = a /\ op.clock = Increment(c, a)
    /\ ~Refused(r[Len(h)], op.path)

\* The rows of a history to which op is added.
Grown(e, a, h, r, op) ==
    LET g == Append(h, op)
    IN  /\ e \in [0..Len(g) -> Rows] /\ e[Len(g)] = Applied(r[Len(h)], op)
        /\ \A i \in 0..Len(h) : e[i] = r[i]
        /\ History(a, g, e, op.clock)

\* A history with one more write and the row it made.
LEMMA HistoryGrows ==
    ASSUME NEW a, NEW h, NEW r, NEW c, NEW op, Adds(a, h, r, c, op)
    PROVE  \E e : Grown(e, a, h, r, op)
<1> USE DEF Adds
<1> PICK g : g = Append(h, op)
  OBVIOUS
<1> PICK e : e = [i \in 0..Len(g) |-> IF i = Len(g) THEN Applied(r[Len(h)], op) ELSE r[i]]
  OBVIOUS
<1> PICK len : len = Len(h)
  OBVIOUS
<1>1. /\ len \in Nat /\ g \in Seq(Ops) /\ Len(g) = len + 1 /\ g[len + 1] = op
      /\ \A i \in 1..len : g[i] = h[i]
  BY LenProperties, AppendProperties
<1>2. Applied(r[len], op) \in Rows
  <2>1. r[len] \in Rows
    BY <1>1
  <2> QED BY <2>1, AppliedType
<1>3. /\ e \in [0..Len(g) -> Rows] /\ e[len + 1] = Applied(r[len], op)
      /\ \A i \in 0..len : e[i] = r[i]
  BY <1>1, <1>2
<1>4. c \in Clock(Stations) /\ op.clock \in Clock(Stations)
      /\ c[a] \in Nat /\ op.clock[a] = c[a] + 1
  BY DEF Ops, Increment, Clock
<1>5. \A i \in 1..len : h[i].clock \in Clock(Stations) /\ LeqClock(h[i].clock, c)
  <2>1. \A i \in 1..len : h[i] \in Ops
    BY ElementOfSeq
  <2> QED BY <2>1 DEF History, Ops
<1>6. \A i \in 1..len : HappensBefore(h[i].clock, op.clock)
  BY <1>4, <1>5, LeqThenIncrement
<1>7. ASSUME NEW i \in 1..(len + 1)
      PROVE  /\ g[i].node = a /\ g[i].clock[a] >= 1 /\ LeqClock(g[i].clock, op.clock)
             /\ ~Refused(e[i - 1], g[i].path) /\ e[i] = Applied(e[i - 1], g[i])
  <2>1. CASE i = len + 1
    <3>1. g[i] = op /\ e[i - 1] = r[len] /\ e[i] = Applied(r[len], op)
      BY <1>1, <1>3, <2>1
    <3>2. op.clock[a] >= 1 /\ LeqClock(op.clock, op.clock)
      BY <1>4, LeqReflexive
    <3> QED BY <3>1, <3>2
  <2>2. CASE i # len + 1
    <3>1. i \in 1..len /\ i \in 0..len /\ i - 1 \in 0..len
      BY <1>1, <2>2
    <3>2. g[i] = h[i] /\ e[i - 1] = r[i - 1] /\ e[i] = r[i]
      BY <1>1, <1>3, <3>1
    <3>3. /\ h[i].node = a /\ h[i].clock[a] >= 1
          /\ ~Refused(r[i - 1], h[i].path) /\ r[i] = Applied(r[i - 1], h[i])
      BY <3>1 DEF History
    <3>4. LeqClock(h[i].clock, op.clock)
      BY <1>6, <3>1 DEF HappensBefore
    <3> QED BY <3>2, <3>3, <3>4
  <2> QED BY <2>1, <2>2
<1>8. ASSUME NEW i \in 1..(len + 1), NEW j \in 1..(len + 1), i < j
      PROVE  HappensBefore(g[i].clock, g[j].clock)
  <2>1. i \in 1..len /\ g[i] = h[i]
    BY <1>1, <1>8
  <2>2. CASE j = len + 1
    BY <1>1, <1>6, <2>1, <2>2
  <2>3. CASE j # len + 1
    <3>1. j \in 1..len /\ g[j] = h[j]
      BY <1>1, <2>3
    <3> QED BY <1>8, <2>1, <3>1 DEF History
  <2> QED BY <2>2, <2>3
<1>9. e[0] = [f \in Fields |-> 0]
  BY <1>1, <1>3 DEF History
<1>10. History(a, g, e, op.clock)
  BY <1>1, <1>3, <1>7, <1>8, <1>9 DEF History
<1>11. Grown(e, a, h, r, op)
  BY <1>1, <1>3, <1>10 DEF Grown
<1> QED BY <1>11

\* The writer's own write is the next of the history.
LEMMA WriteKeepsOne ==
    ASSUME TypeOK, OneInv, NEW s \in Stations, NEW p \in Paths, Write(s, p)
    PROVE  OneInv'
<1>0. PICK a \in Stations, h \in Seq(Ops), n \in [Stations -> Nat], m \in [Stations -> Nat] :
        \E r \in [0..Len(h) -> Rows] : OneReplay(a, h, r, n, m)
  BY DEF OneInv
<1>1. PICK r \in [0..Len(h) -> Rows] : OneReplay(a, h, r, n, m)
  BY <1>0
<1>2. s = a /\ work' = work /\ inbox' = inbox
  <2>1. <<s, p>> \in work /\ work \subseteq {a} \X Paths
    BY <1>1 DEF OneReplay, Write
  <2> QED BY <2>1 DEF Write
<1> PICK now : now = Increment(clock[a], a)
  OBVIOUS
<1> PICK op : op = [clock |-> now, node |-> a, path |-> p, value |-> issued + 1]
  OBVIOUS
<1>3. clock[a] \in Clock(Stations) /\ now \in Clock(Stations) /\ op \in Ops
  <2>1. clock[a] \in Clock(Stations) /\ issued + 1 \in Nat
    BY MaxWritesAssumption DEF TypeOK
  <2>2. now \in Clock(Stations)
    BY <2>1, IncrementType
  <2> QED BY <2>1, <2>2 DEF Ops
<1>4. clock'[a] = now /\ clock' = [clock EXCEPT ![a] = now]
  BY <1>2 DEF Write, TypeOK
<1>5. /\ Len(h) \in Nat /\ n[a] = Len(h) /\ m[a] = Len(h) /\ row[a] = r[Len(h)]
      /\ History(a, h, r, clock[a]) /\ Replayed(h, r, n) /\ HandedDown(a, h, n, m)
  BY <1>1, LenProperties DEF OneReplay, Replayed
<1>6. CASE Refused(row[s], p)
  <2>1. known' = known /\ row' = row /\ link' = link
    BY <1>6 DEF Write
  <2>2. History(a, h, r, clock[a])'
    <3>1. ASSUME NEW i \in 1..Len(h) PROVE LeqClock(h[i].clock, now)
      <4>1. h[i] \in Ops
        BY ElementOfSeq
      <4>2. h[i].clock \in Clock(Stations) /\ LeqClock(h[i].clock, clock[a])
        BY <1>5, <4>1 DEF History, Ops
      <4> QED BY <1>3, <4>2, LeqIncrement
    <3> QED BY <1>4, <1>5, <3>1 DEF History
  <2>3. Replayed(h, r, n)' /\ HandedDown(a, h, n, m)'
    BY <1>2, <1>5, <2>1 DEF Replayed, HandedDown, Unwritten
  <2>4. OneReplay(a, h, r, n, m)'
    BY <1>1, <1>2, <2>2, <2>3 DEF OneReplay
  <2> QED BY <2>4 DEF OneInv
<1>7. CASE ~Refused(row[s], p)
  <2> PICK k : k = [clock |-> now, node |-> a]
    OBVIOUS
  <2> PICK c : c = ConflictPath(p)
    OBVIOUS
  <2>1. /\ row' = [row EXCEPT ![a] = Applied(row[a], op)]
        /\ known' = [known EXCEPT ![a][c] = k]
        /\ link' = FanOut(a, Peers(a), op)
    BY <1>2, <1>7 DEF Write
  <2>2. op.path = p /\ op.clock = now /\ op.node = a
    OBVIOUS
  <2>3. ~Refused(r[Len(h)], op.path)
    BY <1>2, <1>5, <1>7, <2>2
  <2> PICK g : g = Append(h, op)
    OBVIOUS
  <2>4. /\ g \in Seq(Ops) /\ Len(g) = Len(h) + 1 /\ g[Len(g)] = op
        /\ \A i \in 1..Len(h) : g[i] = h[i]
    BY <1>3, LenProperties, AppendProperties
  <2>40. \E e : Grown(e, a, h, r, op)
    <3>1. History(a, h, r, clock[a]) /\ op.node = a /\ op.clock = Increment(clock[a], a)
          /\ clock[a] \in Clock(Stations)
      BY <1>3, <1>5, <2>2
    <3>3. op \in Ops /\ a \in Stations /\ h \in Seq(Ops) /\ r \in [0..Len(h) -> Rows]
      BY <1>3
    <3>4. Adds(a, h, r, clock[a], op)
      BY <2>3, <3>1, <3>3 DEF Adds
    <3> QED BY ONLY <3>4, HistoryGrows
  <2> PICK e : Grown(e, a, h, r, op)
    BY <2>40
  <2>41. /\ e \in [0..Len(g) -> Rows] /\ e[Len(g)] = Applied(r[Len(h)], op)
         /\ \A i \in 0..Len(h) : e[i] = r[i]
         /\ History(a, g, e, now)
    BY <2>2 DEF Grown
  <2> PICK n2, m2 : n2 = [n EXCEPT ![a] = Len(g)] /\ m2 = [m EXCEPT ![a] = Len(g)]
    OBVIOUS
  <2>5. /\ n2 \in [Stations -> Nat] /\ m2 \in [Stations -> Nat]
        /\ n2[a] = Len(g) /\ m2[a] = Len(g)
        /\ \A u \in Stations : u # a => n2[u] = n[u] /\ m2[u] = m[u]
    BY <1>5, <2>4
  <2>6. \A u \in Stations : n[u] \in 0..Len(h) /\ m[u] \in 0..Len(h)
    BY <1>5 DEF HandedDown, Slice
  <2>7. Replayed(g, e, n2)'
    <3> SUFFICES ASSUME NEW u \in Stations
                 PROVE  /\ row'[u] = e[n2[u]]
                        /\ \A q \in ConflictPaths :
                             known'[u][q] = Unwritten \/ \E i \in 1..n2[u] : known'[u][q].clock = g[i].clock
      BY DEF Replayed, Unwritten
    <3>1. row[u] = r[n[u]] /\ \A q \in ConflictPaths :
              known[u][q] = Unwritten \/ \E i \in 1..n[u] : known[u][q].clock = h[i].clock
      BY <1>5 DEF Replayed
    <3>2. CASE u = a
      <4>1. row'[u] = e[n2[u]]
        BY <1>5, <2>1, <2>4, <2>41, <2>5, <3>2 DEF TypeOK
      <4>2. ASSUME NEW q \in ConflictPaths, known'[u][q] # Unwritten
            PROVE  \E i \in 1..n2[u] : known'[u][q].clock = g[i].clock
        <5>1. CASE q = c
          <6>1. known'[u][q] = k
            BY <2>1, <3>2, <5>1 DEF TypeOK
          <6>2. n2[u] \in 1..n2[u] /\ g[n2[u]] = op
            BY <1>5, <2>4, <2>5, <3>2
          <6>3. known'[u][q].clock = g[n2[u]].clock
            <7>1. k.clock = now
              OBVIOUS
            <7>2. known'[u][q].clock = now
              BY ONLY <6>1, <7>1
            <7>3. g[n2[u]].clock = now
              BY ONLY <2>2, <6>2
            <7> QED BY ONLY <7>2, <7>3
          <6> QED BY <6>2, <6>3
        <5>2. CASE q # c
          <6>1. known'[u][q] = known[u][q]
            BY <2>1, <3>2, <5>2 DEF TypeOK
          <6>2. PICK i \in 1..n[u] : known[u][q].clock = h[i].clock
            BY <3>1, <4>2, <6>1
          <6>3. i \in 1..n2[u] /\ g[i] = h[i]
            BY <1>5, <2>4, <2>5, <3>2
          <6> QED BY <6>1, <6>2, <6>3
        <5> QED BY <5>1, <5>2
      <4> QED BY <4>1, <4>2
    <3>3. CASE u # a
      <4>1. row'[u] = row[u] /\ known'[u] = known[u] /\ n2[u] = n[u]
        BY <2>1, <2>5, <3>3 DEF TypeOK
      <4>2. e[n[u]] = r[n[u]] /\ \A i \in 1..n[u] : g[i] = h[i]
        BY <1>5, <2>4, <2>41, <2>6
      <4> QED BY <3>1, <4>1, <4>2
    <3> QED BY <3>2, <3>3
  <2>8. \A q, i, j : Slice(q, h, i, j) => Slice(q, g, i, j)
    BY <1>3, SliceOfLonger
  <2>9. ASSUME NEW u \in Stations PROVE Slice(inbox'[u], g, n2[u], m2[u])
    <3>1. Slice(inbox[u], h, n[u], m[u])
      BY <1>5 DEF HandedDown
    <3>2. CASE u = a
      <4>1. inbox[u] = <<>>
        BY <1>5, <3>1, <3>2, EmptySeq DEF Slice
      <4>2. Len(g) \in 0..Len(g)
        BY <1>5, <2>4
      <4>3. Slice(<<>>, g, Len(g), Len(g))
        BY <2>4, <4>2, NoSlice
      <4> QED BY <1>2, <2>5, <3>2, <4>1, <4>3
    <3>3. CASE u # a
      BY <1>2, <2>5, <2>8, <3>1, <3>3
    <3> QED BY <3>2, <3>3
  <2>10. ASSUME NEW u \in Stations, NEW v \in Stations
         PROVE  IF v # a /\ u = Upstream(a, v)
                THEN Slice(link'[u][v], g, m2[v], m2[u])
                ELSE link'[u][v] = <<>>
    <3>1. IF v # a /\ u = Upstream(a, v) THEN Slice(link[u][v], h, m[v], m[u]) ELSE link[u][v] = <<>>
      BY <1>5 DEF HandedDown
    <3>2. link'[u][v] = IF u = a /\ v \in Peers(a) THEN Append(link[u][v], op) ELSE link[u][v]
      BY <2>1 DEF FanOut, TypeOK
    <3>3. CASE u = a /\ v \in Peers(a)
      <4>1. v # a /\ u = Upstream(a, v)
        BY <3>3 DEF Peers, Upstream
      <4>2. Slice(link[u][v], g, m[v], Len(h))
        BY <1>5, <2>8, <3>1, <3>3, <4>1
      <4> PICK j : j = Len(h)
        OBVIOUS
      <4>3. Slice(Append(link[u][v], op), g, m[v], Len(h) + 1)
        <5>1. j \in Nat /\ j < Len(g) /\ op = g[j + 1] /\ g \in Seq(Ops) /\ op \in Ops
          BY <1>3, <1>5, <2>4
        <5>2. Slice(link[u][v], g, m[v], j)
          BY <4>2
        <5>3. Slice(Append(link[u][v], op), g, m[v], j + 1)
          BY ONLY <5>1, <5>2, SliceAppend
        <5> QED BY <5>3
      <4>4. m2[v] = m[v] /\ m2[u] = Len(h) + 1 /\ link'[u][v] = Append(link[u][v], op)
        BY <2>4, <2>5, <3>2, <3>3, <4>1
      <4> QED BY <4>1, <4>3, <4>4
    <3>4. CASE ~(u = a /\ v \in Peers(a))
      <4>1. v # a /\ u = Upstream(a, v) => u # a
        BY <3>4 DEF Peers, Upstream
      <4> QED BY <2>5, <2>8, <3>1, <3>2, <3>4, <4>1
    <3> QED BY <3>3, <3>4
  <2>11. HandedDown(a, g, n2, m2)'
    BY <2>9, <2>10 DEF HandedDown
  <2>12. OneReplay(a, g, e, n2, m2)'
    BY <1>1, <1>2, <1>4, <2>4, <2>41, <2>5, <2>7, <2>11 DEF OneReplay
  <2> QED BY <2>4, <2>41, <2>5, <2>12 DEF OneInv
<1> QED BY <1>6, <1>7

\* What a station is handed is the next it was not, from the only link that
\* leads to it from the writer.
LEMMA ReceiveKeepsOne ==
    ASSUME TypeOK, OneInv, NEW s \in Stations, NEW t \in Stations, Receive(s, t)
    PROVE  OneInv'
<1>0. PICK a \in Stations, h \in Seq(Ops), n \in [Stations -> Nat], m \in [Stations -> Nat] :
        \E r \in [0..Len(h) -> Rows] : OneReplay(a, h, r, n, m)
  BY DEF OneInv
<1>1. PICK r \in [0..Len(h) -> Rows] : OneReplay(a, h, r, n, m)
  BY <1>0
<1> PICK q : q = link[t][s]
  OBVIOUS
<1> PICK op : op = Head(q)
  OBVIOUS
<1>2. /\ Len(h) \in Nat /\ n[a] = Len(h) /\ m[a] = Len(h)
      /\ History(a, h, r, clock[a]) /\ Replayed(h, r, n) /\ HandedDown(a, h, n, m)
      /\ work \subseteq {a} \X Paths
  BY <1>1, LenProperties DEF OneReplay
<1>3. q # <<>> /\ q \in Seq(Ops) /\ s # a /\ t = Upstream(a, s) /\ Slice(q, h, m[s], m[t])
  <2>1. q # <<>> /\ q \in Seq(Ops)
    BY DEF Receive, TypeOK
  <2>2. IF s # a /\ t = Upstream(a, s) THEN Slice(q, h, m[s], m[t]) ELSE q = <<>>
    BY <1>2 DEF HandedDown
  <2> QED BY <2>1, <2>2
<1>4. /\ m[s] + 1 \in 1..Len(h) /\ m[s] < m[t] /\ m[t] <= Len(h)
      /\ op = h[m[s] + 1] /\ op \in Ops
      /\ Slice(Tail(q), h, m[s] + 1, m[t])
  BY <1>0, <1>3, SliceTail
<1>5. op.node = a
  BY <1>2, <1>4 DEF History
<1> PICK m2 : m2 = [m EXCEPT ![s] = m[s] + 1]
  OBVIOUS
<1>6. /\ m2 \in [Stations -> Nat] /\ m2[a] = Len(h) /\ m2[s] = m[s] + 1
      /\ \A u \in Stations : u # s => m2[u] = m[u]
  BY <1>2, <1>3
<1>7. clock' = clock /\ known' = known /\ row' = row /\ work' = work
      /\ inbox' = [inbox EXCEPT ![s] = Append(inbox[s], op)]
  BY DEF Receive
<1>8. ASSUME NEW u \in Stations PROVE Slice(inbox'[u], h, n[u], m2[u])
  <2>1. Slice(inbox[u], h, n[u], m[u])
    BY <1>2 DEF HandedDown
  <2>2. CASE u = s
    <3> PICK j : j = m[s]
      OBVIOUS
    <3>1. Slice(inbox[s], h, n[s], j) /\ j < Len(h) /\ op = h[j + 1] /\ op \in Ops /\ h \in Seq(Ops)
      BY <1>0, <1>2, <1>4, <2>1, <2>2
    <3>2. Slice(Append(inbox[s], op), h, n[s], j + 1)
      BY ONLY <3>1, SliceAppend
    <3>3. inbox'[s] = Append(inbox[s], op)
      BY <1>7 DEF TypeOK
    <3> QED BY <1>6, <2>2, <3>2, <3>3
  <2>3. CASE u # s
    <3>1. inbox'[u] = inbox[u]
      BY <1>7, <2>3 DEF TypeOK
    <3> QED BY <1>6, <2>1, <2>3, <3>1
  <2> QED BY <2>2, <2>3
<1>9. /\ t # s /\ t \in Stations
      /\ link'[t][s] = Tail(q)
      /\ \A u, v \in Stations : s = Leader /\ u = s /\ v \in Peers(s) \ {a} => link'[u][v] = Append(link[u][v], op)
      /\ \A u, v \in Stations : ~(u = t /\ v = s) /\ ~(s = Leader /\ u = s /\ v \in Peers(s) \ {a})
             => link'[u][v] = link[u][v]
  <2>1. t # s
    BY <1>3 DEF Upstream
  <2> PICK popped : popped = [link EXCEPT ![t][s] = Tail(@)]
    OBVIOUS
  <2>2. /\ popped \in [Stations -> [Stations -> Seq(Ops)]] /\ popped[t][s] = Tail(q)
        /\ \A u, v \in Stations : ~(u = t /\ v = s) => popped[u][v] = link[u][v]
    BY <1>3, QueueShrinks DEF TypeOK
  <2>3. CASE s = Leader
    <3>1. Peers(s) \ {t, op.node} = Peers(s) \ {a}
      BY <1>3, <1>5, <2>3 DEF Upstream
    <3> PICK out : out = FanOut(s, Peers(s) \ {a}, op)[s]
      OBVIOUS
    <3>2. link' = [popped EXCEPT ![s] = out]
      BY <2>3, <3>1 DEF Receive
    <3>3. \A v \in Stations : out[v] = IF v \in Peers(s) \ {a} THEN Append(link[s][v], op) ELSE link[s][v]
      BY DEF FanOut, TypeOK
    <3>4. link'[s] = out /\ \A u \in Stations : u # s => link'[u] = popped[u]
      BY <2>2, <3>2
    <3>5. link'[t][s] = Tail(q)
      BY <2>1, <2>2, <3>4
    <3>6. ASSUME NEW u \in Stations, NEW v \in Stations, u = s, v \in Peers(s) \ {a}
          PROVE  link'[u][v] = Append(link[u][v], op)
      BY <3>3, <3>4, <3>6
    <3>7. ASSUME NEW u \in Stations, NEW v \in Stations, ~(u = t /\ v = s), ~(u = s /\ v \in Peers(s) \ {a})
          PROVE  link'[u][v] = link[u][v]
      <4>1. CASE u = s
        <5>1. out[v] = link[s][v]
          BY <3>3, <3>7, <4>1
        <5> QED BY <3>4, <4>1, <5>1
      <4>2. CASE u # s
        <5>1. popped[u][v] = link[u][v]
          BY <2>2, <3>7
        <5> QED BY <3>4, <4>2, <5>1
      <4> QED BY <4>1, <4>2
    <3> QED BY <2>1, <2>3, <3>5, <3>6, <3>7
  <2>4. CASE s # Leader
    <3>1. link' = popped
      BY <2>4 DEF Receive
    <3> QED BY <2>1, <2>2, <2>4, <3>1
  <2> QED BY <2>3, <2>4
<1>10. ASSUME NEW u \in Stations, NEW v \in Stations
       PROVE  IF v # a /\ u = Upstream(a, v)
              THEN Slice(link'[u][v], h, m2[v], m2[u])
              ELSE link'[u][v] = <<>>
  <2>1. IF v # a /\ u = Upstream(a, v) THEN Slice(link[u][v], h, m[v], m[u]) ELSE link[u][v] = <<>>
    BY <1>2 DEF HandedDown
  <2>2. CASE u = t /\ v = s
    <3>1. link'[u][v] = Tail(q) /\ m2[v] = m[s] + 1 /\ m2[u] = m[t]
      BY <1>6, <1>9, <2>2
    <3> QED BY <1>3, <1>4, <2>2, <3>1
  <2>3. CASE s = Leader /\ u = s /\ v \in Peers(s) \ {a}
    <3>1. v # a /\ u = Upstream(a, v) /\ v # s
      BY <2>3 DEF Peers, Upstream
    <3> PICK j, p : j = m[s] /\ p = link[u][v]
      OBVIOUS
    <3>2. Slice(p, h, m[v], j) /\ j < Len(h) /\ op = h[j + 1] /\ op \in Ops /\ h \in Seq(Ops)
      BY <1>0, <1>2, <1>4, <2>1, <2>3, <3>1
    <3>3. Slice(Append(p, op), h, m[v], j + 1)
      BY ONLY <3>2, SliceAppend
    <3>4. link'[u][v] = Append(p, op) /\ m2[v] = m[v] /\ m2[u] = j + 1
      BY <1>6, <1>9, <2>3, <3>1
    <3> QED BY <3>1, <3>3, <3>4
  <2>4. CASE ~(u = t /\ v = s) /\ ~(s = Leader /\ u = s /\ v \in Peers(s) \ {a})
    <3>1. link'[u][v] = link[u][v]
      BY <1>9, <2>4
    <3>2. v # a /\ u = Upstream(a, v) => u # s /\ v # s
      BY <1>3, <2>4 DEF Peers, Upstream
    <3> QED BY <1>6, <2>1, <3>1, <3>2
  <2> QED BY <2>2, <2>3, <2>4
<1>11. HandedDown(a, h, n, m2)'
  BY <1>8, <1>10 DEF HandedDown
<1>12. History(a, h, r, clock[a])' /\ Replayed(h, r, n)'
  BY <1>2, <1>7 DEF History, Replayed, Unwritten
<1>13. OneReplay(a, h, r, n, m2)'
  BY <1>2, <1>6, <1>7, <1>11, <1>12 DEF OneReplay
<1> QED BY <1>0, <1>1, <1>6, <1>13 DEF OneInv

\* What a station applies is the next of the history, and does to its row what
\* it did to the writer's.
LEMMA ApplyKeepsOne ==
    ASSUME TypeOK, OneInv, NEW s \in Stations, ApplyPeerOperation(s)
    PROVE  OneInv'
<1>0. PICK a \in Stations, h \in Seq(Ops), n \in [Stations -> Nat], m \in [Stations -> Nat] :
        \E r \in [0..Len(h) -> Rows] : OneReplay(a, h, r, n, m)
  BY DEF OneInv
<1>1. PICK r \in [0..Len(h) -> Rows] : OneReplay(a, h, r, n, m)
  BY <1>0
<1> PICK q : q = inbox[s]
  OBVIOUS
<1> PICK op : op = Head(q)
  OBVIOUS
<1> PICK c : c = ConflictPath(op.path)
  OBVIOUS
<1> PICK k : k = [clock |-> op.clock, node |-> op.node]
  OBVIOUS
<1>2. /\ Len(h) \in Nat /\ n[a] = Len(h) /\ m[a] = Len(h)
      /\ History(a, h, r, clock[a]) /\ Replayed(h, r, n) /\ HandedDown(a, h, n, m)
      /\ work \subseteq {a} \X Paths
  BY <1>1, LenProperties DEF OneReplay
<1>3. q # <<>> /\ Slice(q, h, n[s], m[s])
  BY <1>2 DEF ApplyPeerOperation, HandedDown
<1>4. /\ n[s] + 1 \in 1..Len(h) /\ n[s] < m[s] /\ m[s] <= Len(h)
      /\ op = h[n[s] + 1] /\ op \in Ops
      /\ Slice(Tail(q), h, n[s] + 1, m[s])
  BY <1>0, <1>3, SliceTail
<1>5. s # a
  BY <1>2, <1>4
<1> PICK n2 : n2 = [n EXCEPT ![s] = n[s] + 1]
  OBVIOUS
<1>6. /\ n2 \in [Stations -> Nat] /\ n2[a] = Len(h) /\ n2[s] = n[s] + 1
      /\ \A u \in Stations : u # s => n2[u] = n[u]
  BY <1>2, <1>5
<1>7. /\ row[s] = r[n[s]] /\ ~Refused(r[n[s]], op.path) /\ r[n[s] + 1] = Applied(r[n[s]], op)
      /\ \A p \in ConflictPaths : known[s][p] = Unwritten \/ HappensBefore(known[s][p].clock, op.clock)
  <2>1. n[s] \in Nat
    BY <1>0
  <2>2. row[s] = r[n[s]] /\ \A p \in ConflictPaths :
          known[s][p] = Unwritten \/ \E i \in 1..n[s] : known[s][p].clock = h[i].clock
    BY <1>2 DEF Replayed
  <2>3. ~Refused(r[(n[s] + 1) - 1], op.path) /\ r[n[s] + 1] = Applied(r[(n[s] + 1) - 1], op)
    BY <1>2, <1>4 DEF History
  <2>4. (n[s] + 1) - 1 = n[s]
    BY <2>1
  <2>5. \A i \in 1..n[s] : HappensBefore(h[i].clock, op.clock)
    <3>1. \A i \in 1..n[s] : i \in 1..Len(h) /\ i < n[s] + 1
      BY <1>2, <1>4, <2>1
    <3> QED BY <1>2, <1>4, <3>1 DEF History
  <2> QED BY <2>2, <2>3, <2>4, <2>5
<1>8. c \in ConflictPaths
  BY <1>4, ConflictPathType DEF Ops
<1>9. Accepts(s, op)
  BY <1>7, <1>8 DEF Accepts
<1>10. /\ row' = [row EXCEPT ![s] = r[n[s] + 1]]
       /\ known' = [known EXCEPT ![s][c] = k]
       /\ inbox' = [inbox EXCEPT ![s] = Tail(q)] /\ link' = link /\ work' = work
  <2>1. row' = [row EXCEPT ![s] = Applied(row[s], op)] /\ known' = [known EXCEPT ![s][c] = k]
    BY <1>7, <1>9 DEF ApplyPeerOperation
  <2>2. inbox' = [inbox EXCEPT ![s] = Tail(q)] /\ link' = link /\ work' = work
    BY DEF ApplyPeerOperation
  <2> QED BY <1>7, <2>1, <2>2
<1>11. clock'[a] = clock[a]
  <2>1. \E d : clock' = [clock EXCEPT ![s] = d]
    BY DEF ApplyPeerOperation
  <2> QED BY <1>5, <2>1 DEF TypeOK
<1>12. History(a, h, r, clock[a])'
  BY <1>2, <1>11 DEF History
<1>13. Replayed(h, r, n2)'
  <2> SUFFICES ASSUME NEW u \in Stations
               PROVE  /\ row'[u] = r[n2[u]]
                      /\ \A p \in ConflictPaths :
                           known'[u][p] = Unwritten \/ \E i \in 1..n2[u] : known'[u][p].clock = h[i].clock
    BY DEF Replayed, Unwritten
  <2>1. row[u] = r[n[u]] /\ \A p \in ConflictPaths :
            known[u][p] = Unwritten \/ \E i \in 1..n[u] : known[u][p].clock = h[i].clock
    BY <1>2 DEF Replayed
  <2>2. CASE u = s
    <3>1. row'[u] = r[n2[u]]
      BY <1>6, <1>10, <2>2 DEF TypeOK
    <3>2. \A p \in ConflictPaths : known'[u][p] = IF p = c THEN k ELSE known[u][p]
      BY <1>10, <2>2 DEF TypeOK
    <3>3. n2[u] \in 1..n2[u] /\ h[n2[u]] = op /\ \A i \in 1..n[u] : i \in 1..n2[u]
      BY <1>0, <1>4, <1>6, <2>2
    <3>4. k.clock = op.clock
      OBVIOUS
    <3> QED BY <2>1, <3>1, <3>2, <3>3, <3>4
  <2>3. CASE u # s
    <3>1. row'[u] = row[u] /\ known'[u] = known[u] /\ n2[u] = n[u]
      BY <1>6, <1>10, <2>3 DEF TypeOK
    <3> QED BY <2>1, <3>1
  <2> QED BY <2>2, <2>3
<1>14. HandedDown(a, h, n2, m)'
  <2>1. ASSUME NEW u \in Stations PROVE Slice(inbox'[u], h, n2[u], m[u])
    <3>1. Slice(inbox[u], h, n[u], m[u])
      BY <1>2 DEF HandedDown
    <3>2. CASE u = s
      <4>1. inbox'[u] = Tail(q) /\ n2[u] = n[s] + 1
        BY <1>6, <1>10, <3>2 DEF TypeOK
      <4> QED BY <1>4, <3>2, <4>1
    <3>3. CASE u # s
      <4>1. inbox'[u] = inbox[u] /\ n2[u] = n[u]
        BY <1>6, <1>10, <3>3 DEF TypeOK
      <4> QED BY <3>1, <4>1
    <3> QED BY <3>2, <3>3
  <2> QED BY <1>2, <1>10, <2>1 DEF HandedDown
<1>15. OneReplay(a, h, r, n2, m)'
  BY <1>2, <1>6, <1>10, <1>12, <1>13, <1>14 DEF OneReplay
<1> QED BY <1>0, <1>1, <1>6, <1>15 DEF OneInv

\* The history before the first write.
LEMMA OneInit ==
    ASSUME Init, OneWriter
    PROVE  OneInv
<1>1. PICK a \in Stations : work \subseteq {a} \X Paths
  BY DEF OneWriter
<1> PICK h, n, r : h = <<>> /\ n = [s \in Stations |-> 0] /\ r = [i \in 0..0 |-> [f \in Fields |-> 0]]
  OBVIOUS
<1>2. /\ h \in Seq(Ops) /\ Len(h) = 0 /\ n \in [Stations -> Nat]
      /\ r \in [0..Len(h) -> Rows] /\ r[0] = [f \in Fields |-> 0]
  <2>1. h \in Seq(Ops) /\ Len(h) = 0
    BY EmptySeq
  <2>2. [f \in Fields |-> 0] \in Rows
    BY DEF Rows
  <2> QED BY <2>1, <2>2
<1>3. Slice(<<>>, h, 0, 0)
  BY <1>2, NoSlice
<1>4. /\ \A s \in Stations : inbox[s] = <<>> /\ row[s] = [f \in Fields |-> 0] /\ n[s] = 0
      /\ \A s, t \in Stations : link[s][t] = <<>>
      /\ \A s \in Stations, q \in ConflictPaths : known[s][q] = Unwritten
  BY DEF Init
<1>5. History(a, h, r, clock[a])
  BY <1>2 DEF History
<1>6. Replayed(h, r, n)
  BY <1>2, <1>4 DEF Replayed
<1>7. HandedDown(a, h, n, n)
  BY <1>3, <1>4 DEF HandedDown
<1>8. OneReplay(a, h, r, n, n)
  BY <1>1, <1>2, <1>4, <1>5, <1>6, <1>7 DEF OneReplay
<1> QED BY <1>1, <1>2, <1>8 DEF OneInv

\* Every step of the one writer's session keeps it.
LEMMA OneStep ==
    ASSUME TypeOK, OneInv, [Next]_vars
    PROVE  OneInv'
<1>1. CASE UNCHANGED vars
  <2>1. PICK a \in Stations, h \in Seq(Ops), n \in [Stations -> Nat], m \in [Stations -> Nat] :
          \E r \in [0..Len(h) -> Rows] : OneReplay(a, h, r, n, m)
    BY DEF OneInv
  <2>2. PICK r \in [0..Len(h) -> Rows] : OneReplay(a, h, r, n, m)
    BY <2>1
  <2>3. OneReplay(a, h, r, n, m)'
    BY <1>1, <2>2 DEF vars, OneReplay, History, Replayed, HandedDown, Unwritten
  <2> QED BY <2>1, <2>2, <2>3 DEF OneInv
<1> QED BY <1>1, WriteKeepsOne, ReceiveKeepsOne, ApplyKeepsOne DEF Next

\* With nothing on its way every station is at the end of the history.
LEMMA OneShowWhenQuiet ==
    ASSUME OneInv, Quiet
    PROVE  OneShow
<1>1. PICK a \in Stations, h \in Seq(Ops), n \in [Stations -> Nat], m \in [Stations -> Nat] :
        \E r \in [0..Len(h) -> Rows] : OneReplay(a, h, r, n, m)
  BY DEF OneInv
<1>2. PICK r \in [0..Len(h) -> Rows] : OneReplay(a, h, r, n, m)
  BY <1>1
<1>3. m[a] = Len(h) /\ Replayed(h, r, n) /\ HandedDown(a, h, n, m)
  BY <1>2 DEF OneReplay
<1>4. Leader \in Stations
  BY StationsAssumption
<1>5. ASSUME NEW s \in Stations, NEW t \in Stations, t # a, s = Upstream(a, t)
      PROVE  m[t] = m[s]
  <2>1. link[s][t] = <<>> /\ Slice(link[s][t], h, m[t], m[s])
    BY <1>3, <1>5 DEF Quiet, HandedDown
  <2>2. Slice(<<>>, h, m[t], m[s])
    BY <2>1
  <2> QED BY <2>2, EmptySlice
<1>6. m[Leader] = Len(h)
  <2>1. CASE Leader = a
    BY <1>3, <2>1
  <2>2. CASE Leader # a
    <3>1. a = Upstream(a, Leader)
      BY DEF Upstream
    <3> QED BY <1>1, <1>3, <1>4, <1>5, <2>2, <3>1
  <2> QED BY <2>1, <2>2
<1>7. ASSUME NEW s \in Stations PROVE m[s] = Len(h)
  <2>1. CASE s = a \/ s = Leader
    BY <1>3, <1>6, <2>1
  <2>2. CASE s # a /\ s # Leader
    <3>1. Leader = Upstream(a, s)
      BY <2>2 DEF Upstream
    <3> QED BY <1>4, <1>5, <1>6, <2>2, <3>1
  <2> QED BY <2>1, <2>2
<1>8. ASSUME NEW s \in Stations PROVE n[s] = m[s]
  <2>1. inbox[s] = <<>> /\ Slice(inbox[s], h, n[s], m[s])
    BY <1>3 DEF Quiet, HandedDown
  <2>2. Slice(<<>>, h, n[s], m[s])
    BY <2>1
  <2> QED BY <2>2, EmptySlice
<1>9. \A s \in Stations : row[s] = r[Len(h)]
  BY <1>3, <1>7, <1>8 DEF Replayed
<1> QED BY <1>9 DEF OneShow

(***************************************************************************)
(* One operator at anything a row can be written by, any number of         *)
(* stations following: once everything is delivered, every station shows   *)
(* the writer's row, the commands it ran again included.                   *)
(***************************************************************************)
THEOREM OneWriterConverges == Spec => [](OneWriter => Converged)
<1> DEFINE I == OneWriter => OneInv
<1>1. Init => I
  BY OneInit
<1>2. TypeOK /\ I /\ [Next]_vars => I'
  <2> SUFFICES ASSUME TypeOK, I, [Next]_vars, OneWriter'
               PROVE  OneInv'
    OBVIOUS
  <2>1. work' = work
    BY DEF Next, vars, Write, Receive, ApplyPeerOperation
  <2>2. OneWriter
    BY <2>1 DEF OneWriter
  <2> QED BY <2>2, OneStep
<1>3. I => (OneWriter => Converged)
  BY OneShowWhenQuiet DEF Converged
<1> HIDE DEF I
<1> QED BY <1>1, <1>2, <1>3, TypeCorrect, PTL DEF Spec
=============================================================================
