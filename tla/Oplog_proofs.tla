---------------------------- MODULE Oplog_proofs ----------------------------
(***************************************************************************)
(* For any depth of history, retention, interval between prunes, kinds of  *)
(* write and bounds, and in whatever order the engine, a peer, the wall    *)
(* clock, a prune and a stop take their steps: all that a prune cut is     *)
(* below the floor but for what fell due while it was cutting, and no      *)
(* restart forgets the number of a row that did not.                       *)
(***************************************************************************)
EXTENDS Oplog, Library_proofs, FiniteSetTheorems

LEMMA HighBounds ==
    ASSUME NEW rows \in SUBSET Row, NEW n \in Nodes
    PROVE  /\ High(rows, n) \in 0..MaxWrites
           /\ \A r \in rows : r.node = n => r.seq <= High(rows, n)
<1> DEFINE S == {0} \cup {r.seq : r \in {q \in rows : q.node = n}}
<1>1. S \in SUBSET (0..MaxWrites) /\ S # {} /\ MaxWrites \in Nat
  BY BoundsAssumption DEF Row
<1>2. \A r \in rows : r.node = n => r.seq \in S
  OBVIOUS
<1>3. High(rows, n) = Max(S)
  BY DEF High
<1> HIDE DEF S
<1>4. Max(S) \in S /\ \A x \in S : x <= Max(S)
  BY <1>1, MaxBounds
<1> QED BY <1>1, <1>2, <1>3, <1>4

LEMMA HigherBounds ==
    ASSUME NEW a \in Int, NEW b \in Int
    PROVE  Higher(a, b) \in {a, b} /\ Higher(a, b) >= a /\ Higher(a, b) >= b
BY DEF Higher

-----------------------------------------------------------------------------
(***************************************************************************)
(* The inductive invariant.                                                *)
(***************************************************************************)
Counters == now \in 0..MaxTime /\ restarts \in Nat

\* Rows carry numbers that were given, cut or not.
Numbered == \A r \in whole : r.seq <= given[r.node]

GesturesAreAuthored == \A r \in whole : r.gesture # NoGesture => r.authored

\* What a prune has still to cut it has recorded, or it fell due since; and what
\* it recorded is below the floor of every node it is not still to raise.
Recorded ==
    /\ prune.stage = "raise" =>
        \A r \in Due(log, Cutoff) : r.seq <= prune.upto[r.node] \/ r \in slipped
    /\ prune.stage = "unattributed" =>
        \A r \in log : TooOld(r, Cutoff) => r.seq <= prune.upto[r.node] \/ r \in slipped
    /\ Cutting => \A n \in Nodes \ prune.raising : prune.upto[n] <= floor[n]
    /\ prune.stage = "unattributed" => prune.raising = {}

Inv ==
    /\ TypeOK
    /\ Counters
    /\ Numbered
    /\ GesturesAreAuthored
    /\ FloorCoversCut
    /\ Recorded
    /\ CountsOn

(***************************************************************************)
(* A row whose number is new replaces what its gesture had, and nothing    *)
(* else.                                                                   *)
(***************************************************************************)
LEMMA AppendedRow ==
    ASSUME NEW rows \in SUBSET Row, NEW op \in Row,
           op.gesture # NoGesture => op.authored,
           \A r \in rows : r.gesture # NoGesture => r.authored,
           \A r \in rows : ~(r.node = op.node /\ r.seq = op.seq)
    PROVE  Appended(rows, op) = (rows \ SameGesture(rows, op)) \cup {op}
<1>1. CASE SameGesture(rows, op) = {}
  <2>1. {r \in rows : ~(r.node = op.node /\ r.seq = op.seq)} = rows
    OBVIOUS
  <2> QED BY <1>1, <2>1 DEF Appended
<1>2. CASE SameGesture(rows, op) # {}
  <2>1. ASSUME NEW r \in SameGesture(rows, op)
        PROVE  [r EXCEPT !.seq = op.seq, !.time = op.time] = op
    <3>1. /\ r \in Row /\ r.node = op.node /\ r.path = op.path
          /\ r.gesture = op.gesture /\ r.authored = op.authored
      BY <2>1 DEF SameGesture, Row
    <3> QED BY <3>1 DEF Row
  <2>2. {[r EXCEPT !.seq = op.seq, !.time = op.time] : r \in SameGesture(rows, op)} = {op}
    BY <1>2, <2>1
  <2> QED BY <1>2, <2>2 DEF Appended
<1> QED BY <1>1, <1>2

\* What a write stands for: the row of its gesture, and one of its number.
Replaced(op) ==
    SameGesture(whole, op) \cup {r \in whole : r.node = op.node /\ r.seq = op.seq}

(***************************************************************************)
(* The log and the log that is never cut take the write alike, as long as  *)
(* no row of the log has its number: what the log is without does not      *)
(* grow.                                                                   *)
(***************************************************************************)
LEMMA BothAppend ==
    ASSUME TypeOK, GesturesAreAuthored, NEW op \in Row, Log(op),
           op.gesture # NoGesture => op.authored,
           \A r \in log : r.node = op.node => r.seq < op.seq
    PROVE  /\ log' = (log \ Replaced(op)) \cup {op}
           /\ whole' = (whole \ Replaced(op)) \cup {op}
           /\ Replaced(op) \cap log = SameGesture(log, op)
           /\ log' \subseteq whole'
           /\ \A r, s \in whole' : r.node = s.node /\ r.seq = s.seq => r = s
           /\ whole' \subseteq Row
<1> DEFINE others == {r \in whole : ~(r.node = op.node /\ r.seq = op.seq)}
<1>1. whole \in SUBSET Row /\ log \in SUBSET Row /\ log \subseteq whole
  BY DEF TypeOK
<1>2. \A r \in log : ~(r.node = op.node /\ r.seq = op.seq)
  BY <1>1 DEF Row
<1>3. Appended(others, op) = (others \ SameGesture(others, op)) \cup {op}
  <2>1. /\ others \in SUBSET Row
        /\ \A r \in others : r.gesture # NoGesture => r.authored
        /\ \A r \in others : ~(r.node = op.node /\ r.seq = op.seq)
    BY <1>1 DEF GesturesAreAuthored
  <2> HIDE DEF others
  <2> QED BY <2>1, AppendedRow
<1>4. Appended(log, op) = (log \ SameGesture(log, op)) \cup {op}
  <2>1. \A r \in log : r.gesture # NoGesture => r.authored
    BY <1>1 DEF GesturesAreAuthored
  <2> QED BY <1>1, <1>2, <2>1, AppendedRow
<1>5. others \ SameGesture(others, op) = whole \ Replaced(op)
  BY DEF SameGesture, Replaced
<1>6. Replaced(op) \cap log = SameGesture(log, op)
  BY <1>1, <1>2 DEF SameGesture, Replaced
<1>7. log' = (log \ Replaced(op)) \cup {op} /\ whole' = (whole \ Replaced(op)) \cup {op}
  BY <1>3, <1>4, <1>5, <1>6 DEF Log
<1>8. ASSUME NEW r \in whole', NEW s \in whole', r.node = s.node, r.seq = s.seq
      PROVE  r = s
  BY <1>7, <1>8 DEF TypeOK, Replaced
<1> QED BY <1>1, <1>6, <1>7, <1>8

(***************************************************************************)
(* What slips is a row there is; what has slipped stays so while it is     *)
(* there; and what falls due while a prune is cutting slips.               *)
(***************************************************************************)
LEMMA SlipsAre ==
    ASSUME Slips, log' \subseteq whole'
    PROVE  /\ slipped' \subseteq whole'
           /\ slipped \cap whole' \subseteq slipped'
           /\ Cutting => \A r \in log' : r \in Due(log', Cutoff') => r \in slipped' \/ r \in Due(log, Cutoff)
<1>1. Due(log, Cutoff)' = Due(log', Cutoff')
  BY DEF Due, TooOld, Authored, Newest
<1> QED BY <1>1 DEF Slips

\* The part of Recorded that a write, or time going on, could disturb.
LEMMA RecordedOn ==
    ASSUME Inv, Slips, log' \subseteq whole', prune'.upto = prune.upto,
           prune'.raising = prune.raising, Cutting' => prune'.stage = prune.stage,
           UNCHANGED floor
    PROVE  Recorded'
<1> USE DEF Inv
<1>1. Cutting' => Cutting
  BY DEF Cutting
<1>2. /\ slipped \cap whole' \subseteq slipped'
      /\ Cutting => \A r \in log' : r \in Due(log', Cutoff') => r \in slipped' \/ r \in Due(log, Cutoff)
  BY SlipsAre
<1>3. ASSUME prune'.stage = "raise", NEW r \in Due(log', Cutoff')
      PROVE  r.seq <= prune'.upto[r.node] \/ r \in slipped'
  <2>1. prune.stage = "raise" /\ Cutting
    BY <1>3 DEF Cutting
  <2>2. r \in log'
    BY <1>3 DEF Due, Authored
  <2> QED BY <1>2, <1>3, <2>1, <2>2 DEF Recorded
<1>4. ASSUME prune'.stage = "unattributed", NEW r \in log', TooOld(r, Cutoff')
      PROVE  r.seq <= prune'.upto[r.node] \/ r \in slipped'
  <2>1. prune.stage = "unattributed" /\ Cutting
    BY <1>4 DEF Cutting
  <2>2. r \in Due(log', Cutoff')
    BY <1>4 DEF Due
  <2>3. r \in slipped' \/ r \in Due(log, Cutoff)
    BY <1>2, <1>4, <2>1, <2>2
  <2>4. r \in Due(log, Cutoff) => r \in log /\ TooOld(r, Cutoff)
    BY <1>4 DEF Due, TooOld, Authored
  <2> QED BY <1>2, <1>4, <2>1, <2>3, <2>4 DEF Recorded
<1>5. Cutting' => \A n \in Nodes \ prune'.raising : prune'.upto[n] <= floor'[n]
  BY <1>1 DEF Recorded
<1>6. prune'.stage = "unattributed" => prune'.raising = {}
  BY DEF Recorded, Cutting
<1>7. Due(log, Cutoff)' = Due(log', Cutoff')
  BY DEF Due, TooOld, Authored, Newest
<1> QED BY <1>3, <1>4, <1>5, <1>6, <1>7 DEF Recorded, TooOld

-----------------------------------------------------------------------------
(***************************************************************************)
(* What a write does, whoever made it and whatever a prune is doing.       *)
(***************************************************************************)
LEMMA LogKeeps ==
    ASSUME Inv, NEW op \in Row,
           op.gesture # NoGesture => op.authored,
           \A r \in log : r.node = op.node => r.seq < op.seq,
           \A r \in whole \ slipped : r.node = op.node => r.seq <= op.seq,
           clock' = [clock EXCEPT ![op.node] = op.seq],
           given' = [given EXCEPT ![op.node] = Higher(@, op.seq)],
           Log(op),
           UNCHANGED <<floor, now, reading, restarts>>,
           Slips
    PROVE  Inv'
<1> USE DEF Inv
<1>1. op.node \in Nodes /\ op.seq \in 1..MaxWrites /\ op.seq \in 0..MaxWrites
  BY DEF Row
<1>2. /\ log' = (log \ Replaced(op)) \cup {op}
      /\ whole' = (whole \ Replaced(op)) \cup {op}
      /\ log' \subseteq whole'
      /\ \A r, s \in whole' : r.node = s.node /\ r.seq = s.seq => r = s
      /\ whole' \subseteq Row
  BY BothAppend
<1>3. slipped' \subseteq whole' /\ slipped \cap whole' \subseteq slipped'
  BY <1>2, SlipsAre
<1>4. /\ prune'.upto = prune.upto /\ prune'.raising = prune.raising
      /\ prune' \in [stage : {"none", "record", "raise", "unattributed"},
                     upto : [Nodes -> 0..MaxWrites], raising : SUBSET Nodes]
      /\ Cutting' => prune'.stage = prune.stage
  BY DEF Log, Asked, TypeOK, Cutting
<1>5. /\ clock' \in [Nodes -> 0..MaxWrites]
      /\ clock'[op.node] = op.seq
      /\ \A n \in Nodes : n # op.node => clock'[n] = clock[n]
  BY <1>1 DEF TypeOK
<1>6. /\ given' \in [Nodes -> 0..MaxWrites]
      /\ given'[op.node] >= op.seq
      /\ \A n \in Nodes : given'[n] >= given[n]
  <2>1. /\ given \in [Nodes -> 0..MaxWrites] /\ given[op.node] \in 0..MaxWrites
        /\ op.seq \in Int /\ given[op.node] \in Int
    BY <1>1, BoundsAssumption DEF TypeOK
  <2>2. /\ Higher(given[op.node], op.seq) \in 0..MaxWrites
        /\ Higher(given[op.node], op.seq) >= op.seq
        /\ Higher(given[op.node], op.seq) >= given[op.node]
    BY <1>1, <2>1, HigherBounds
  <2> PICK h : h = Higher(given[op.node], op.seq)
    OBVIOUS
  <2>3. given' = [given EXCEPT ![op.node] = h]
    OBVIOUS
  <2>4. \A n \in Nodes : given[n] \in Int /\ given[n] >= given[n]
    BY <2>1, BoundsAssumption
  <2> QED BY <1>1, <2>1, <2>2, <2>3, <2>4
<1>7. \A r \in log' : r.seq <= clock'[r.node]
  <2> SUFFICES ASSUME NEW r \in log' PROVE r.seq <= clock'[r.node]
    OBVIOUS
  <2>1. r \in Row /\ r.node \in Nodes /\ r.seq \in Int
    BY <1>2 DEF Row
  <2>2. CASE r = op
    BY <1>1, <1>5, <2>2
  <2>3. CASE r \in log
    BY <1>1, <1>5, <2>1, <2>3 DEF TypeOK
  <2> QED BY <1>2, <2>2, <2>3
<1>8. TypeOK'
  <2>1. appends' \in 0..Between
    BY RetentionAssumption DEF Log, TypeOK
  <2> QED BY <1>2, <1>3, <1>4, <1>5, <1>6, <1>7, <2>1 DEF TypeOK
<1>9. Numbered'
  <2> SUFFICES ASSUME NEW r \in whole' PROVE r.seq <= given'[r.node]
    BY DEF Numbered
  <2>1. CASE r = op
    BY <1>1, <1>6, <2>1
  <2>2. CASE r \in whole
    <3>1. r \in Row /\ r.seq <= given[r.node]
      BY <2>2 DEF Numbered, TypeOK
    <3>2. r.node \in Nodes /\ r.seq \in Int /\ given[r.node] \in Int /\ given'[r.node] \in Int
      BY <1>6, <3>1 DEF Row, TypeOK
    <3> QED BY <1>6, <3>1, <3>2
  <2> QED BY <1>2, <2>1, <2>2
<1>10. GesturesAreAuthored'
  BY <1>2 DEF GesturesAreAuthored
<1>11. FloorCoversCut'
  BY <1>2, <1>3 DEF FloorCoversCut
<1>12. Recorded'
  BY <1>2, <1>4, RecordedOn
<1>13. CountsOn'
  <2> SUFFICES ASSUME NEW r \in whole', r \notin slipped' PROVE r.seq <= clock'[r.node]
    BY DEF CountsOn
  <2>1. CASE r = op
    BY <1>1, <1>5, <2>1
  <2>2. CASE r # op
    <3>1. r \in whole /\ r \notin slipped /\ r \in Row
      BY <1>2, <1>3, <2>2
    <3>2. r.seq <= clock[r.node] /\ r.node \in Nodes
      BY <3>1 DEF CountsOn, Row
    <3> QED BY <1>5, <3>1, <3>2
  <2> QED BY <2>1, <2>2
<1> QED BY <1>8, <1>9, <1>10, <1>11, <1>12, <1>13 DEF Counters

(***************************************************************************)
(* The number a write of either station is given.                          *)
(***************************************************************************)
LEMMA Counting ==
    ASSUME Inv, NEW n \in Nodes, NEW seq, Counts(n, seq),
           seq = IF n = Here THEN clock[Here] + 1 ELSE given[Peer] + 1
    PROVE  /\ seq \in 1..MaxWrites
           /\ \A r \in log : r.node = n => r.seq < seq
           /\ \A r \in whole \ slipped : r.node = n => r.seq <= seq
<1> USE DEF Inv
<1>1. /\ clock[Here] \in 0..MaxWrites /\ given[Peer] \in 0..MaxWrites /\ MaxWrites \in Int
      /\ clock[Here] + given[Peer] < MaxWrites
  BY BoundsAssumption DEF TypeOK, Nodes, Counts
<1>2. seq \in 1..MaxWrites
  BY <1>1
<1>3. \A r \in whole : r.seq \in Int /\ r.seq <= given[r.node] /\ (r \notin slipped => r.seq <= clock[r.node])
  BY DEF TypeOK, Row, Numbered, CountsOn
<1>4. \A r \in log : r \in whole /\ r.seq <= clock[r.node]
  BY DEF TypeOK
<1>5. CASE n = Here
  BY <1>1, <1>2, <1>3, <1>4, <1>5
<1>6. CASE n # Here
  <2>1. n = Peer /\ seq = given[Peer] + 1
    BY <1>6 DEF Nodes
  <2> QED BY <1>1, <1>2, <1>3, <1>4, <2>1
<1> QED BY <1>5, <1>6

LEMMA WriteIs ==
    ASSUME Inv, NEW kind \in Kinds, Write(kind)
    PROVE  LET op == Op(Here, clock[Here] + 1, kind, now)
           IN  /\ op \in Row /\ op.node = Here /\ op.seq = clock[Here] + 1 /\ op.time = now
               /\ op.gesture # NoGesture => op.authored
               /\ \A r \in log : r.node = Here => r.seq < op.seq
               /\ \A r \in whole \ slipped : r.node = Here => r.seq <= op.seq
<1> PICK seq : seq = clock[Here] + 1
  OBVIOUS
<1>1. Here \in Nodes /\ Counts(Here, seq)
  BY DEF Nodes, Write
<1>2. /\ seq \in 1..MaxWrites
      /\ \A r \in log : r.node = Here => r.seq < seq
      /\ \A r \in whole \ slipped : r.node = Here => r.seq <= seq
  BY <1>1, Counting
<1>3. now \in 0..MaxTime
  BY DEF Inv, Counters
<1>4. /\ Op(Here, seq, kind, now) \in Row
      /\ Op(Here, seq, kind, now).node = Here
      /\ Op(Here, seq, kind, now).seq = seq
      /\ Op(Here, seq, kind, now).time = now
      /\ Op(Here, seq, kind, now).gesture # NoGesture => Op(Here, seq, kind, now).authored
  BY <1>1, <1>2, <1>3, KindsAssumption DEF Op, Row
<1> QED BY <1>2, <1>4

LEMMA WriteKeeps ==
    ASSUME Inv, NEW kind \in Kinds, Write(kind)
    PROVE  Inv'
<1> PICK op : op = Op(Here, clock[Here] + 1, kind, now)
  OBVIOUS
<1>1. /\ op \in Row /\ op.node = Here /\ op.seq = clock[Here] + 1
      /\ op.gesture # NoGesture => op.authored
      /\ \A r \in log : r.node = Here => r.seq < op.seq
      /\ \A r \in whole \ slipped : r.node = Here => r.seq <= op.seq
  BY WriteIs
<1>2. /\ clock' = [clock EXCEPT ![Here] = clock[Here] + 1]
      /\ given' = [given EXCEPT ![Here] = Higher(@, clock[Here] + 1)]
      /\ Log(op) /\ UNCHANGED <<floor, now, reading, restarts>> /\ Slips
  BY DEF Write, Counts
<1> QED BY <1>1, <1>2, LogKeeps

(***************************************************************************)
(* A number that no row is written with.                                   *)
(***************************************************************************)
LEMMA NumberKeeps ==
    ASSUME Inv, NEW n \in Nodes, NEW seq \in 1..MaxWrites, Counts(n, seq),
           \A r \in log : r.node = n => r.seq < seq,
           \A r \in whole \ slipped : r.node = n => r.seq <= seq,
           UNCHANGED <<log, whole, slipped, appends, prune, floor, now, reading, restarts>>
    PROVE  Inv'
<1> USE DEF Inv
<1>1. /\ clock' \in [Nodes -> 0..MaxWrites]
      /\ clock'[n] = seq
      /\ \A m \in Nodes : m # n => clock'[m] = clock[m]
  BY DEF TypeOK, Counts
<1>2. given' \in [Nodes -> 0..MaxWrites] /\ \A m \in Nodes : given'[m] >= given[m]
  <2>1. given \in [Nodes -> 0..MaxWrites] /\ given[n] \in 0..MaxWrites /\ given[n] \in Int /\ seq \in Int
    BY BoundsAssumption DEF TypeOK
  <2>2. Higher(given[n], seq) \in 0..MaxWrites /\ Higher(given[n], seq) >= given[n]
    BY <2>1, HigherBounds
  <2> PICK h : h = Higher(given[n], seq)
    OBVIOUS
  <2>3. given' = [given EXCEPT ![n] = h]
    BY DEF Counts
  <2>4. \A m \in Nodes : given[m] \in Int /\ given[m] >= given[m]
    BY <2>1, BoundsAssumption
  <2> QED BY <2>1, <2>2, <2>3, <2>4
<1>3. \A r \in whole : r.node \in Nodes /\ r.seq \in Int
  BY DEF TypeOK, Row
<1>4. TypeOK'
  <2>1. \A r \in log : r.seq <= clock'[r.node]
    BY <1>1, <1>3 DEF TypeOK
  <2> QED BY <1>1, <1>2, <2>1 DEF TypeOK
<1>5. Numbered'
  <2> SUFFICES ASSUME NEW r \in whole PROVE r.seq <= given'[r.node]
    BY DEF Numbered
  <2>1. r.seq <= given[r.node] /\ given[r.node] \in Int /\ given'[r.node] \in Int
    BY <1>2, <1>3 DEF Numbered, TypeOK
  <2> QED BY <1>2, <1>3, <2>1
<1>6. CountsOn'
  BY <1>1, <1>3 DEF CountsOn
<1>7. Recorded'
  BY DEF Recorded, Due, TooOld, Authored, Newest, Cutoff, Cutting
<1> QED BY <1>4, <1>5, <1>6, <1>7 DEF Counters, GesturesAreAuthored, FloorCoversCut

LEMMA CallKeeps ==
    ASSUME Inv, Call
    PROVE  Inv'
<1> PICK seq : seq = clock[Here] + 1
  OBVIOUS
<1>1. /\ Here \in Nodes /\ Counts(Here, seq)
      /\ UNCHANGED <<log, whole, slipped, appends, prune, floor, now, reading, restarts>>
  BY DEF Nodes, Call
<1>2. /\ seq \in 1..MaxWrites
      /\ \A r \in log : r.node = Here => r.seq < seq
      /\ \A r \in whole \ slipped : r.node = Here => r.seq <= seq
  BY <1>1, Counting
<1> QED BY <1>1, <1>2, NumberKeeps

LEMMA HearIs ==
    ASSUME Inv, NEW kind \in Kinds, NEW time \in 0..MaxTime, NEW superseded \in BOOLEAN,
           Hear(kind, time, superseded)
    PROVE  LET op == Op(Peer, given[Peer] + 1, kind, time)
           IN  /\ op \in Row /\ op.node = Peer /\ op.seq = given[Peer] + 1 /\ op.time = time
               /\ op.gesture # NoGesture => op.authored
               /\ \A r \in log : r.node = Peer => r.seq < op.seq
               /\ \A r \in whole \ slipped : r.node = Peer => r.seq <= op.seq
<1> PICK seq : seq = given[Peer] + 1
  OBVIOUS
<1>1. Peer \in Nodes /\ Peer # Here /\ Counts(Peer, seq)
  BY NodesAssumption DEF Nodes, Hear
<1>2. /\ seq \in 1..MaxWrites
      /\ \A r \in log : r.node = Peer => r.seq < seq
      /\ \A r \in whole \ slipped : r.node = Peer => r.seq <= seq
  BY <1>1, Counting
<1>3. /\ Op(Peer, seq, kind, time) \in Row
      /\ Op(Peer, seq, kind, time).node = Peer
      /\ Op(Peer, seq, kind, time).seq = seq
      /\ Op(Peer, seq, kind, time).time = time
      /\ Op(Peer, seq, kind, time).gesture # NoGesture => Op(Peer, seq, kind, time).authored
  BY <1>1, <1>2, KindsAssumption DEF Op, Row
<1> QED BY <1>2, <1>3

LEMMA HearKeeps ==
    ASSUME Inv, NEW kind \in Kinds, NEW time \in 0..MaxTime, NEW superseded \in BOOLEAN,
           Hear(kind, time, superseded)
    PROVE  Inv'
<1> PICK op : op = Op(Peer, given[Peer] + 1, kind, time)
  OBVIOUS
<1>1. /\ op \in Row /\ op.node = Peer /\ op.seq = given[Peer] + 1
      /\ op.gesture # NoGesture => op.authored
      /\ \A r \in log : r.node = Peer => r.seq < op.seq
      /\ \A r \in whole \ slipped : r.node = Peer => r.seq <= op.seq
  BY HearIs
<1>2. /\ Counts(Peer, op.seq) /\ UNCHANGED <<floor, now, reading, restarts>> /\ Slips
  BY <1>1 DEF Hear
<1>3. CASE superseded
  <2>1. UNCHANGED <<log, whole, appends, prune>>
    BY <1>3 DEF Hear
  <2>2. Due(log, Cutoff)' = Due(log, Cutoff)
    BY <1>2, <2>1 DEF Due, TooOld, Authored, Newest, Cutoff
  <2>3. UNCHANGED slipped
    BY <1>2, <2>1, <2>2 DEF Slips, Inv, TypeOK
  <2>4. Peer \in Nodes /\ op.seq \in 1..MaxWrites
    BY <1>1 DEF Nodes, Row
  <2> QED BY <1>1, <1>2, <2>1, <2>3, <2>4, NumberKeeps
<1>4. CASE ~superseded
  <2>1. Log(op)
    BY <1>4 DEF Hear
  <2>2. /\ clock' = [clock EXCEPT ![op.node] = op.seq]
        /\ given' = [given EXCEPT ![op.node] = Higher(@, op.seq)]
    BY <1>1, <1>2 DEF Counts
  <2> QED BY <1>1, <1>2, <2>1, <2>2, LogKeeps
<1> QED BY <1>3, <1>4

-----------------------------------------------------------------------------
(***************************************************************************)
(* The statements of a prune.                                              *)
(***************************************************************************)
LEMMA RecordKeeps ==
    ASSUME Inv, Record
    PROVE  Inv'
<1> PICK upto : upto = [n \in Nodes |-> High(Due(log, Cutoff), n)]
  OBVIOUS
<1>1. /\ prune' = [stage |-> "raise", upto |-> upto, raising |-> {n \in Nodes : upto[n] > 0}]
      /\ slipped' = slipped \ log
      /\ UNCHANGED <<clock, log, floor, now, appends, reading, given, whole, restarts>>
  BY DEF Record
<1>2. Due(log, Cutoff) \in SUBSET Row /\ Due(log, Cutoff) \subseteq log
  BY DEF Due, Authored, Inv, TypeOK
<1>3. \A n \in Nodes : /\ High(Due(log, Cutoff), n) \in 0..MaxWrites
                      /\ \A r \in Due(log, Cutoff) : r.node = n => r.seq <= High(Due(log, Cutoff), n)
  BY <1>2, HighBounds
<1>4. upto \in [Nodes -> 0..MaxWrites] /\ \A r \in Due(log, Cutoff) : r.seq <= upto[r.node]
  BY <1>2, <1>3 DEF Row
<1>5. TypeOK'
  BY <1>1, <1>4 DEF Inv, TypeOK
<1>6. Recorded'
  <2>1. prune'.stage = "raise" /\ prune'.upto = upto
        /\ prune'.raising = {n \in Nodes : upto[n] > 0}
    BY <1>1
  <2>2. Due(log, Cutoff)' = Due(log, Cutoff)
    BY <1>1 DEF Due, TooOld, Authored, Newest, Cutoff
  <2>3. \A n \in Nodes \ prune'.raising : prune'.upto[n] <= floor'[n]
    <3> SUFFICES ASSUME NEW n \in Nodes, ~(upto[n] > 0) PROVE upto[n] <= floor[n]
      BY <1>1, <2>1
    <3>1. upto[n] \in 0..MaxWrites /\ floor[n] \in 0..MaxWrites
      BY <1>4 DEF Inv, TypeOK
    <3> QED BY <3>1, BoundsAssumption
  <2> QED BY <1>4, <2>1, <2>2, <2>3 DEF Recorded
<1>7. FloorCoversCut'
  BY <1>1 DEF Inv, FloorCoversCut
<1>8. CountsOn'
  BY <1>1 DEF Inv, TypeOK, CountsOn
<1> QED BY <1>1, <1>5, <1>6, <1>7, <1>8 DEF Inv, Counters, Numbered, GesturesAreAuthored

LEMMA RaiseKeeps ==
    ASSUME Inv, NEW n \in Nodes, Raise(n)
    PROVE  Inv'
<1>1. /\ prune.stage = "raise" /\ n \in prune.raising
      /\ prune' = [prune EXCEPT !.raising = @ \ {n}]
      /\ floor' = [floor EXCEPT ![n] = Higher(floor[n], prune.upto[n])]
      /\ UNCHANGED <<clock, log, now, appends, reading, given, whole, slipped, restarts>>
  BY DEF Raise
<1>2. \A m \in Nodes : floor[m] \in 0..MaxWrites /\ floor[m] \in Int /\ prune.upto[m] \in 0..MaxWrites
                       /\ prune.upto[m] \in Int
  BY BoundsAssumption DEF Inv, TypeOK
<1>3. /\ floor' \in [Nodes -> 0..MaxWrites]
      /\ floor'[n] >= prune.upto[n]
      /\ \A m \in Nodes : floor'[m] >= floor[m]
  <2>1. /\ Higher(floor[n], prune.upto[n]) \in 0..MaxWrites
        /\ Higher(floor[n], prune.upto[n]) >= floor[n]
        /\ Higher(floor[n], prune.upto[n]) >= prune.upto[n]
    BY <1>2, HigherBounds
  <2> PICK h : h = Higher(floor[n], prune.upto[n])
    OBVIOUS
  <2>2. floor \in [Nodes -> 0..MaxWrites] /\ floor' = [floor EXCEPT ![n] = h]
    BY <1>1 DEF Inv, TypeOK
  <2> QED BY <1>2, <2>1, <2>2
<1>4. /\ prune' \in [stage : {"none", "record", "raise", "unattributed"},
                     upto : [Nodes -> 0..MaxWrites], raising : SUBSET Nodes]
      /\ prune'.upto = prune.upto /\ prune'.stage = "raise" /\ prune'.raising = prune.raising \ {n}
  BY <1>1 DEF Inv, TypeOK
<1>5. TypeOK'
  BY <1>1, <1>3, <1>4 DEF Inv, TypeOK
<1>6. FloorCoversCut'
  <2> SUFFICES ASSUME NEW r \in whole \ log, r \notin slipped PROVE r.seq <= floor'[r.node]
    BY <1>1 DEF FloorCoversCut
  <2>1. r \in Row /\ r.seq <= floor[r.node]
    BY DEF Inv, TypeOK, FloorCoversCut
  <2>2. r.node \in Nodes /\ r.seq \in Int /\ floor'[r.node] \in Int
    BY <1>3, <2>1 DEF Row
  <2> QED BY <1>2, <1>3, <2>1, <2>2
<1>7. Recorded'
  <2>1. Cutting /\ Due(log, Cutoff)' = Due(log, Cutoff)
    BY <1>1 DEF Cutting, Due, TooOld, Authored, Newest, Cutoff
  <2>2. \A m \in Nodes \ prune'.raising : prune'.upto[m] <= floor'[m]
    <3> SUFFICES ASSUME NEW m \in Nodes, m \notin prune'.raising PROVE prune.upto[m] <= floor'[m]
      BY <1>4
    <3>1. floor'[m] \in Int
      BY <1>3
    <3>2. CASE m = n
      BY <1>3, <3>2
    <3>3. CASE m # n
      <4>1. prune.upto[m] <= floor[m]
        BY <1>4, <2>1, <3>3 DEF Inv, Recorded
      <4> QED BY <1>2, <1>3, <3>1, <4>1
    <3> QED BY <3>2, <3>3
  <2> QED BY <1>1, <1>4, <2>1, <2>2 DEF Inv, Recorded
<1> QED BY <1>1, <1>5, <1>6, <1>7 DEF Inv, Counters, Numbered, GesturesAreAuthored, CountsOn

(***************************************************************************)
(* What both deletes have in common: only rows go, and those that go are   *)
(* below the floor or have slipped.                                        *)
(***************************************************************************)
LEMMA CutKeeps ==
    ASSUME Inv, log' \subseteq log,
           \A r \in log \ log' : r.seq <= floor[r.node] \/ r \in slipped,
           prune' \in [stage : {"none", "unattributed"}, upto : [Nodes -> 0..MaxWrites],
                       raising : SUBSET Nodes],
           UNCHANGED <<clock, floor, now, appends, reading, given, whole, slipped, restarts>>
    PROVE  /\ TypeOK' /\ Counters' /\ Numbered' /\ GesturesAreAuthored'
           /\ FloorCoversCut' /\ CountsOn'
<1>1. TypeOK'
  BY DEF Inv, TypeOK
<1>2. FloorCoversCut'
  BY DEF Inv, FloorCoversCut
<1> QED BY <1>1, <1>2 DEF Inv, Counters, Numbered, GesturesAreAuthored, CountsOn

LEMMA CutAuthoredKeeps ==
    ASSUME Inv, CutAuthored
    PROVE  Inv'
<1>1. /\ prune.stage = "raise" /\ prune.raising = {}
      /\ prune' = [prune EXCEPT !.stage = "unattributed"]
      /\ log' = {r \in log : r.authored => r \in Newest(log)}
      /\ UNCHANGED <<clock, floor, now, appends, reading, given, whole, slipped, restarts>>
  BY DEF CutAuthored
<1>2. /\ prune' \in [stage : {"none", "unattributed"}, upto : [Nodes -> 0..MaxWrites],
                     raising : SUBSET Nodes]
      /\ prune'.upto = prune.upto /\ prune'.stage = "unattributed" /\ prune'.raising = {}
  BY <1>1 DEF Inv, TypeOK
<1>3. \A n \in Nodes : prune.upto[n] <= floor[n] /\ prune.upto[n] \in Int /\ floor[n] \in Int
  BY <1>1 DEF Inv, TypeOK, Recorded, Cutting
<1>4. \A r \in log \ log' : r.seq <= floor[r.node] \/ r \in slipped
  <2> SUFFICES ASSUME NEW r \in log, r \notin log', r \notin slipped PROVE r.seq <= floor[r.node]
    OBVIOUS
  <2>1. r \in Due(log, Cutoff)
    BY <1>1 DEF Authored, Due
  <2>2. r.seq <= prune.upto[r.node]
    BY <1>1, <2>1 DEF Inv, Recorded
  <2>3. r.node \in Nodes /\ r.seq \in Int
    BY DEF Inv, TypeOK, Row
  <2> QED BY <1>3, <2>2, <2>3
<1>5. Recorded'
  <2>1. Cutting /\ Cutoff' = Cutoff
    BY <1>1 DEF Cutting, Cutoff
  <2>2. \A r \in log' : TooOld(r, Cutoff') => r.seq <= prune'.upto[r.node] \/ r \in slipped'
    BY <1>1, <1>2, <2>1 DEF Inv, Recorded, Due
  <2>3. \A n \in Nodes : prune'.upto[n] <= floor'[n]
    BY <1>1, <1>2, <1>3
  <2> QED BY <1>2, <2>2, <2>3 DEF Recorded, TooOld
<1> QED BY <1>1, <1>2, <1>4, <1>5, CutKeeps DEF Inv

LEMMA CutUnattributedKeeps ==
    ASSUME Inv, CutUnattributed
    PROVE  Inv'
<1>1. /\ prune.stage = "unattributed" /\ prune' = NotPruning
      /\ log' = {r \in log : ~TooOld(r, Cutoff)}
      /\ UNCHANGED <<clock, floor, now, appends, reading, given, whole, slipped, restarts>>
  BY DEF CutUnattributed
<1>2. /\ prune' \in [stage : {"none", "unattributed"}, upto : [Nodes -> 0..MaxWrites],
                     raising : SUBSET Nodes]
      /\ prune'.stage = "none"
  BY <1>1, BoundsAssumption DEF NotPruning, Nothing
<1>3. \A n \in Nodes : prune.upto[n] <= floor[n] /\ prune.upto[n] \in Int /\ floor[n] \in Int
  BY <1>1 DEF Inv, TypeOK, Recorded, Cutting
<1>4. \A r \in log \ log' : r.seq <= floor[r.node] \/ r \in slipped
  <2> SUFFICES ASSUME NEW r \in log, r \notin log', r \notin slipped PROVE r.seq <= floor[r.node]
    OBVIOUS
  <2>1. r.seq <= prune.upto[r.node]
    BY <1>1 DEF Inv, Recorded
  <2>2. r.node \in Nodes /\ r.seq \in Int
    BY DEF Inv, TypeOK, Row
  <2> QED BY <1>3, <2>1, <2>2
<1>5. Recorded'
  BY <1>2 DEF Recorded, Cutting
<1> QED BY <1>1, <1>2, <1>4, <1>5, CutKeeps DEF Inv

-----------------------------------------------------------------------------
(***************************************************************************)
(* The rest: readers, the clock on the wall, and a restart.                *)
(***************************************************************************)
LEMMA ReadingKeeps ==
    ASSUME Inv,
           reading' \in [stage : {"idle", "since"}, known : [Nodes -> 0..MaxWrites],
                         floor : [Nodes -> 0..MaxWrites]],
           UNCHANGED <<clock, log, floor, now, appends, prune, given, whole, slipped, restarts>>
    PROVE  Inv'
<1>1. TypeOK'
  BY DEF Inv, TypeOK
<1>2. Recorded'
  BY DEF Inv, Recorded, Cutting, Cutoff, Due, TooOld, Authored, Newest
<1> QED BY <1>1, <1>2
    DEF Inv, Counters, Numbered, GesturesAreAuthored, FloorCoversCut, CountsOn

LEMMA LaterKeeps ==
    ASSUME Inv, Later
    PROVE  Inv'
<1>1. /\ now < MaxTime /\ now' = now + 1 /\ Slips
      /\ UNCHANGED <<clock, log, floor, appends, prune, reading, given, whole, restarts>>
  BY DEF Later
<1>2. log' \subseteq whole'
  BY <1>1 DEF Inv, TypeOK
<1>3. slipped' \subseteq whole' /\ slipped \cap whole' \subseteq slipped'
  BY <1>1, <1>2, SlipsAre
<1>4. Recorded'
  BY <1>1, <1>2, RecordedOn
<1>5. Counters' /\ TypeOK'
  BY <1>1, <1>3, BoundsAssumption DEF Inv, TypeOK, Counters
<1>6. FloorCoversCut' /\ CountsOn'
  BY <1>1, <1>3 DEF Inv, TypeOK, FloorCoversCut, CountsOn
<1> QED BY <1>1, <1>4, <1>5, <1>6 DEF Inv, Numbered, GesturesAreAuthored

(***************************************************************************)
(* A restart finds every number there is, in a row or below the floor.     *)
(***************************************************************************)
LEMMA RestartKeeps ==
    ASSUME Inv, Restart
    PROVE  Inv'
<1>1. /\ restarts' = restarts + 1 /\ clock' = Reopened /\ appends' = 0
      /\ prune' = [NotPruning EXCEPT !.stage = "record"] /\ reading' = NotReading
      /\ UNCHANGED <<log, floor, now, given, whole, slipped>>
  BY DEF Restart
<1>2. log \in SUBSET Row
  BY DEF Inv, TypeOK
<1>3. \A n \in Nodes : /\ clock'[n] \in 0..MaxWrites /\ clock'[n] >= floor[n]
                      /\ floor[n] \in Int
                      /\ \A r \in log : r.node = n => r.seq <= clock'[n]
  <2> SUFFICES ASSUME NEW n \in Nodes
               PROVE  /\ clock'[n] \in 0..MaxWrites /\ clock'[n] >= floor[n]
                      /\ floor[n] \in Int
                      /\ \A r \in log : r.node = n => r.seq <= clock'[n]
    OBVIOUS
  <2>1. floor[n] \in 0..MaxWrites /\ clock'[n] = Higher(High(log, n), floor[n])
    BY <1>1 DEF Reopened, Inv, TypeOK
  <2>2. /\ High(log, n) \in 0..MaxWrites
        /\ \A r \in log : r.node = n => r.seq <= High(log, n)
    BY <1>2, HighBounds
  <2>3. \A r \in log : r.seq \in Int
    BY <1>2 DEF Row
  <2> HIDE DEF High
  <2> QED BY <2>1, <2>2, <2>3, HigherBounds, BoundsAssumption
<1>4. \A r \in whole : r.node \in Nodes /\ r.seq \in Int
  BY DEF Inv, TypeOK, Row
<1>5. CountsOn'
  <2> SUFFICES ASSUME NEW r \in whole, r \notin slipped PROVE r.seq <= clock'[r.node]
    BY <1>1 DEF CountsOn
  <2>1. CASE r \in log
    BY <1>3, <1>4, <2>1
  <2>2. CASE r \notin log
    BY <1>3, <1>4, <2>2 DEF Inv, FloorCoversCut
  <2> QED BY <2>1, <2>2
<1>6. TypeOK'
  <2>1. clock' \in [Nodes -> 0..MaxWrites]
    BY <1>1, <1>3 DEF Reopened
  <2>2. \A r \in log : r.seq <= clock'[r.node]
    BY <1>3, <1>4 DEF Inv, TypeOK
  <2>3. Nothing \in [Nodes -> 0..MaxWrites] /\ 0 \in 0..Between
    BY BoundsAssumption, RetentionAssumption DEF Nothing
  <2> QED BY <1>1, <2>1, <2>2, <2>3 DEF Inv, TypeOK, NotPruning, NotReading
<1>7. Recorded'
  BY <1>1 DEF Recorded, Cutting, NotPruning
<1> QED BY <1>1, <1>5, <1>6, <1>7
    DEF Inv, Counters, Numbered, GesturesAreAuthored, FloorCoversCut

LEMMA InitHolds ==
    ASSUME Init
    PROVE  Inv
<1>1. Nothing \in [Nodes -> 0..MaxWrites] /\ 0 \in 0..MaxWrites /\ 0 \in 0..MaxTime /\ 0 \in 0..Between
  BY BoundsAssumption, RetentionAssumption DEF Nothing
<1>2. TypeOK
  BY <1>1 DEF Init, TypeOK, NotPruning, NotReading
<1>3. Recorded
  BY DEF Init, Recorded, Cutting, NotPruning
<1> QED BY <1>1, <1>2, <1>3
    DEF Init, Inv, Counters, Numbered, GesturesAreAuthored, FloorCoversCut, CountsOn

LEMMA NextKeeps ==
    ASSUME Inv, [Next]_vars
    PROVE  Inv'
<1>1. Nothing \in [Nodes -> 0..MaxWrites]
  BY BoundsAssumption DEF Nothing
<1>2. CASE \E kind \in Kinds : Write(kind)
  BY <1>2, WriteKeeps
<1>3. CASE Call
  BY <1>3, CallKeeps
<1>4. CASE \E kind \in Kinds, time \in 0..MaxTime, superseded \in BOOLEAN :
               Hear(kind, time, superseded)
  BY <1>4, HearKeeps
<1>5. CASE \E known \in Known : ReadFloor(known)
  <2>1. floor \in [Nodes -> 0..MaxWrites]
    BY DEF Inv, TypeOK
  <2> QED BY <1>5, <2>1, ReadingKeeps DEF ReadFloor, Known
<1>6. CASE ReadRows
  BY <1>1, <1>6, ReadingKeeps DEF ReadRows, NotReading
<1>7. CASE Record
  BY <1>7, RecordKeeps
<1>8. CASE \E n \in Nodes : Raise(n)
  BY <1>8, RaiseKeeps
<1>9. CASE CutAuthored
  BY <1>9, CutAuthoredKeeps
<1>10. CASE CutUnattributed
  BY <1>10, CutUnattributedKeeps
<1>11. CASE Later
  BY <1>11, LaterKeeps
<1>12. CASE Restart
  BY <1>12, RestartKeeps
<1>13. CASE UNCHANGED vars
  <2>1. reading' \in [stage : {"idle", "since"}, known : [Nodes -> 0..MaxWrites],
                      floor : [Nodes -> 0..MaxWrites]]
    BY <1>13 DEF vars, Inv, TypeOK
  <2> QED BY <1>13, <2>1, ReadingKeeps DEF vars
<1> QED BY <1>2, <1>3, <1>4, <1>5, <1>6, <1>7, <1>8, <1>9, <1>10, <1>11, <1>12, <1>13 DEF Next

-----------------------------------------------------------------------------
(***************************************************************************)
(* A peer that is answered from the log was not behind the floor as it was *)
(* when it was read.                                                       *)
(***************************************************************************)
PastTheFloor ==
    reading.stage = "since" => \A n \in Nodes : reading.floor[n] <= reading.known[n]

LEMMA NextKeepsPastTheFloor ==
    ASSUME Inv, PastTheFloor, [Next]_vars
    PROVE  PastTheFloor'
<1>1. CASE UNCHANGED reading
  BY <1>1 DEF PastTheFloor
<1>2. CASE \E known \in Known : ReadFloor(known)
  <2>1. PICK known \in Known : ReadFloor(known)
    BY <1>2
  <2>2. \A n \in Nodes : ~(known[n] < floor[n]) /\ known[n] \in Int /\ floor[n] \in Int
    BY <2>1, BoundsAssumption DEF ReadFloor, BehindTheFloor, Known, Inv, TypeOK
  <2> QED BY <2>1, <2>2 DEF ReadFloor, PastTheFloor
<1>3. CASE ReadRows \/ Restart
  BY <1>3 DEF ReadRows, Restart, NotReading, PastTheFloor
<1> QED BY <1>1, <1>2, <1>3
    DEF Next, vars, Write, Call, Hear, Log, Record, Raise, CutAuthored, CutUnattributed, Later

-----------------------------------------------------------------------------
(***************************************************************************)
(* The newest changes somebody made.                                       *)
(***************************************************************************)
OneRowAGesture == \A r \in whole : SameGesture(whole, r) \subseteq {r}

NoneIsFromLater == \A r \in whole : r.node = Here => r.time <= now

History ==
    /\ IsFiniteSet(whole)
    /\ OneRowAGesture
    /\ NoneIsFromLater
    /\ HistoryKept

LEMMA NewerTransitive ==
    ASSUME NEW r \in Row, NEW s \in Row, NEW t \in Row, Newer(r, s), Newer(s, t)
    PROVE  Newer(r, t)
BY BoundsAssumption DEF Newer, Row

LEMMA NewerIrreflexive ==
    ASSUME NEW r \in Row
    PROVE  ~Newer(r, r)
BY BoundsAssumption DEF Newer, Row

\* The rows somebody authored that come before r.
Ahead(rows, r) == {s \in Authored(rows) : Newer(s, r)}

LEMMA AheadIsFinite ==
    ASSUME NEW rows, IsFiniteSet(rows), NEW r
    PROVE  IsFiniteSet(Ahead(rows, r)) /\ Cardinality(Ahead(rows, r)) \in Nat
<1>1. Ahead(rows, r) \subseteq rows
  BY DEF Ahead, Authored
<1> QED BY <1>1, FS_Subset, FS_CardinalityType

(***************************************************************************)
(* Rows that are not among the newest can go, and the newest are the same: *)
(* were a row to move up, the first of those that went from before it      *)
(* would have had fewer than Depth before itself.                          *)
(***************************************************************************)
LEMMA NewestWithout ==
    ASSUME NEW rows \in SUBSET Row, IsFiniteSet(rows), NEW out \in SUBSET rows,
           out \cap Newest(rows) = {}, NEW r \in Newest(rows \ out)
    PROVE  r \in Newest(rows)
<1>1. r \in Authored(rows) /\ r \in Row /\ Cardinality(Ahead(rows \ out, r)) < Depth
  BY DEF Newest, Authored, Ahead
<1>2. IsFiniteSet(rows \ out)
  BY FS_Subset
<1> SUFFICES ASSUME r \notin Newest(rows) PROVE FALSE
  OBVIOUS
<1>3. ~(Cardinality(Ahead(rows, r)) < Depth)
  BY <1>1 DEF Newest, Ahead
<1>4. Ahead(rows, r) \cap out # {}
  <2> SUFFICES ASSUME Ahead(rows, r) \cap out = {} PROVE FALSE
    OBVIOUS
  <2>1. Ahead(rows, r) = Ahead(rows \ out, r)
    BY DEF Ahead, Authored
  <2> QED BY <1>1, <1>3, <2>1
<1> DEFINE went == Ahead(rows, r) \cap out
           before == {Cardinality(Ahead(rows, d)) : d \in went}
<1>5. PICK d \in went : \A e \in went : ~(Cardinality(Ahead(rows, e)) < Cardinality(Ahead(rows, d)))
  <2>1. before \in SUBSET Nat /\ before # {}
    BY <1>4, AheadIsFinite
  <2> HIDE DEF before
  <2>2. PICK b \in before : \A c \in before : ~(<<c, b>> \in Before)
    BY <2>1, BeforeIsWellFounded, WFMin
  <2>3. \A c \in before : ~(c < b)
    BY <2>1, <2>2 DEF Before
  <2> QED BY <2>2, <2>3 DEF before
<1>6. d \in rows /\ d \in Row /\ d.authored /\ Newer(d, r) /\ d \in out
  BY <1>5 DEF Ahead, Authored
<1>7. ~(Cardinality(Ahead(rows, d)) < Depth)
  BY <1>6 DEF Newest, Authored, Ahead
<1>8. ASSUME NEW e \in Ahead(rows, d)
      PROVE  e \in Ahead(rows \ out, r)
  <2>1. e \in rows /\ e \in Row /\ e.authored /\ Newer(e, d)
    BY <1>8 DEF Ahead, Authored
  <2>2. Newer(e, r)
    BY <1>1, <1>6, <2>1, NewerTransitive
  <2>3. e \notin out
    <3> SUFFICES ASSUME e \in out PROVE FALSE
      OBVIOUS
    <3>1. e \in went
      BY <2>1, <2>2 DEF Ahead, Authored
    <3>2. \A t \in Ahead(rows, e) : t \in Ahead(rows, d)
      <4> SUFFICES ASSUME NEW t \in Ahead(rows, e) PROVE t \in Ahead(rows, d)
        OBVIOUS
      <4>1. t \in rows /\ t \in Row /\ t.authored /\ Newer(t, e)
        BY DEF Ahead, Authored
      <4>2. Newer(t, d)
        BY <1>6, <2>1, <4>1, NewerTransitive
      <4> QED BY <4>1, <4>2 DEF Ahead, Authored
    <3>3. e \notin Ahead(rows, e)
      BY <2>1, NewerIrreflexive DEF Ahead
    <3>4. Ahead(rows, e) \subseteq Ahead(rows, d) /\ Ahead(rows, e) # Ahead(rows, d)
      BY <1>8, <3>2, <3>3
    <3>5. Cardinality(Ahead(rows, e)) < Cardinality(Ahead(rows, d))
      BY <3>4, AheadIsFinite, FS_Subset
    <3> QED BY <1>5, <3>1, <3>5
  <2> QED BY <2>1, <2>2, <2>3 DEF Ahead, Authored
<1>9. Cardinality(Ahead(rows, d)) <= Cardinality(Ahead(rows \ out, r))
  <2>1. Ahead(rows, d) \subseteq Ahead(rows \ out, r)
    BY <1>8
  <2> QED BY <1>2, <2>1, AheadIsFinite, FS_Subset
<1>10. /\ Cardinality(Ahead(rows, d)) \in Int /\ Cardinality(Ahead(rows \ out, r)) \in Int
       /\ Depth \in Int
  BY <1>2, AheadIsFinite, RetentionAssumption
<1> QED BY <1>1, <1>7, <1>9, <1>10

(***************************************************************************)
(* A row that is among the newest with the write appended was so before:   *)
(* the write stands for the row it was folded into, which was older.       *)
(***************************************************************************)
LEMMA NewestWas ==
    ASSUME NEW rows \in SUBSET Row, NEW op \in Row, IsFiniteSet(rows), NEW folded \in SUBSET rows,
           \A s \in folded : Newer(op, s) /\ s.node = op.node /\ s.authored = op.authored,
           \A s, t \in folded : s = t, op \notin rows,
           NEW r \in Newest((rows \ folded) \cup {op}), r # op
    PROVE  r \in Newest(rows)
<1> DEFINE after == (rows \ folded) \cup {op}
           newer == {s \in Authored(rows) : Newer(s, r)}
           newerAfter == {s \in Authored(after) : Newer(s, r)}
<1>1. r \in rows /\ r.authored /\ r \in Row /\ r \notin folded
  BY DEF Newest, Authored
<1>2. Cardinality(newerAfter) < Depth
  BY DEF Newest
<1>3. IsFiniteSet(newer) /\ IsFiniteSet(newerAfter)
  <2>1. IsFiniteSet(after)
    <3>1. IsFiniteSet(rows \ folded)
      BY FS_Subset
    <3> QED BY <3>1, FS_AddElement
  <2>2. newer \subseteq rows /\ newerAfter \subseteq after
    BY DEF Authored
  <2> HIDE DEF newer, newerAfter, after
  <2> QED BY <2>1, <2>2, FS_Subset
<1>4. Cardinality(newer) <= Cardinality(newerAfter)
  <2>1. CASE newer \cap folded = {}
    <3>1. newer \subseteq newerAfter
      BY <2>1 DEF Authored
    <3> HIDE DEF newer, newerAfter
    <3> QED BY <1>3, <3>1, FS_Subset
  <2>2. CASE newer \cap folded # {}
    <3>1. PICK s \in folded : s \in newer
      BY <2>2
    <3>2. s \in Row /\ s.authored /\ Newer(s, r)
      BY <3>1 DEF Authored
    <3>3. op \in newerAfter
      BY <1>1, <3>1, <3>2, NewerTransitive DEF Authored
    <3>4. newer \ {s} \subseteq newerAfter \ {op}
      BY <3>1 DEF Authored
    <3> HIDE DEF newer, newerAfter
    <3>5. /\ IsFiniteSet(newer \ {s}) /\ Cardinality(newer \ {s}) = Cardinality(newer) - 1
          /\ IsFiniteSet(newerAfter \ {op})
          /\ Cardinality(newerAfter \ {op}) = Cardinality(newerAfter) - 1
      BY <1>3, <3>1, <3>3, FS_RemoveElement
    <3>6. Cardinality(newer \ {s}) <= Cardinality(newerAfter \ {op})
      BY <3>4, <3>5, FS_Subset
    <3> QED BY <1>3, <3>5, <3>6, FS_CardinalityType
  <2> QED BY <2>1, <2>2
<1>5. Cardinality(newer) < Depth
  <2> HIDE DEF newer, newerAfter
  <2> QED BY <1>2, <1>3, <1>4, FS_CardinalityType, RetentionAssumption
<1> QED BY <1>1, <1>5 DEF Newest, Authored

LEMMA LogKeepsHistory ==
    ASSUME Inv, History, NEW op \in Row, Log(op),
           op.gesture # NoGesture => op.authored,
           \A r \in log : r.node = op.node => r.seq < op.seq,
           \A r \in whole : r.node = op.node => r.time <= op.time,
           op.node = Here => op.time <= now, now' = now
    PROVE  History'
<1> DEFINE folded == SameGesture(log, op)
           out == Replaced(op) \ log
<1>1. whole \in SUBSET Row /\ log \subseteq whole
  BY DEF Inv, TypeOK
<1>2. /\ log' = (log \ Replaced(op)) \cup {op}
      /\ whole' = (whole \ Replaced(op)) \cup {op}
      /\ Replaced(op) \cap log = folded
  BY BothAppend DEF Inv
<1>3. Replaced(op) \subseteq whole
  BY DEF Replaced, SameGesture
<1>4. whole' = ((whole \ out) \ folded) \cup {op}
  BY <1>2, <1>3
<1>5. op \notin whole \ out
  <2>1. op \notin log
    BY DEF Row
  <2>2. op \in whole => op \in Replaced(op)
    BY DEF Replaced
  <2> QED BY <2>1, <2>2
<1>6. \A s \in folded : /\ s \in whole \ out /\ s.node = op.node /\ s.authored = op.authored
                       /\ Newer(op, s)
  <2> SUFFICES ASSUME NEW s \in folded
               PROVE  s \in whole \ out /\ s.authored = op.authored /\ Newer(op, s)
    BY DEF SameGesture
  <2>1. s \in log /\ s \in Row /\ s.node = op.node /\ s.seq < op.seq /\ s.time <= op.time
    BY <1>1 DEF SameGesture
  <2>2. s.authored /\ op.authored
    BY <1>1 DEF SameGesture, Inv, GesturesAreAuthored
  <2>3. s.authored = op.authored
    BY <2>1, <2>2 DEF Row
  <2> QED BY <1>1, <2>1, <2>3, BoundsAssumption DEF Newer, Row
<1>7. \A s, t \in folded : s = t
  BY <1>1 DEF SameGesture, History, OneRowAGesture
<1>8. IsFiniteSet(whole') /\ IsFiniteSet(whole \ out)
  <2>1. IsFiniteSet(whole \ Replaced(op)) /\ IsFiniteSet(whole \ out)
    BY FS_Subset DEF History
  <2> QED BY <1>2, <2>1, FS_AddElement
<1>9. OneRowAGesture'
  <2> SUFFICES ASSUME NEW r \in whole', NEW s \in whole', s \in SameGesture(whole', r)
               PROVE  s = r
    BY DEF OneRowAGesture, SameGesture
  <2>1. CASE r \in whole /\ s \in whole
    BY <2>1 DEF OneRowAGesture, SameGesture, History
  <2>2. CASE r = op \/ s = op
    BY <1>2, <2>2 DEF SameGesture, Replaced
  <2> QED BY <1>2, <2>1, <2>2
<1>10. NoneIsFromLater'
  BY <1>2 DEF History, NoneIsFromLater
<1>11. HistoryKept'
  <2> SUFFICES ASSUME NEW r \in Newest(whole'), r # op PROVE r \in log'
    BY <1>2 DEF HistoryKept, Newest, Authored
  <2>1. out \cap Newest(whole) = {} /\ out \in SUBSET whole
    BY <1>3 DEF History, HistoryKept
  <2>2. folded \in SUBSET (whole \ out) /\ whole \ out \in SUBSET Row
    BY <1>1, <1>6
  <2>3. r \in whole' /\ r \notin Replaced(op)
    BY <1>2 DEF Newest, Authored
  <2>4. r \in Newest(whole \ out)
    <3> HIDE DEF folded, out
    <3> QED BY <1>4, <1>5, <1>6, <1>7, <1>8, <2>2, NewestWas
  <2>5. r \in Newest(whole)
    <3> HIDE DEF out
    <3>1. IsFiniteSet(whole)
      BY DEF History
    <3> QED BY <1>1, <2>1, <2>4, <3>1, NewestWithout
  <2> QED BY <1>2, <2>3, <2>5 DEF History, HistoryKept
<1> QED BY <1>8, <1>9, <1>10, <1>11 DEF History

(***************************************************************************)
(* A delete works out what to keep from what is left, in which less is     *)
(* newer than a row than in all there has been.                            *)
(***************************************************************************)
LEMMA CutAuthoredKeepsHistory ==
    ASSUME Inv, History, CutAuthored
    PROVE  HistoryKept'
<1>1. log' = {r \in log : r.authored => r \in Newest(log)} /\ whole' = whole
  BY DEF CutAuthored
<1> SUFFICES ASSUME NEW r \in Newest(whole) PROVE r \in log'
  BY <1>1 DEF HistoryKept, Newest, Authored
<1> DEFINE newer == {s \in Authored(log) : Newer(s, r)}
           newerOfAll == {s \in Authored(whole) : Newer(s, r)}
<1>2. r \in log /\ r.authored /\ Cardinality(newerOfAll) < Depth
  BY DEF History, HistoryKept, Newest, Authored
<1>3. newer \subseteq newerOfAll /\ newerOfAll \subseteq whole
  BY DEF Authored, Inv, TypeOK
<1>4. Cardinality(newer) < Depth
  <2> HIDE DEF newer, newerOfAll
  <2>1. IsFiniteSet(newerOfAll)
    BY <1>3, FS_Subset DEF History
  <2>2. Cardinality(newer) <= Cardinality(newerOfAll) /\ IsFiniteSet(newer)
    BY <1>3, <2>1, FS_Subset
  <2> QED BY <1>2, <2>1, <2>2, FS_CardinalityType, RetentionAssumption
<1>5. r \in Newest(log)
  BY <1>2, <1>4 DEF Newest, Authored
<1> QED BY <1>1, <1>2, <1>5

LEMMA NextKeepsHistory ==
    ASSUME Inv, History, [Next]_vars
    PROVE  History'
<1>1. CASE UNCHANGED <<log, whole, now>>
  BY <1>1 DEF History, OneRowAGesture, SameGesture, NoneIsFromLater, HistoryKept, Newest, Authored
<1>2. CASE \E kind \in Kinds : Write(kind)
  <2>1. PICK kind \in Kinds : Write(kind)
    BY <1>2
  <2> PICK op : op = Op(Here, clock[Here] + 1, kind, now)
    OBVIOUS
  <2>2. /\ op \in Row /\ op.node = Here /\ op.time = now
        /\ op.gesture # NoGesture => op.authored
        /\ \A r \in log : r.node = op.node => r.seq < op.seq
    BY <2>1, WriteIs
  <2>3. Log(op) /\ now' = now
    BY <2>1 DEF Write
  <2>4. \A r \in whole : r.node = op.node => r.time <= op.time
    BY <2>2 DEF History, NoneIsFromLater
  <2>5. op.time <= now
    BY <2>2 DEF Inv, Counters
  <2> QED BY <2>2, <2>3, <2>4, <2>5, LogKeepsHistory
<1>3. CASE \E kind \in Kinds, time \in 0..MaxTime, superseded \in BOOLEAN :
               Hear(kind, time, superseded)
  <2>1. PICK kind \in Kinds, time \in 0..MaxTime, superseded \in BOOLEAN :
               Hear(kind, time, superseded)
    BY <1>3
  <2>2. CASE superseded
    BY <1>1, <2>1, <2>2 DEF Hear
  <2>3. CASE ~superseded
    <3> PICK op : op = Op(Peer, given[Peer] + 1, kind, time)
      OBVIOUS
    <3>1. /\ op \in Row /\ op.node = Peer /\ op.time = time
          /\ op.gesture # NoGesture => op.authored
          /\ \A r \in log : r.node = op.node => r.seq < op.seq
      BY <2>1, HearIs
    <3>2. Log(op) /\ now' = now /\ \A r \in whole : r.node = Peer => r.time <= time
      BY <2>1, <2>3 DEF Hear
    <3> QED BY <3>1, <3>2, NodesAssumption, LogKeepsHistory
  <2> QED BY <2>2, <2>3
<1>4. CASE CutAuthored
  BY <1>4, CutAuthoredKeepsHistory
     DEF CutAuthored, History, OneRowAGesture, SameGesture, NoneIsFromLater
<1>5. CASE CutUnattributed
  BY <1>5 DEF CutUnattributed, TooOld, History, OneRowAGesture, SameGesture, NoneIsFromLater,
              HistoryKept, Newest, Authored
<1>6. CASE Later
  <2>1. whole' = whole /\ log' = log /\ now' = now + 1
    BY <1>6 DEF Later
  <2>2. NoneIsFromLater'
    <3>1. \A r \in whole : r.time \in Int
      BY DEF Inv, TypeOK, Row
    <3>2. now \in Int
      BY DEF Inv, Counters
    <3> QED BY <2>1, <3>1, <3>2 DEF History, NoneIsFromLater
  <2> QED BY <2>1, <2>2
      DEF History, OneRowAGesture, SameGesture, HistoryKept, Newest, Authored
<1> QED BY <1>1, <1>2, <1>3, <1>4, <1>5, <1>6
    DEF Next, vars, Call, ReadFloor, ReadRows, Record, Raise, Restart

-----------------------------------------------------------------------------
LEMMA InvHolds == Spec => []Inv
<1>1. Init => Inv
  BY InitHolds
<1>2. Inv /\ [Next]_vars => Inv'
  BY NextKeeps
<1> QED BY <1>1, <1>2, PTL DEF Spec

(***************************************************************************)
(* No two rows ever carry one number, whatever is folded, cut or restarted *)
(* (oplog.rs, append): an append never replaces a row that is in the log.  *)
(***************************************************************************)
THEOREM TypeCorrect == Spec => []TypeOK
<1>1. Inv => TypeOK
  BY DEF Inv
<1> QED BY <1>1, InvHolds, PTL

(***************************************************************************)
(* In whatever order writes, the wall clock, the statements of a prune and *)
(* stops come, all that has been cut is below the floor but for rows that  *)
(* fell due between the statement that recorded what would be cut and the  *)
(* last delete (oplog.rs, prune): those, and no others, are what a peer    *)
(* can be told it is caught up with and be without.                        *)
(***************************************************************************)
THEOREM CutIsBelowTheFloor == Spec => []FloorCoversCut
<1>1. Inv => FloorCoversCut
  BY DEF Inv
<1> QED BY <1>1, InvHolds, PTL

(***************************************************************************)
(* A restarted station counts on from the number of every row it has       *)
(* written, from its rows and its floor alone, unless the row slipped      *)
(* (oplog.rs, clock).                                                      *)
(***************************************************************************)
THEOREM NoNumberForgotten == Spec => []CountsOn
<1>1. Inv => CountsOn
  BY DEF Inv
<1> QED BY <1>1, InvHolds, PTL

(***************************************************************************)
(* A peer answered from the log is given everything it had not seen, but   *)
(* for rows that slipped and rows below a floor raised between the two     *)
(* reads of the answer (oplog.rs, behind_the_floor and since).             *)
(***************************************************************************)
THEOREM NothingIsMissed == Spec => ServedWhole
<1>1. Init => PastTheFloor
  BY DEF Init, NotReading, PastTheFloor
<1>2. Inv /\ PastTheFloor /\ [Next]_vars => PastTheFloor'
  BY NextKeepsPastTheFloor
<1>3. Inv /\ PastTheFloor /\ [Next]_vars
      => [ReadRows => \A r \in Since(whole, reading.known) \ Since(log, reading.known) :
             \/ r \in slipped
             \/ reading.floor[r.node] < r.seq /\ r.seq <= floor[r.node]]_vars
  <2> SUFFICES ASSUME Inv, PastTheFloor, ReadRows,
                      NEW r \in Since(whole, reading.known) \ Since(log, reading.known),
                      r \notin slipped
               PROVE  reading.floor[r.node] < r.seq /\ r.seq <= floor[r.node]
    OBVIOUS
  <2>1. r \in whole \ log /\ reading.known[r.node] < r.seq
    BY DEF Since
  <2>2. r.node \in Nodes /\ r.seq \in Int /\ r.seq <= floor[r.node]
    BY <2>1 DEF Inv, TypeOK, Row, FloorCoversCut
  <2>3. reading.known[r.node] \in Int /\ reading.floor[r.node] \in Int
    BY <2>2, BoundsAssumption DEF Inv, TypeOK
  <2>4. reading.floor[r.node] <= reading.known[r.node]
    BY <2>2 DEF ReadRows, PastTheFloor
  <2> QED BY <2>1, <2>2, <2>3, <2>4
<1> QED BY <1>1, <1>2, <1>3, InvHolds, PTL DEF Spec, ServedWhole

(***************************************************************************)
(* The newest changes somebody made outlive every prune, however much the  *)
(* console itself writes and whatever is written while it cuts (oplog.rs,  *)
(* prune).                                                                 *)
(***************************************************************************)
THEOREM NewestAreKept == Spec => []HistoryKept
<1>1. Init => History
  <2> SUFFICES ASSUME Init PROVE History
    OBVIOUS
  <2>1. IsFiniteSet(whole)
    BY FS_EmptySet DEF Init
  <2> QED BY <2>1 DEF Init, History, OneRowAGesture, NoneIsFromLater, HistoryKept, Newest, Authored
<1>2. Inv /\ History /\ [Next]_vars => History'
  BY NextKeepsHistory
<1>3. History => HistoryKept
  BY DEF History
<1> QED BY <1>1, <1>2, <1>3, InvHolds, PTL DEF Spec
=============================================================================
