------------------------------- MODULE Oplog -------------------------------
(***************************************************************************)
(* The operation log of one station: writes appended and folded into their *)
(* gesture, the log pruned by a task of its own, what is left of it read   *)
(* back for a peer that missed something, and the count taken up again     *)
(* after a restart.                                                        *)
(*                                                                         *)
(* The engine is one task and awaits each statement it makes, so appends   *)
(* and reads do not meet.  A prune is spawned: each of its statements is   *)
(* its own transaction, and the engine goes on between them.               *)
(***************************************************************************)
EXTENDS Integers, FiniteSetsExt

CONSTANTS
    Here, Peer,  \* this station and another of its session
    Kinds,       \* what is written: path, gesture, whether somebody authored it
    NoGesture,
    Depth,       \* history_depth
    Retention,   \* oplog_retention, in steps of the wall clock
    Between,     \* APPENDS_BETWEEN_PRUNES
    MaxWrites,   \* bound on the writes of both stations
    MaxTime,     \* bound on the wall clock
    MaxRestarts  \* bound on restarts

Nodes == {Here, Peer}

Create == "create"

ASSUME NodesAssumption == Here # Peer
ASSUME KindsAssumption ==
    \A k \in Kinds : /\ DOMAIN k = {"path", "gesture", "authored"}
                     /\ k.authored \in BOOLEAN
                     /\ k.gesture # NoGesture => k.authored  \* a gesture is somebody's
ASSUME RetentionAssumption == Retention \in Nat /\ Depth \in Nat /\ Between \in Nat
ASSUME BoundsAssumption == {MaxWrites, MaxTime, MaxRestarts} \subseteq Nat

VARIABLES
    clock,    \* the engine's vector clock
    log,      \* the table oplog
    floor,    \* the table oplog_floor, 0 where it has no row
    now,      \* the wall clock
    appends,  \* appends_since_prune
    prune,    \* the spawned prune: how far it is, what it recorded, whose floor is to rise
    reading,  \* operations_since: how far it is, for whom, and the floor it read
    given,    \* given[n]: the highest number n has put on a write
    whole,    \* what the log would be had nothing ever been cut (history)
    slipped,  \* rows that fell due while a prune was cutting (history)
    restarts  \* restarts so far (bounds the model)

vars == <<clock, log, floor, now, appends, prune, reading, given, whole, slipped, restarts>>

-----------------------------------------------------------------------------
\* The table

\* ORDER BY timestamp DESC, seq DESC.  The table settles what is left by where
\* a row lies in it; the station's own rows stand for that here.
Newer(r, s) ==
    \/ r.time > s.time
    \/ r.time = s.time /\ r.seq > s.seq
    \/ r.time = s.time /\ r.seq = s.seq /\ r.node = Here /\ s.node # Here

Authored(rows) == {r \in rows : r.authored}

\* The newest Depth rows somebody authored.
Newest(rows) ==
    {r \in Authored(rows) : Cardinality({s \in Authored(rows) : Newer(s, r)}) < Depth}

TooOld(r, cutoff) == ~r.authored /\ r.time < cutoff

\* The row of op's gesture at op's path.  Creates share a path and never fold.
SameGesture(rows, op) ==
    {r \in rows : /\ op.gesture # NoGesture
                  /\ op.path # Create
                  /\ r.node = op.node
                  /\ r.gesture = op.gesture
                  /\ r.path = op.path}

\* append: a folded row takes the number and the time of the write folded into
\* it; a new row replaces one of the same number.
Appended(rows, op) ==
    IF SameGesture(rows, op) # {}
    THEN (rows \ SameGesture(rows, op)) \cup
         {[r EXCEPT !.seq = op.seq, !.time = op.time] : r \in SameGesture(rows, op)}
    ELSE {r \in rows : ~(r.node = op.node /\ r.seq = op.seq)} \cup {op}

High(rows, n) == Max({0} \cup {r.seq : r \in {q \in rows : q.node = n}})

Higher(a, b) == IF a < b THEN b ELSE a

\* Fault: numbering from nothing again.
ReopenedAtZero == [n \in Nodes |-> 0]

\* Fault: what was pruned is forgotten.
ReopenedFromRows == [n \in Nodes |-> High(log, n)]

\* oplog::clock: what an engine that opens this show counts on from.
Reopened == [n \in Nodes |-> Higher(High(log, n), floor[n])]

Nothing == [n \in Nodes |-> 0]

\* Fault: one number behind the floor counts as on it.
BehindTheFloorByOne(known) == \E n \in Nodes : known[n] + 1 < floor[n]

BehindTheFloor(known) == \E n \in Nodes : known[n] < floor[n]

Since(rows, known) == {r \in rows : known[r.node] < r.seq}

\* Fault: only the console's own rows are counted.
DueOld(rows, cutoff) == {r \in rows : TooOld(r, cutoff)}

\* What a prune would cut, by age and by count.
Due(rows, cutoff) == {r \in rows : TooOld(r, cutoff)} \cup (Authored(rows) \ Newest(rows))

-----------------------------------------------------------------------------
\* The engine

Idle == reading.stage = "idle"

\* Between the statement that records what a prune will cut and the last that
\* cuts it.
Cutting == prune.stage \in {"raise", "unattributed"}

\* prune_the_log: one at a time.
Asked(p) == IF p.stage = "none" THEN [p EXCEPT !.stage = "record"] ELSE p

Cutoff == now - Retention

\* What falls due in this step, should a prune be cutting, is added; what has
\* been written over is nothing to miss.
Slips == slipped' = (slipped \cup (IF Cutting THEN Due(log, Cutoff)' \ Due(log, Cutoff) ELSE {}))
                        \cap whole'

\* log_operation, which is awaited: nothing of the engine's runs until the row
\* is on the disk, and nothing is told to a peer before.  Of two writes that were
\* given one number the later is the one there would be.
Log(op) ==
    /\ log' = Appended(log, op)
    /\ whole' = Appended({r \in whole : ~(r.node = op.node /\ r.seq = op.seq)}, op)
    /\ appends' = IF appends + 1 >= Between THEN 0 ELSE appends + 1
    /\ prune' = IF appends + 1 >= Between THEN Asked(prune) ELSE prune

Op(n, seq, kind, time) ==
    [node |-> n, seq |-> seq, path |-> kind.path, gesture |-> kind.gesture,
     authored |-> kind.authored, time |-> time]

\* A number of Here's own is counted on from the clock, one of the peer's from
\* what the peer has given.
Counts(n, seq) ==
    /\ Idle
    /\ clock[Here] + given[Peer] < MaxWrites
    /\ clock' = [clock EXCEPT ![n] = seq]
    /\ given' = [given EXCEPT ![n] = Higher(@, seq)]

\* write_through and what it calls.
Write(kind) ==
    /\ Counts(Here, clock[Here] + 1)
    /\ Log(Op(Here, clock[Here] + 1, kind, now))
    /\ UNCHANGED <<floor, now, reading, restarts>>
    /\ Slips

\* handle_call_legacy, run_synced_command, set_master_field: numbered and sent
\* to the peers, and never logged.
Call ==
    /\ Counts(Here, clock[Here] + 1)
    /\ UNCHANGED <<log, floor, now, appends, prune, reading, whole, slipped, restarts>>

\* apply_peer_operation.  The timestamp is the peer's, in the order of its writes,
\* and may be from before an absence.  A write that is superseded here, as one that
\* was folded away at the peer, teaches the clock and is not logged.
Hear(kind, time, superseded) ==
    /\ time <= now /\ \A r \in whole : r.node = Peer => r.time <= time
    /\ Counts(Peer, given[Peer] + 1)
    /\ IF superseded
       THEN UNCHANGED <<log, whole, appends, prune>>
       ELSE Log(Op(Peer, given[Peer] + 1, kind, time))
    /\ UNCHANGED <<floor, now, reading, restarts>>
    /\ Slips

-----------------------------------------------------------------------------
\* What a peer missed: operations_since

\* A peer that has heard of nobody is sent the show, and so is one that is
\* behind the floor.
ReadFloor(known) ==
    /\ Idle
    /\ known # Nothing
    /\ \A n \in Nodes : known[n] <= clock[n]  \* what it knows beyond is not looked for
    /\ ~BehindTheFloor(known)
    /\ reading' = [stage |-> "since", known |-> known, floor |-> floor]
    /\ UNCHANGED <<clock, log, floor, now, appends, prune, given, whole, slipped, restarts>>

NotReading == [stage |-> "idle", known |-> Nothing, floor |-> Nothing]

\* Every row the peer has not seen; or the show, which is read from memory, when
\* that is more than half the log.
ReadRows ==
    /\ reading.stage = "since"
    /\ reading' = NotReading
    /\ UNCHANGED <<clock, log, floor, now, appends, prune, given, whole, slipped, restarts>>

-----------------------------------------------------------------------------
\* The prune

\* record_floor_for_what_is_about_to_go
Record ==
    /\ prune.stage = "record"
    /\ LET upto == [n \in Nodes |-> High(Due(log, Cutoff), n)]
       IN  prune' = [stage |-> "raise", upto |-> upto, raising |-> {n \in Nodes : upto[n] > 0}]
    /\ slipped' = slipped \ log
    /\ UNCHANGED <<clock, log, floor, now, appends, reading, given, whole, restarts>>

\* raise_floor, a statement for every node the prune is about to cut rows of.
Raise(n) ==
    /\ prune.stage = "raise" /\ n \in prune.raising
    /\ floor' = [floor EXCEPT ![n] = Higher(@, prune.upto[n])]
    /\ prune' = [prune EXCEPT !.raising = @ \ {n}]
    /\ UNCHANGED <<clock, log, now, appends, reading, given, whole, slipped, restarts>>

\* Fault: every row counts towards the depth.
CutBeyondDepth ==
    /\ prune.stage = "raise" /\ prune.raising = {}
    /\ log' = {r \in log : r.authored => Cardinality({q \in log : Newer(q, r)}) < Depth}
    /\ prune' = [prune EXCEPT !.stage = "unattributed"]
    /\ UNCHANGED <<clock, floor, now, appends, reading, given, whole, slipped, restarts>>

\* Each DELETE works out afresh what to keep.
CutAuthored ==
    /\ prune.stage = "raise" /\ prune.raising = {}
    /\ log' = {r \in log : r.authored => r \in Newest(log)}
    /\ prune' = [prune EXCEPT !.stage = "unattributed"]
    /\ UNCHANGED <<clock, floor, now, appends, reading, given, whole, slipped, restarts>>

NotPruning == [stage |-> "none", upto |-> Nothing, raising |-> {}]

CutUnattributed ==
    /\ prune.stage = "unattributed"
    /\ log' = {r \in log : ~TooOld(r, Cutoff)}
    /\ prune' = NotPruning
    /\ UNCHANGED <<clock, floor, now, appends, reading, given, whole, slipped, restarts>>

-----------------------------------------------------------------------------
\* Time, and the process

Later ==
    /\ now < MaxTime
    /\ now' = now + 1
    /\ UNCHANGED <<clock, log, floor, appends, prune, reading, given, whole, restarts>>
    /\ Slips

\* The process goes at any moment, and load_from_showfile opens the show again:
\* the tables are all that is left, and a prune is asked for.
Restart ==
    /\ restarts < MaxRestarts
    /\ restarts' = restarts + 1
    /\ clock' = Reopened
    /\ appends' = 0
    /\ prune' = [NotPruning EXCEPT !.stage = "record"]
    /\ reading' = NotReading
    /\ UNCHANGED <<log, floor, now, given, whole, slipped>>

Init ==
    /\ clock = Nothing
    /\ log = {}
    /\ floor = Nothing
    /\ now = 0
    /\ appends = 0
    /\ prune = NotPruning
    /\ reading = NotReading
    /\ given = Nothing
    /\ whole = {}
    /\ slipped = {}
    /\ restarts = 0

Known == [Nodes -> 0..MaxWrites]

Next ==
    \/ \E kind \in Kinds : Write(kind)
    \/ Call
    \/ \E kind \in Kinds, time \in 0..MaxTime, superseded \in BOOLEAN : Hear(kind, time, superseded)
    \/ \E known \in Known : ReadFloor(known)
    \/ ReadRows
    \/ Record
    \/ \E n \in Nodes : Raise(n)
    \/ CutAuthored
    \/ CutUnattributed
    \/ Later
    \/ Restart

Spec == Init /\ [][Next]_vars

-----------------------------------------------------------------------------
\* Properties

Row == [node : Nodes, seq : 1..MaxWrites, path : {k.path : k \in Kinds},
        gesture : {k.gesture : k \in Kinds}, authored : BOOLEAN, time : 0..MaxTime]

\* Types; and the table's own constraint, which an append would otherwise meet by
\* replacing a write nobody took back: no two rows have one number, and none has
\* a number the engine has yet to count.
TypeOK ==
    /\ clock \in [Nodes -> 0..MaxWrites]
    /\ given \in [Nodes -> 0..MaxWrites]
    /\ floor \in [Nodes -> 0..MaxWrites]
    /\ log \subseteq whole
    /\ whole \subseteq Row /\ slipped \subseteq whole
    /\ \A r, s \in whole : r.node = s.node /\ r.seq = s.seq => r = s
    /\ \A r \in log : r.seq <= clock[r.node]
    /\ prune \in [stage : {"none", "record", "raise", "unattributed"},
                  upto : [Nodes -> 0..MaxWrites], raising : SUBSET Nodes]
    /\ reading \in [stage : {"idle", "since"}, known : [Nodes -> 0..MaxWrites],
                    floor : [Nodes -> 0..MaxWrites]]
    /\ appends \in 0..Between

\* Whatever the engine, a peer and the clock do between the statements of a prune,
\* and wherever it is stopped, what has been cut is below the floor, but for rows
\* that fell due after the prune had recorded what it would cut ("rows deleted with
\* no floor recorded is a peer being told it is caught up when it is not",
\* oplog.rs, prune).
FloorCoversCut == \A r \in whole \ log : r.seq <= floor[r.node] \/ r \in slipped

\* A peer that is answered from the log is given everything it had not seen,
\* whatever has been folded and cut by then, but for rows that slipped and rows
\* below a floor that was raised after it was asked whether the peer is behind it
\* (oplog.rs, behind_the_floor and since).
ServedWhole ==
    [][ReadRows => \A r \in Since(whole, reading.known) \ Since(log, reading.known) :
           \/ r \in slipped
           \/ reading.floor[r.node] < r.seq /\ r.seq <= floor[r.node]]_vars

\* How far Ctrl-Z reaches does not depend on how much the console itself writes:
\* the newest changes somebody made are all there (oplog.rs, prune).
HistoryKept == Newest(whole) \subseteq log

\* "Counting goes on from where the log got to" (engine/mod.rs,
\* load_from_showfile): a restarted station has forgotten no number of a logged
\* write, folded or cut, so it cannot give one again or ask for one twice, unless
\* the row slipped.
CountsOn == \A r \in whole \ slipped : r.seq <= clock[r.node]
=============================================================================
