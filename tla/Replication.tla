---------------------------- MODULE Replication ----------------------------
(***************************************************************************)
(* How one row of the show is kept the same on every station of a session  *)
(* while the links hold: the engine's local writes and the writes it       *)
(* applies for peers, the vector clocks that order them, the links, and    *)
(* the leader that relays.                                                 *)
(*                                                                         *)
(* A station id is a number because node ids are ordered and the order     *)
(* decides concurrent writes.  Every follower is linked to the leader and  *)
(* to nobody else.  A link is everything between two engines that keeps    *)
(* order: the manager's command queue, the peer's outbox, the socket and   *)
(* the reader's channel.  Rows share nothing but the clock, so the state   *)
(* of the show is one row: absent, or a function from its fields.          *)
(***************************************************************************)
EXTENDS VectorClock, Sequences

CONSTANTS
    Stations,   \* ids of the stations in the session, ordered as numbers
    Leader,     \* the station that relays
    Fields,     \* the fields of the row; "cue" is the one a command moves
    Paths,      \* the paths written: fields and members of Verbs
    Cues,       \* how many cues a Go can walk through
    SyncedRow,  \* the row is runtime state, never in a showfile
    Works,      \* what operators may be at: sets of a station and a path
    MaxWrites   \* bound on local writes in a behaviour

ASSUME StationsAssumption == Stations \subseteq Nat /\ Leader \in Stations
\* What can be written besides a field: the whole row, its creation and its
\* deletion, and two of the commands a sequence has.
Commands == {"goNext", "off"}

Verbs == {"row", "create", "delete"} \cup Commands

ASSUME PathsAssumption ==
    /\ "cue" \in Fields
    /\ Fields \cap Verbs = {}
    /\ Paths \subseteq Fields \cup Verbs

ASSUME WorksAssumption == Works \subseteq SUBSET (Stations \X Paths)

ASSUME CuesAssumption == Cues \in Nat /\ SyncedRow \in BOOLEAN

ASSUME MaxWritesAssumption == MaxWrites \in Nat

VARIABLES
    clock,   \* clock[s]: the engine's vector clock
    known,   \* known[s][p]: clock and author of the write held at conflict path p
    row,     \* row[s]: the row as station s holds it
    inbox,   \* inbox[s]: writes peer tasks have handed the engine, not yet applied
    link,    \* link[s][t]: writes on their way from s to t
    seen,    \* seen[s]: stamps of the writes s made or was handed (history)
    work,    \* who is writing what in this behaviour
    issued   \* how many local writes were attempted (bounds the model)

vars == <<clock, known, row, inbox, link, seen, work, issued>>

-----------------------------------------------------------------------------
\* Writes

Gone == [f \in {} |-> 0]

Rows == {Gone} \cup [Fields -> Nat]

ConflictPaths == Fields \cup (Verbs \ {"create"})

Stamps == [clock : Clock(Stations), node : Stations, path : ConflictPaths]

Ops == [clock : Clock(Stations), node : Stations, path : Paths, value : Nat]

\* Fault: a create kept under its verb, so every create is one path.
ConflictPathAsWritten(p) == p

\* A create contends with what else touches its row; everything else is
\* keyed by the path it was written to.
ConflictPath(p) == IF p = "create" THEN "row" ELSE p

Stamp(op) == [clock |-> op.clock, node |-> op.node, path |-> ConflictPath(op.path)]

\* What absence from path_clocks means.
Unwritten == [clock |-> ZeroClock(Stations), node |-> Leader]

\* A create makes the row and a delete of no row removes nothing; every other
\* verb needs it to be there.
Refused(r, p) == p \notin {"create", "delete"} /\ r = Gone

\* Fault: any whole row taken as a create, a showfile's row with the rest.
AnyRowTakenAsCreate(r, p) == p = "row" /\ r = Gone

\* A peer's whole row of runtime state stands for the create this station
\* was never sent.
TakenAsCreate(r, p) == p = "row" /\ r = Gone /\ SyncedRow

\* What a write leaves behind.  A command runs again on every station, from
\* whatever cue it finds there; a Go stays on the last cue.
Applied(r, op) ==
    CASE op.path \in Fields -> [r EXCEPT ![op.path] = op.value]
      [] op.path \in {"row", "create"} -> [f \in Fields |-> op.value]
      [] op.path = "delete" -> Gone
      [] op.path = "goNext" -> [r EXCEPT !["cue"] = IF @ < Cues THEN @ + 1 ELSE @]
      [] op.path = "off" -> [r EXCEPT !["cue"] = 0]

\* Fault: concurrent writes decided by who came last.
AcceptsLastToArrive(s, op) ==
    ~HappensBefore(op.clock, known[s][ConflictPath(op.path)].clock)

\* Should op replace what s holds at its path?  A concurrent write is decided
\* by the higher station id.
Accepts(s, op) ==
    LET k == known[s][ConflictPath(op.path)]
    IN  \/ k = Unwritten
        \/ HappensBefore(k.clock, op.clock)
        \/ Concurrent(k.clock, op.clock) /\ op.node > k.node

-----------------------------------------------------------------------------
\* Links

Peers(s) == IF s = Leader THEN Stations \ {Leader} ELSE {Leader}

\* Fault: newest first.
FanOutNewestFirst(s, T, op) ==
    [link EXCEPT ![s] = [t \in Stations |->
        IF t \in T THEN <<op>> \o link[s][t] ELSE link[s][t]]]

\* The links of s with op added to those that lead to a station in T.
FanOut(s, T, op) ==
    [link EXCEPT ![s] = [t \in Stations |->
        IF t \in T THEN Append(link[s][t], op) ELSE link[s][t]]]

-----------------------------------------------------------------------------
\* Actions

\* An operator's write, or the engine's own: the clock moves first, whether
\* or not the write is then refused.
Write(s, p) ==
    LET now == Increment(clock[s], s)
        op  == [clock |-> now, node |-> s, path |-> p, value |-> issued + 1]
    IN  /\ issued < MaxWrites /\ <<s, p>> \in work
        /\ issued' = issued + 1
        /\ clock' = [clock EXCEPT ![s] = now]
        /\ IF Refused(row[s], p)
           THEN UNCHANGED <<known, row, link, seen>>
           ELSE /\ row' = [row EXCEPT ![s] = Applied(@, op)]
                /\ known' = [known EXCEPT ![s][ConflictPath(p)] =
                                [clock |-> now, node |-> s]]
                /\ link' = FanOut(s, Peers(s), op)
                /\ seen' = [seen EXCEPT ![s] = @ \cup {Stamp(op)}]
        /\ UNCHANGED <<inbox, work>>

\* The peer task takes a write off the link: relayed first if this station
\* leads, then handed to the engine.
Receive(s, t) ==
    LET op == Head(link[t][s])
        popped == [link EXCEPT ![t][s] = Tail(@)]
    IN  /\ link[t][s] # <<>>
        /\ inbox' = [inbox EXCEPT ![s] = Append(@, op)]
        /\ link' = IF s = Leader
                   THEN [popped EXCEPT ![s] =
                            FanOut(s, Peers(s) \ {t, op.node}, op)[s]]
                   ELSE popped
        /\ UNCHANGED <<clock, known, row, seen, work, issued>>

\* The engine applies a peer's write.  The sender's knowledge is merged
\* whether or not the write wins, and applying it moves this station's own
\* counter as every write does.
ApplyPeerOperation(s) ==
    LET op     == Head(inbox[s])
        merged == Merge(clock[s], op.clock)
    IN  /\ inbox[s] # <<>>
        /\ inbox' = [inbox EXCEPT ![s] = Tail(@)]
        /\ seen' = [seen EXCEPT ![s] = @ \cup {Stamp(op)}]
        /\ IF Accepts(s, op)
           THEN /\ clock' = [clock EXCEPT ![s] =
                       IF TakenAsCreate(row[s], op.path)
                       THEN Increment(Increment(merged, s), s)
                       ELSE Increment(merged, s)]
                /\ IF Refused(row[s], op.path) /\ ~TakenAsCreate(row[s], op.path)
                   THEN UNCHANGED <<row, known>>
                   ELSE /\ row' = [row EXCEPT ![s] = Applied(@, op)]
                        /\ known' = [known EXCEPT ![s][ConflictPath(op.path)] =
                                        [clock |-> op.clock, node |-> op.node]]
           ELSE /\ clock' = [clock EXCEPT ![s] = merged]
                /\ UNCHANGED <<row, known>>
        /\ UNCHANGED <<link, work, issued>>

Init ==
    /\ clock = [s \in Stations |-> ZeroClock(Stations)]
    /\ known = [s \in Stations |-> [p \in ConflictPaths |-> Unwritten]]
    /\ row = [s \in Stations |-> [f \in Fields |-> 0]]
    /\ inbox = [s \in Stations |-> <<>>]
    /\ link = [s \in Stations |-> [t \in Stations |-> <<>>]]
    /\ seen = [s \in Stations |-> {}]
    /\ work \in Works
    /\ issued = 0

Next ==
    \/ \E s \in Stations, p \in Paths : Write(s, p)
    \/ \E s, t \in Stations : Receive(s, t)
    \/ \E s \in Stations : ApplyPeerOperation(s)

Spec == Init /\ [][Next]_vars

\* Every task of a station keeps running; nobody has to write anything.
FairSpec ==
    /\ Spec
    /\ \A s, t \in Stations : WF_vars(Receive(s, t))
    /\ \A s \in Stations : WF_vars(ApplyPeerOperation(s))

-----------------------------------------------------------------------------
\* Properties

\* Types of the variables.
TypeOK ==
    /\ clock \in [Stations -> Clock(Stations)]
    /\ known \in [Stations -> [ConflictPaths ->
                     [clock : Clock(Stations), node : Stations]]]
    /\ row \in [Stations -> Rows]
    /\ inbox \in [Stations -> Seq(Ops)]
    /\ link \in [Stations -> [Stations -> Seq(Ops)]]
    /\ seen \in [Stations -> SUBSET Stamps]
    /\ work \in Works
    /\ issued \in 0..MaxWrites

\* No station holds a write its own clock is not past: what makes its next
\* write causally after everything it shows (the merge in
\* apply_peer_operation, "our next write has to be causally after it").
KnownWithinClock ==
    \A s \in Stations, p \in ConflictPaths : LeqClock(known[s][p].clock, clock[s])

\* A path never goes back to a write that happened before the one it held,
\* through any mix of local and relayed writes (accepts).
NeverCausallyOlder ==
    [][\A s \in Stations, p \in ConflictPaths :
          ~HappensBefore(known'[s][p].clock, known[s][p].clock)]_vars

Written == UNION {seen[s] : s \in Stations}

\* A clock is an honest summary: a station whose clock counts a write has been
\* handed that write.  Catching up by clock (operations_since) skips
\* everything the clock counts, so without this a reconnect loses writes.
ClockCountsOnlyWhatWasSeen ==
    \A s \in Stations, w \in Written :
        w.clock[w.node] <= clock[s][w.node] => w \in seen[s]

\* Nothing on its way anywhere.
Quiet ==
    /\ \A s \in Stations : inbox[s] = <<>>
    /\ \A s, t \in Stations : link[s][t] = <<>>

OneShow == \A s, t \in Stations : row[s] = row[t]

\* With everything delivered, every station shows the same row: what the tie
\* break of accepts is for ("the same way on every node or the show ends up
\* different on each of them").
Converged == Quiet => OneShow

\* Every write reaches every station and they end on one show.
EventuallyOneShow == <>[](OneShow /\ \A s \in Stations : seen[s] = Written)

-----------------------------------------------------------------------------
\* Refinement: every step is a write nobody had made before or the adoption of
\* one somebody made, whatever the links and the relay did in between.
Store == INSTANCE CausalStore WITH
            Nobody <- Leader, written <- Written, held <- known

ImplementsCausalStore == Store!Spec
=============================================================================
