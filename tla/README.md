# the-pult: specifications, model checks and proofs

the-pult is a lighting console that is several consoles: any number of stations
(processes, usually one per machine) form a session, each holds the whole show
in memory and in its own showfile, and each may be written to at any moment.
There is no server. This directory models the part of it that has to be right
for that to work, checks the models with TLC and proves theorems about them with
TLAPS.

| File | What it is |
| --- | --- |
| `VectorClock.tla` | the clock every write carries |
| `CausalStore.tla` | the promise: what a station may hold, without links or relay |
| `Replication.tla`, `MCReplication.tla`, `Replication_proofs.tla` | one row of the show on every station of a session while the links hold |
| `Reconnect.tla`, `MCReconnect.tla`, `Reconnect_proofs.tla` | a follower and its leader coming together again |
| `Session.tla`, `MCSession.tla`, `Session_proofs.tla` | who leads: joining, leaving, election, failover, going home |
| `Oplog.tla`, `MCOplog.tla`, `Oplog_proofs.tla` | the operation log: fold, prune, floor, what a peer is served, the count after a restart |
| `UndoStacks.tla` | the promise: a stack of what stands and one of what was taken back, for each person |
| `Undo.tla`, `MCUndo.tla`, `Undo_proofs.tla` | undo and redo found in the log alone |
| `Writer.tla`, `MCWriter.tla`, `Writer_proofs.tla` | from the engine's memory to the disk, the replies, and the copies of saved versions |
| `Playback.tla`, `MCPlayback.tla`, `Playback_proofs.tla` | which cue drives each parameter of the rig, pass by pass |
| `Library_proofs.tla` | what a fold over a finite set is and what one over a sequence computes, induction over numbers said with a set, the highest of a bounded set, what Append, Tail and the part of a list that is in a set keep, and the order that vector clocks put on writes; all the other proofs rest on it |
| `Sublists.tla` | the part of a list that is in a set, in the order of the list, for `Writer`, `Playback` and `Undo` |
| `*.cfg` | one per run |
| `PROJECT.json` | components, runs, mutants, map to the source, findings, hazards, theorems |

All paths below are in `crates/pult-backend/src/` unless they say otherwise.

## The system

### One station

A station is a set of tasks that talk over bounded channels.

* **Engine** (`engine/mod.rs`), one task, owns the show. State: every entity
  store, the vector clock (`vector_clock`), the write last taken at each path
  (`path_clocks`), the playback state. It takes commands from connectors (the
  WebSocket and REST API, plugins, wings, inputs), timers and peers. A local
  write moves the clock, is applied, logged, broadcast to the UI and handed to
  the sync manager (`write_through`, `log_local_write`). A peer's write is
  merged into the clock, and applied if `accepts` says so
  (`apply_peer_operation`).
* **Admission** (`engine/admission.rs`): a queue per class of source and a
  weighted turn through them.
* **Writer** (`engine/writer.rs`), one task: takes what the engine submits off an
  ordered queue, commits it in groups, writes orders of collections after the
  commit, and answers a receipt for each submission. The engine waits only for
  the row in the operation log; a client's reply waits in a task of its own for
  the receipts of its command. A delete goes to the disk directly.
* **Checkpointer** (`infra/showfile/versions.rs`), one task: copies the showfile
  for a saved version once a barrier in the writer's queue has landed, removes the
  copy when the version is deleted, and at a start puts back rows for copies the
  show has forgotten.
* **Undo** (`engine/undo.rs`), part of the engine: no state of its own. The next
  act to take back or put back is found in the newest rows of the log, and the
  reversal is written and logged as an act that points at it.
* **Playback** (`model/playback.rs`), part of the engine: what drives each
  parameter (a fade or an effect of a cue, or nobody's), what other sequences
  play beside it, the cue each sequence was on at the last pass, and the follows
  that are due. Commands of sequences change the show; a *pass* runs when the
  engine has nothing left to read and works out what moved.
* **Operation log** (`infra/showfile/oplog.rs`): the persisted writes, one row
  per write (or per gesture and path, folded), with a floor below which it has
  been pruned. The clock a station reopens with and what it can replay to a
  peer come from it.
* **Sync manager** (`infra/sync/mod.rs`), one task. State: the peers it holds a
  sender for, who leads, the member list. Operations: register a finished
  handshake, broadcast a write, `PeerLost` and the election, `SetLeader`,
  `DisconnectAll`, publishing the member list.
* **Peer tasks** (`infra/sync/peer.rs`), one per link and end: the handshake,
  the catch-up, then reading, writing and the heartbeat. A leader's peer task
  relays a follower's write to the others *before* handing it to its engine.
* **Session manager** (`infra/session/mod.rs`, `remembered.rs`), one task: what
  the operator asked for, the advert on the network, the leader written down
  across restarts, and three ten-second ticks: go back after a restart, find out
  one is an orphan or has to leave a stand-in, hand the lead back.

Around these are flows and timelines, connectors to the rig, audio,
interop formats, plugins, wings, devices and the API. `PROJECT.json` lists each
with the reason it is not modelled, where it is not.

### How stations interact

Followers link to the leader and to nobody else; the leader relays. A link is a
TCP connection with a `PeerMessage` stream each way: `Hello`/`HelloAck` (ids,
clocks, freshness), catch-up frames (batch, snapshot, running state, a request
for a snapshot), live operations, membership, heartbeats, and traffic of views
(outputs, logs). Nothing acknowledges a write: a link that cannot take one is
dropped, and the catch-up on the next link has to make it good.

### What is hard about it

| Behaviour | Where | Property |
| --- | --- | --- |
| Writes to one path at several stations, in different orders | `Engine::accepts` | `Converged`, `EventuallyOneShow` |
| The clock of the next write must cover what its author saw | `apply_peer_operation` | `KnownWithinClock` |
| A clock must not count what its station was not given, since catch-up skips all the clock counts | `fan_out`, relay order | `ClockCountsOnlyWhatWasSeen` |
| Two ends choose a catch-up plan apart | `catch_up` | `OneRule` |
| Work done alone has to reach the leader before the show that replaces it | `ReplayThenRequest` | `WorkHandedOver`, `Agreed` |
| Commands and finished handshakes reach the manager in either order | `SyncManager::event_loop` | `Agreed` |
| Both ends wait for what the other owes, over breaks at any moment | `run_peer_loop` | `LinkSettles` |
| Numbers given to writes after a restart | `oplog::clock` | `NumbersUsedOnce` |
| Old work handed to a leader that moved on | `apply_synced` | `LeaderMovesForward` |
| Survivors elect over the list each last heard | `elect_leader` | `OneDriver`, `FollowsADriver` |
| Adverts, what is remembered and what is gone back to, over failovers and orders | `session/mod.rs` | `AdvertisedWhileLeading`, `FailoverForgetsNothing`, `LeavingIsFinal`, `ComesHome` |
| A prune meets appends, floor and deletes in statements of their own | `oplog.rs:241` | `FloorCoversCut`, `ServedWhole` |
| One table for undo, kept by count, and catch-up, kept by age | `oplog.rs:249` | `HistoryKept` |
| Numbers given again after a restart, when rows have been folded and cut | `oplog.rs:165` | `CountsOn` |
| Undo and redo of several people, from the log alone | `engine/undo.rs` | `ImplementsStacks`, `FindsWhatThereIs`, `UndoneBranchIsGone` |
| Gestures over rows others write to, make and remove | `undo.rs:210` | `ShowIsWhatStands`, `RedoGivesBack` |
| A group taken back, or a stop, after the write was applied and told | `writer.rs:157` | `ToldIsOnDisk` |
| Deletes past the queue, orders after the commit | `engine/mod.rs:3116` | `DiskFollows` |
| A version's copy, its row, undo and a start | `versions.rs` | `CopyHoldsItsRow`, `VersionStaysAsTaken` |
| Several commands found by one pass | `playback.rs:730` | `TrackedIsDriven`, `FollowsBelong` |
| A parameter several sequences are on | `playback.rs:973` | `NothingOffDrives`, `EachOnce`, `HtpKeepsTheOthers` |
| Cues edited while they stand | `playback.rs:459` | `StandingIsCurrent` |
| A peer whose outbox is full is dropped | `admission.rs`, `sync/mod.rs:762` | `Agreed`, on the break that follows |

`PROJECT.json` has the full list of hazards, each at its line.

## The modules

### VectorClock

The `VectorClock` of `crates/pult-schema/src/events/operation.rs` as a total
function from stations to `Nat`: every reader of the map takes an absent counter
for 0.

### Replication, and CausalStore

Every station of a session over one row of the show, while the links hold.

| Model | Code |
| --- | --- |
| `clock[s]`, `known[s][p]`, `row[s]` | `vector_clock`, `path_clocks`, the entity store |
| `inbox[s]` | `ApplyPeerOperation` commands in the engine's channel |
| `link[s][t]` | broadcast command, outbox, socket and reader of the link, all in order |
| `seen[s]`, `work`, `issued` | history; who writes what in a behaviour; the bound |
| `Write` | `write_through`: increment, apply or refuse, record, broadcast |
| `Receive` | `run_peer_loop`: relay first, then hand to the engine |
| `ApplyPeerOperation` | merge, `accepts`, apply, and the increment every applied write makes |

Paths are fields and verbs: the whole row, `create`, `delete`, and two relative
commands (`goNext`, `off`) that run again at each station from what it finds.
`ConflictPath` is the code's: a create contends with the row, everything else
with its own path. A row that is runtime state (`SyncedRow`) takes a peer's
replace as the create it was never sent; one in a showfile does not.

One row is enough because rows share only the clock, and the clock is in the
model. A row's value is a number: only equality is ever asked of it. A link is
one FIFO because the manager's queue, the outbox, the socket and the reader's
channel keep order and lose nothing while the link lasts.

`CausalStore` is the promise without any of that: a station writes something
causally after all it holds, or adopts a write somebody really made that did not
happen before what it held. `Replication` implements it under
`written <- Written, held <- known`: relays, inboxes and refusals are stutters.

### Reconnect

One follower, one leader and the link between them, with everything that
happens from a break to a settled link.

| Model | Code |
| --- | --- |
| `engine[s]`: clock, known, show, log | engine, `path_clocks`, entity stores, oplog |
| `inbox[s]`, `manager[s]`, `pending[s]`, `outbox[s]` | engine channel, sync manager's commands, finished handshakes, the peer's sender |
| `registered[s]` | the link whose sender the manager holds |
| `stage[s]`, `hello[s]`, `how[s]` | how far the peer task is, what was said, the `CatchUp` it chose |
| `wire[s]` | frames on the socket |
| `fresh[s]`, `lostLeader` | `Freshness`; what the follower knows of its leader's failure |
| `Dial`, `Greet`, `Greeted`, `Replay`, `SendWhatIsRunning` | `spawn_outbound`, `handle_inbound`, `send_what_is_running` |
| `Send`, `Read`, `Engine` | the arms of `run_peer_loop`, the engine's loop |
| `Broadcast`, `PeerLost`, `Register` | the arms of `SyncManager::event_loop` |
| `Drop`, `Restart`, `GrowsOld` | a link lost, a process gone and back, two minutes alone |

The rows are registers that show the stamp of the write they hold, so two shows
are alike exactly when they hold the same writes. Paths are split into those
kept in the showfile and those in memory only, because a restart and
`apply_running_state` tell them apart. The log is a set of writes, replayed in
an order in which each station's come by number (`Oldest`: the rows are sorted by time of
day, and two stations' times say nothing of each other); `CheaperAsShow` is the code's choice of a snapshot
over a long replay, with `Shared` standing for the rows both logs began with.
Folding and pruning of the log are in `Oplog`.

### Session

Three or more stations, each a sync manager and a session manager, with links
whose ends fail apart.

| Model | Code |
| --- | --- |
| `sync[s]`: leader, members, peers | `SyncManager` |
| `asked[s]`, `pending[s]` | its two channels |
| `session[s]`: follower, advertising, named, rejoin, handback, standIn | the fields of `SessionManager` |
| `joining[s]` | the join it is in the middle of: it does nothing else until that ends |
| `promotions[s]`, `adverts`, `remembered[s]` | `Promote` commands, mDNS services, the file `remembered.rs` writes |
| `links[k]` | a socket: whose it is, which peer tasks work on it, which have ended and not said so, frames unread |
| `Register`, `Obey`, `Hear`, `PeerLost`, `Broadcast` | the sync manager's loop and the peer tasks that call it |
| `Create`, `OrderJoin`, `Leave`, `Promote` | `handle_command` |
| `Handshake`, `Joined`, `NobodyAnswers` | `join_at` and what each caller does with its answer |
| `TryRejoin`, `CheckOrphaned`, `TryGoingHome`, `TryHandback` | the three ticks |
| `Crash`, `Restart`, `Drop` | a process gone, back; a peer task that gives its link up |

A station's address stands for the station. An advert is up or not; browsing,
probing and renewing it are left out. A dial answers if the station runs and
fails if it does not; a dead link is noticed by each end on its own. Behaviours
start together in one session (the state joining one by one ends in) or with
nobody joined.

### Oplog

The log of one station, `Here`, with the writes of a peer in it, and the prune
that runs beside the engine.

| Model | Code |
| --- | --- |
| `log`, `floor` | the tables `oplog` and `oplog_floor` |
| `clock`, `appends` | the engine's vector clock, `appends_since_prune` |
| `prune`: `record`, `raise`, `unattributed` | the spawned task, by the statement it is at; `raising` holds the nodes whose floor it has still to raise, and empty is the first delete's turn |
| `reading` | `operations_since` between its two statements |
| `Write`, `Hear`, `Call` | `write_through`, `apply_peer_operation`, a command called by name |
| `ReadFloor`, `ReadRows` | a peer asks for what it missed |
| `Record`, `Raise`, `CutAuthored`, `CutUnattributed` | `prune` |
| `Restart` | the tables are what is left; `oplog::clock` counts on from them |
| `given` | the highest number each station has put on a write: the peer counts on from its own, `Here` has forgotten its own after a restart |
| `whole`, `slipped` | history: the log had nothing been cut; the rows that fell due while a prune was cutting |

A write is a path, a gesture and whether somebody authored it. A folded row takes
the number and time of the newest write of its gesture. The wall clock moves by
steps, retention is counted in them. The engine, a peer, the wall clock, a prune and
a stop take their steps in any order: nothing holds a write out of a prune, as
nothing does in the code. What falls due between the statement that records what a
prune will cut (`oplog.rs:276`) and its last delete (`oplog.rs:260`) is cut without
being below the floor. The properties say that nothing else is: `slipped` is that
set, an edit or a late write that pushes an older one past the depth, a row of the
console's that a second made too old. It is worked out from what falls due, not from
what is deleted, so a floor raised too low, too late or for too few rows shows.

### Undo, and UndoStacks

The rows of a show, several people and the log that is all undo has.

| Model | Code |
| --- | --- |
| `show`, `log`, `open` | entity stores, the rows of the oplog, the gesture each client has open |
| `Write`, `ConsoleWrite` | a client's `Set`; a write of the console's own |
| `Press` | `take_back`, for an undo or a redo |
| `Recent`, `ChainDepth`, `InEffect`, `AtParity`, `NextToUndo`, `NextToRedo` | `recent_by_people`, `Index`, `run_at_parity`, `next_to_undo`, `next_to_redo` |
| `Run`, `Covered`, `InverseOf`, `InversesOfRun`, `TakenBack` | `ops_of`, `covered_by_a_delete`, `inverse_of`, `inverses_of_run`, the loop of `take_back` |
| `hands`, `done`, `undone`, `lastly`, `last` | history |

`UndoStacks` is what each person is promised: undo moves the last of what stands
to what was taken back, redo moves it back, and nobody else's presses matter.
`Undo` implements it under the history variables, whose updates name only the
*origin* of the act the log found. A new change does not clear what was taken
back: it bars redo until the next undo, which is what the code does and where it
departs from its own comment (`undo_old_branch`).

### Writer

One collection of one station, between memory, writer and disk.

| Model | Code |
| --- | --- |
| `shown`, `listed` | `ShowState`: the rows and their order |
| `actor` | the command the engine is in: what it has still to submit, and whether it waits for the log |
| `pending`, `replies` | `pending_writes`, and the tasks that reply when receipts land |
| `queue`, `writer`, `landed`, `broken` | the writer's channel, its group, and what each receipt was answered |
| `disk`: rows, order, log | the showfile |
| `copying`, `copies`, `owing` | the checkpointer's channel, `versions/`, what `reconcile` found |
| `Create`, `Replace`, `Delete`, `TakeBack`, `DriveTempo`, `PutBack` | the commands, by what they submit |
| `Submit`, `Finish`, `Reply`, `Refused` | the engine's side of a submission and of a reply |
| `Gather`, `Commit`, `CommitFails`, `SaveOrder` | `start` and `commit` |
| `TakeCopy`, `Forget`, `Restart` | the checkpointer; a stop and the next start |

A row is the number of its last write and whether it is there: what a reader of
the disk can be wrong about is which write it has. A command begins in one step
because the engine's memory is seen by nobody else until it is told.

### Playback

The sequences, their cues, and each parameter of the rig as a driver with what
plays beside it.

| Model | Code |
| --- | --- |
| `rows`, `on`, `recent`, `captures` | `sequences`, `active_cue_index`, the order of `went_at`, the cues' captures |
| `playing`, `armed`, `stopped` | `Playback::playing`, `follows`, `releasing_tracks` |
| `stage[k]`: `driver`, `beside` | `fades` and `effects`; `beside` |
| `GoNext`, `GoBack`, `GoToCue`, `Off` | the commands of `sequence.rs` |
| `Edit`, `DeleteSequence`, `SetParameter`, `ReleaseTrack` | writes to the show, a flow, a take that stops |
| `Pass`, `StageAfter` | `playback_pass`, `pass_after_edits` |
| `Repoint`, `ReleaseDropped`, `StartNew`, `StopTrack`, `TrackChange`, `TakeCue`, `LetGo`, `StartCapture`, `ParkEffects`, `ReleaseKey` | the functions of the same names, for one parameter |
| `Restart` | the station starts again, or another joins, with the show as it is |

No function of the pass carries anything from one parameter to another, so each
is modelled for one and the pass applies it to all. Time is left out but for two
questions: whether a follow is due (any may be) and whether a parameter is where
letting go would take it (all or none).

## The runs

| Run | Shows |
| --- | --- |
| `replication_relayed` | Three stations, four writes, the leader relaying. Two followers at one field; one follower at every kind of write; two followers replacing and deleting a row. Types, the clock's two promises, convergence, no going back, and the refinement of `CausalStore`. |
| `reconnect_returns` | One break or one restart of either station, with work on both sides while apart or linked: the ends agree on a plan, work is handed over, shows are alike once settled. |
| `reconnect_breaks` | Breaks, writes and a restart at any moment of a handshake: numbers are used once, a leader that stays up moves forward, a dialled link settles or is lost. |
| `reconnect_lost_broadcast` | **Violated.** A write between handshake and registration. |
| `session_failover` | Three stations: the leader or a follower crashes and may return, a link drops, or a session is formed by hand and one leaves. One station drives, the others are linked to it, adverts are true, nobody forgets, all come home. |
| `session_leaves_stand_in` | **Violated.** A station that left a stand-in joins by itself. |
| `oplog_kept` | Three writes of two stations in any order with the statements of prunes, a second, reads for a peer and a restart: what is cut is below the floor, a peer served from the log misses nothing, a restart forgets no number, each but for rows that fell due during the prune; the newest edits stay and no two rows have one number, without exception. |
| `undo_stands` | Two people, gestures that cross, refusals, writes of the console, up to six presses: what is found in the log is what their stacks hold, the show is what stands, and a redo gives back what its undo took. |
| `undo_old_branch` | **Violated.** Undo, change, undo, redo, redo: the branch that was left comes back. |
| `playback_stage` | A look with a follow, a button and a chase that merge over it, an effect, a flow, a take, edits and a deleted sequence, two commands to a pass, a restart at any moment. |
| `writer_keeps` | Every kind of write, a group that fails, a stop at any moment: nobody is told of a write the disk may lose, the file ends up as the show, copies hold their row. |
| `writer_undone_version` | **Violated.** A version's copy is made over after its save was undone. |

### The bounds, and why they are enough

* *Three stations* are the fewest with a relay, a concurrent pair that does not
  pass through one author, and survivors who elect; conflicts are decided in
  pairs, and three make the shortest cycle. `Reconnect` has two because a link
  has two ends, and takes each order of their ids in some run: the id breaks
  ties.
* `MaxWrites` (4, 3, 2, 1): convergence needs two concurrent writes, one causally
  after one of them, and one to spare. `Reconnect` needs one write at each end.
* `MaxLinks = 2`: the old link's late news meeting the new link. `Links = 1..4`
  in `Session` are more than two followers and their redials use at a time.
* `MaxRestarts = 1`, `MaxFaults = 1`: one failure and the whole recovery from it.
  Two failures are what the code does not survive; see below.
* `Shared` is 4 where a single write must be the smaller part of the log and 1
  where it must not.
* `Plans` and `Works` name who may do what in one behaviour. Each is one
  scenario; a behaviour takes one of them, and TLC takes them all. They keep
  runs small, and they keep out what is known to fail so that the rest is
  checked: what is kept out is listed under *What the models show*.
* `Timely = TRUE` in `Session`: a ten-second tick and an operator's order find
  the station's queues empty and every loss noticed, and a restart comes after
  that. What it excludes is a tick that falls within the microseconds of a
  registration; the one failure found there is below.
* `Oplog`: `Depth = 1` and `Retention = 0` put every write at a boundary; a prune
  every second write and after a restart, so that a third write, the second and the
  restart can come at any statement of a prune, and another prune after them. Two
  kinds share a gesture, one of them a create, which does not fold. `MaxWrites` counts
  the writes of both stations by the number they have reached: one given again after
  a restart does not count twice.
* `Undo`: the code's chain of 64, a window of ten rows, and either three writes with
  four presses or two with six: the shortest histories with a gesture of two rows,
  an act of another in it and undo, redo, undo, redo. The people are symmetric.
* `Writer`: a version and a master (two rows of one collection show every order of
  create, delete and order job); three writes are one more than a row needs to be
  created and deleted; one failure and one stop.
* `Playback`: three sequences, one of each way of merging and one that wraps; three
  parameters, one shared, one with an effect, one that an edit gives and takes;
  flows and takes on the first two; `Burst = 2` commands between passes, the fewest
  whose order can matter.
* `CHECK_DEADLOCK FALSE` everywhere: once the bounded work is done and nothing is
  lost, a system of stations rests.

### The size of the runs

Distinct states with two workers: `playback_stage` 902,109 in two minutes and
`writer_keeps` 1,506,780 in one. No run takes as long as three.

### Fairness

* `Replication`: weak fairness of every `Receive` and `ApplyPeerOperation`. A
  peer task and an engine are loops over channels that always come round to a
  waiting frame. Nobody has to write.
* `Reconnect`: weak fairness of every step of the managers, peer tasks and
  engines. Each waits for one thing and is not stopped by another once that is
  there. Nobody has to dial, write, break or restart.
* `Session`: weak fairness of `Work(s)`, the sync manager, the peer tasks and the
  join under way, which end by answer or timeout. Strong fairness of `Turn(s)`,
  the session manager's own: a tick is one arm of a `select!`, whose arms are
  polled in random order, and is taken again and again between joins. Orders,
  faults and restarts are never owed, and `ComesHome` says so: it asks for every
  station to be up again.
* `Oplog`, `Undo`, `Writer` and `Playback` claim safety only: no fairness.

## What the models show

Violated runs, each a claim of the repository and a step of the code:

* **A write between handshake and registration goes to nobody**
  (`infra/sync/mod.rs:424`, `reconnect_lost_broadcast`). `fan_out` goes over the
  registered peers; the snapshot of the new link was built before.
* **Leaving a stand-in** (`infra/session/mod.rs:611`, `session_leaves_stand_in`).
  `Leave` clears `rejoin`, `handback` and the remembered address, not `stand_in`.
* **The old branch** (`engine/undo.rs:158`, `undo_old_branch`). `next_to_redo` asks
  whether the newest act is a reversal, not what it reverses: undo A, make B, undo
  B, redo B, and one more redo puts A back over B.
* **A version whose save was undone** (`engine/mod.rs:2236`, `writer_undone_version`).
  The undo deletes the row without asking the checkpointer, so the copy stays; at
  the next start `reconcile` creates the row again, and creating a version copies
  the show of that moment over the file. `take_back` is the one road to a row that
  does not pass `checkpoint`.

Met on the way, and kept out of the passing runs by their plans or, in `Oplog`,
excepted by name in the properties. All have what they need in the MC modules: take
the `.cfg` named, change the constants given or add the line given, and TLC finds the
property violated.

| From | Change | Property | What happens |
| --- | --- | --- | --- |
| `ReplicationRelayed` | `Leader = 1`, `Works <- AllAtOnce`, `Paths = {"name"}`, `MaxWrites = 3` | `Converged` | Three writers make a cycle (`engine/mod.rs:3487`): `a` before `b`, `c` concurrent with both, and ids that make `c` beat `b` and `a` beat `c`. What is kept depends on arrival. The comment at 3474 promises the same tie break everywhere. |
| `ReconnectReturns` | `Synced <- NoPaths`, `Shared = 1`, `Plans <- AloneThenBack` | `WorkHandedOver` | A follower whose work is more than half its log gets `None` from `operations_since`, sends no batch and still asks for the whole show (`peer.rs:312`). |
| `ReconnectReturns` | `Plans <- BothBack`, `MaxRestarts = 2` | `WorkHandedOver` | A follower that restarted no longer knows it lost a leader; when the leader then starts fresh, it sends its show and no log (`peer.rs:196`). The show has its work and the leader's log does not. |
| `ReconnectReturns` | `Leader = 1`, `Follower = 2`, `Synced <- NoPaths`, `Plans <- WorkingApart` | `Agreed` | A superseded write of the leader's waits in the outbox; the snapshot clears the path clocks (`engine/mod.rs:3938`) and it is taken as the first at its path. |
| `ReconnectBreaks` | `Plans <- LeaderBack`, `MaxWrites = 3` | `LeaderMovesForward` | The leader refuses a concurrent write of the follower's, which is not logged (`engine/mod.rs:3404`), makes one whose clock counts it, and restarts: its path clocks are empty and the count its log gives no longer has the refused one, so the follower's replay sends it again and it is taken over the newer. |
| `SessionFailover` | `Plans <- JoinsWhileLeading` | `AdvertisedWhileLeading` | Joining sets `is_advertising` to false and leaves the advert up (`session/mod.rs:387`). |
| `OplogKept` | `INVARIANT NothingSlips` | `NothingSlips` | An edit or a second of the clock between what a prune records and what it cuts (`oplog.rs:241`): a row is cut that is not below the floor. |
| `OplogKept` | `PROPERTY ReadInOnePiece` | `ReadInOnePiece` | `operations_since` reads the floor, then the rows (`engine/mod.rs:3452`): a prune raises the one and cuts the others in between, and the peer is not sent the show. |
| `OplogKept` | `INVARIANT NothingSlippedIsForgotten` | `NothingSlippedIsForgotten` | The number of a row that slipped is neither in a row nor below the floor: after a restart it is given again. |
| `PlaybackStage` | `Edits <- Recaptured`, and in the properties all `Keys` for `Keys \ Recapturing` | `NothingOffDrives`; on its own, `TrackedIsDriven` | A chase is off and its effect stays on the pan because the look could drive it later; then the look's capture is edited away, and nobody lets go. Or the pan has been let go, and the cue that is up gains a capture of it: `start_new_captures` leaves a release alone (`playback.rs:609`). Both last until the next cue taken. |
| `OplogKept` | `INVARIANT NoNumberTwice` | `NoNumberTwice` | A Go is numbered, sent and never logged; after a restart its number is given again (`engine/mod.rs:3262`). |

Of the links:

* Two stations pressing Go at once, a Go against an Off, and a row replaced
  against a write of one of its fields each leave stations different: the first
  is one path and one of two relative steps is dropped at some stations, the
  others are two paths and nothing orders them (`conflict_path`).
* `apply_snapshot` does not merge the clock the show was built under, so a
  follower's next write on top of it is concurrent with what it replaces.
* A follower restarts, works while alone, and returns fresh: its replay and the
  snapshot built for it pass each other; the leader has the work and the follower
  no longer.
* A leader restarts, is given the running state, and replays a runtime write it
  no longer holds.
* `apply_running_state` clears the path clocks, so a write that is in the batch
  and live is taken twice.
* Two failures (`MaxFaults = 2`): a station handing its lead back loses that
  leader before its own `SetLeader` is processed, and an orphan joins it as a
  stand-in; two followers of a dead leader, linked to each other, keep each other
  from counting as orphans, and one stays so after the leader is back.
* Without `Timely`, the orphan tick may read a peer count of 0 between an
  answered dial and its registration, and join the same leader twice. The second
  link then takes the first's place and the joiner elects itself on its loss.
* A `Leader` or member frame read late overwrites the leader a station has
  gone home to; `Create` after `Leave` never makes the sync manager lead; a
  leader with followers that joins elsewhere leaves them to follow it.

Of undo:

* After the old branch has come back the log no longer says what stands, and the
  show departs from it.
* An act all of whose inverses are refused logs nothing, so it is the next one again
  at every press, and what lies under it is out of reach.
* A gesture is open for 400 ms after the pointer is up
  (`frontend/src/lib/stores/gesture.ts:31`). A write of it that lands after the undo
  folds into the act that was undone, and no press takes it back (`Late`).
* A chain of more than 64 reversals, or one whose first link has left the window, is
  read at the wrong parity (`Chain`, `Depth`). An act with more rows than the
  history keeps is half taken back.

Of playback:

* Two sequences that go in one burst are taken by the pass in the order of the list
  (`playback.rs:751`), not in the order they went: the parameter belongs to the later
  in the list, where `sequence.rs` says "the sequence that went last owns the
  parameter outright". A station that joins later works it out again and may differ.
  A Go to the cue a sequence is on re-takes nothing.
* A parameter let go of that has landed at home keeps a fade of nobody's, and a cue
  that gains a capture of it starts nothing (`playback.rs:609`).
* What plays beside a driver is not looked at by an edit. A parameter left to a
  sequence that could drive it later stays with the sequence that is off if that
  capture is edited away. A sequence deleted while it is on lets go of nothing.
* A sequence of the other merge taken off over several that merge gives back only the
  latest of them. A take that stops turns a cue's fade into nobody's, a standing
  one of a sequence that is on as well (`playback.rs:699`): on an intensity that
  sequence is no longer played beside those that merge. `HtpKeepsTheOthers`
  excepts that fade by name, and `TrackedIsDriven` a parameter a flow set or such a
  take let go, until the next cue taken.
* A Back in the burst in which a follow fires leaves the cue up and the follow spent; a
  follow that comes due at a follower while the lead changes hands is dropped.

Of the writer:

* A tempo a timeline drives is persisted and not logged, so the engine does not wait
  for it, and a delete of that master goes to the disk past it: the upsert brings the
  row back (`Kept = {}`: `ToldIsOnDisk` and `DiskFollows` fail). `writer.rs:9` has
  "Still ordered, still durable".
* An undo is answered without waiting for its receipts, and a peer's writes have
  nobody to wait for theirs: both are left for the next `Set`, which reports their
  failure as its own.
* If the group of the upsert fails and the barrier lands, a copy is made without its
  row. A row that could not be logged is broadcast all the same.
* A version deleted just before a stop is put back at the next start.
* A version that was taken back and is created again by two hands after a start, once by
  a redo and once by `reconcile`, is created over itself. Memory leaves it in its place;
  `order::append` replaces its row and so moves it to the end, and the next start shows
  another order. `order.rs:46` says that "the primary key would refuse a repeat of the
  same id in any case", but the statement is `INSERT OR REPLACE`. `DiskFollows` speaks
  of the order only where no row was created over itself (`remade`).

## What is proved

For any number of stations, any ids, fields, paths and bounds that satisfy the
named assumptions of the modules (`StationsAssumption`, `PathsAssumption`,
`WorksAssumption`, `CuesAssumption`, `MaxWritesAssumption` of `Replication`;
`IdsAssumption` of `Reconnect`; `StationsAssumption`, `LinksAssumption`,
`BoundsAssumption`, `PlansAssumption`, `PlacesAssumption` of `Session`; `NodesAssumption`,
`KindsAssumption`, `RetentionAssumption`, `BoundsAssumption` of `Oplog`;
`RowsAssumption`, `BoundsAssumption` of `Writer`; `PlaybackAssumption` of `Playback`;
`NobodyAssumption`, `LookBackAssumption`, `SizesAssumption` of `Undo`):

* The clocks, in `Library_proofs`: `LeqClock` is reflexive and transitive,
  `HappensBefore` is asymmetric and transitive (`HappensBeforeTransitive`), an
  increment is later, and a merge is the least upper bound of two clocks
  (`MergeIsLeastUpperBound`). These carry the rest.
* `TypeCorrect`: `Spec => []TypeOK`, one lemma per action. Its weight is in the
  links and the conflict paths: that whatever arrives is a write with a total
  clock and that `ConflictPath` keeps within the domain of `known`.
* `ClockCoversWhatIsHeld`: `Spec => []KnownWithinClock`. The invariant is
  inductive with the types, `Inv == TypeOK /\ KnownWithinClock`: a write holds
  an incremented clock above all it held; a peer's write is held only after the
  merge; a refused or losing one still merges.
* `NeverGoesBack`: `Spec => NeverCausallyOlder`. It needs `Inv`: for a peer's
  write `accepts` gives it; for a local write nothing is asked of `accepts`, and
  only the clock's cover makes the new write later than the one it replaces.
* `Refinement`: `Spec => ImplementsCausalStore`. The invariant adds that every
  write on a link or in an inbox is one in `Written`, so what a station adopts
  was made by somebody.
* `ClocksAreHonest` in `Replication_proofs`: `Spec => []ClockCountsOnlyWhatWasSeen`, that
  the relay delivers causally. The property speaks of clocks and of what was applied,
  and what makes it true is on the way. `CausalInv` adds that the author of a write
  has it itself and nobody counts further in a station's writes than the station
  (`Authored`, `Bounded`); that the links make a star and a follower sends only its
  own (`OnLinks`); that what one end of a link was handed, the other was too or it
  is on the link (`Passed`); and that whatever a queued write counts has arrived or
  is in the queue, before it or itself (`InOrder`). The last two carry the relay: the
  leader hands a write on behind whatever it counts, whether its engine has taken it
  or not.
* `TwoWritersConverge` in `Replication_proofs`: `Spec => [](TwoToAField => Converged)`,
  for any number of stations and fields, where only fields are written and none by more
  than two stations. Every station ends with the best write of what it was handed (`HoldsTheBest`),
  and for that to be one write whatever the order, "beats" has to be asymmetric, total
  and transitive (`BeatsOrders`). Among the writes of two stations it is, because the
  writes of one come one after the other (`Lined`, from `SeenWithinClock`: whoever was
  handed a write counts it). Among three it is not, as the recipe above shows, so the
  hypothesis is not to be had cheaper. `Valued` carries the result from stamps to the row.
* `OneWriterConverges`: `Spec => [](OneWriter => Converged)`, of everything a row can be
  written by: a field, the whole, a creation, a deletion, a Go that every station runs
  again for itself. The invariant is a history (`OneReplay`): `h` is what the writer
  wrote, `r[i]` the row after `i` of it; each station has applied `n[s]` and been handed
  `m[s]`, its inbox and its link are slices of `h`, and a write that comes next in `h` is
  after all that is held, so nothing is refused on the way.
* `RuleHasTwoHalves` and `OneRuleHolds` in `Reconnect_proofs`: the rule by cases;
  then `Spec => []OneRule` from the inductive invariant `Handshake`, which says
  that the leader's end is never ahead of the dial and that each end's choice is
  the rule's for the two accounts given *on this link*. `OneRule` itself is not
  inductive: it says nothing of a link half made, nor of where `how` came from.
* `NumbersAreUsedOnce` in `Reconnect_proofs`: `Spec => []NumbersUsedOnce`, over any
  breaks and restarts. Inductive is `NumberInv`: whatever is in an engine, a log, a
  queue or a frame is one of `Written` or the start (`OnlyWritten`); a station's own
  writes are all in its own log with the numbers up to its count (`Numbered`), which is
  why `oplog::clock` reopens where it stopped; and what a batch or a frame carries comes
  from a log (`Chosen`).
* `LeaderNeverGoesBack` in `Reconnect_proofs`: `Spec => LeaderMovesForward`, for any
  paths, bounds and moments of writing, and any restarts of the follower, under
  `LeaderStaysUp`: no plan restarts the leader. The recipe `LeaderBack` above shows why.
  The invariant `LeadInv` says what the leader is ever handed: of `OneRule`'s plans none
  gives a leader a show that replaces its own, and what the follower sends it are writes
  of the follower (`Words`, `Meeting`); and while it is up every path of it holds what
  its path clock says, or the start (`RowsKept`, `SinceStart`), so `accepts` compares
  with what is really there.
* `WorkIsHandedOver` in `Reconnect_proofs`: `[](Parted => WorkHandedOver)`, over any
  number of links, breaks and writes on either side, of the behaviours in which the
  follower's log is worth sending on each link it greets on (`WorthReplaying`). Its
  hypotheses are three, and TLC has a violation without each. A log that is not worth
  sending gives `None` (`AloneThenBack` above). `Parted` is that the follower writes
  nothing while a link is made, which is the finding of `reconnect_lost_broadcast`, and
  that not both stations restart, where a show is sent and no log (`BothBack` above).
  The invariant `WorkInv` follows the follower's writes in the order of their
  numbers. What the leader was handed is closed downward (`Closed`), and whatever it
  counts it was handed (`Backed`), so a batch cut at its count omits nothing. Once the
  batch is sent, all there is was handed or is on the wire, in the outbox or with the
  manager, and no frame comes before a lower number (`OnItsWay`, `Ready`). Until then
  nothing waits on the link (`NothingSentBefore`) or in the manager
  (`NoWorkWhileJoining`), and the follower's half of the rule is one that sends its
  work (`AnswersWithItsWork`).
* `NothingIsForgotten` in `Session_proofs`: `Spec => []FailoverForgetsNothing`, for any
  number of stations and any plan of faults. While no order was given, whatever a
  station goes back to of itself (a rejoin, a handback, a stand-in's session, the one
  it is joining) is among what it remembers (`AllGoBack`); an order may send it
  elsewhere, and the property stops there.
* `AdvertsAreTrue` in `Session_proofs`: `[]AdvertisedWhileLeading`, of the behaviours in
  which nobody orders a station that advertises to join (`JoinsFromOutside`). That
  hypothesis is needed: joining leaves the advert up, which the recipe for
  `SessionFailover` above shows. The invariant adds that who is announced is not on its
  way to anybody (`AllAnnounce`), whatever comes back late from a dial.
* `SessionTypes` in `Session_proofs`: `Spec => []TypeOK`, for any plan and any order of
  failures, joins and orders. Its weight is in three things `TypeOK` says beyond sets.
  A station that follows announces nothing, and none remembers, joins or goes back to
  itself (`Steady`, for each station): `promote`, `try_handback` and a dial that comes
  back late each change several of these fields at once. And a peer that a sync manager
  knows is at the other end of the link it knows it by, `SyncOK`: a handshake waits in
  `pending` while its link may end and the place of that link be used for a new one, so
  what waits is part of the invariant (`PendingOK`), and a place is free only when no
  table and no handshake names it any more (`Free`). `PlacesAssumption` says that there
  is a link for every station that starts in a session.

* `Oplog_proofs` covers every property of `Oplog`, for any depth of history,
  retention, interval between prunes, kinds of write and number of restarts, and
  without a hypothesis on who meets whom: writes, late writes, Gos, the clock, reads,
  the statements of prunes and stops come in any order.
  * `CutIsBelowTheFloor`: `Spec => []FloorCoversCut`. The property is not inductive:
    it says nothing of a prune half done. `Recorded` adds what holds between its
    statements: what is still to go has been recorded or fell due since, and what was
    recorded is below the floor of every node that is not still to be raised.
    `BothAppend` says that the log and the log never cut take a write alike, so that
    what is missing never grows, and `RecordedOn` that a write or a second disturbs
    the record only by what slips.
  * `NoNumberForgotten`: `Spec => []CountsOn`: a row is in the log, below the floor
    or slipped, so `oplog::clock` finds its number.
  * `TypeCorrect`: `Spec => []TypeOK`, of which the uniqueness of numbers leans on
    the count: a number given again after a restart is never one a row has.
  * `NothingIsMissed`: `Spec => ServedWhole`, from `FloorCoversCut` and
    `PastTheFloor`: the peer was not behind the floor as it was read.
  * `NewestAreKept`: `Spec => []HistoryKept`, with no exception for what slipped. A row
    that is among the newest with a write appended was so before. The write stands for
    the row of its gesture, which was older (`NewestWas`), and for a row that was cut
    and whose number is given again; that one was not among the newest, and rows that
    are not can go without another moving up (`NewestWithout`: of those that went, the
    first had as many before it as ever). Both are on cardinalities, and need one row
    to a gesture at a path and times in order per station.
* `ToldIsOnDiskAlways` in `Writer_proofs`: `Spec => []ToldIsOnDisk`, for any rows,
  writes, failures of groups and crashes, provided nobody deletes a row whose tempo
  a tick writes (`MastersAreKept`, without which the recipe above breaks it). The
  property says nothing of what is on its way, and the invariant is about that:
  submissions without an answer are in the order of their writes and a row's place
  in the log is behind the row, so a group that answers the log has answered the
  row; none is older than what the disk has, so a commit never takes a row back;
  and while the engine is between commands only a tempo is unanswered, because every
  other command waited for its log, so a delete, which goes past the queue, has
  nothing of its row in front of it. A reply waits for the receipt of its own
  row or that row is down already; a group that fails answers with errors and its
  writes count as lost. `CommittedIsNewer` is what a group makes of the rows. The
  other theorems about `Writer` share that hypothesis and build on this invariant.
* `CopiesHoldTheirRows`: `Spec => []CopyHoldsItsRow`. A barrier is submitted after its
  row and on the same queue, so the row is down, lost, or no later than the barrier's
  group (`RowBefore`); and once the barrier has landed the row has. Under it lies
  `Once`: a submission is in one place and is answered once.
* `DiskFollowsTheShow`: `Spec => []DiskFollows`, of rows and of their order. Rows
  (`Follows`): the disk has none newer than memory's, the one of the same write is the
  same, and what it has not is lost or on its way; an upsert on its way is no newer
  than what memory shows, so the last of a group is what memory shows or older. Order
  (`Places`): a command has one submission about the order at most, answered no later
  than its log (`LogLast`), so of two commands never both are on their way, and the
  order the disk will have is memory's: as it is, with the one row that is coming, or
  replaced by the whole. That needs nothing lost and no row created over itself, and
  the lemmas on what the folds of a group and of a start compute (`PlacedKeeps`,
  `PlacedLast`, `AmongHas`, `AmongPrefix`, `SetListed`).
* `TypesHold`: `Spec => []TypeOK` of `Writer`: `listed` is what is there, each once,
  through every write and start (`Lists`).
* `Playback_proofs` covers every property of `Playback`, for any number of
  sequences, cues and parameters, any captures and edits, any number of commands to a
  pass. The pass is a fold of steps over the sequences that moved; a step's lemma says
  what it does to one parameter, whoever is on it, and `UpTo` carries it along the list.
  * `PlaybackTypes` and `NoneTwice`: `Spec => []TypeOK` and `[]EachOnce`. `Inv` has
    both: that no sequence is on a parameter twice is what makes `Without` and the
    layer `start_capture` takes out of `beside` well defined.
  * `FollowsAreOwn`: `Spec => []FollowsBelong`. Inductive is `FollowsOwn`, which holds
    between passes as well: a follow that is due belongs to the cue its sequence was on
    at the last pass (`playing`), wherever commands have sent it since.
  * `StandingHeadsToNow`: `Spec => []StandingIsCurrent`. `Standing` says it of every
    moment at which nothing was edited since the last pass. A pass repoints, releases and
    starts before any sequence moves, so what a take or a release finds standing is
    current already, and what it starts is read off the cue.
  * `OthersArePlayedOn`: `Spec => HtpKeepsTheOthers`. `PassRuns` follows a pass
    sequence by sequence; what it keeps for a sequence that did not move is that it
    drives or is beside, and a step of one that merges puts a driver it displaces
    beside, and one that lets go promotes the latest from there. Flows and takes may
    be on the parameter too; the one step that takes a sequence off is a take's that
    stops over its fade, which the property names (`TakenOver`).
  * `NothingOffIsLeft` and `TrackedStaysDriven`: `Spec => []NothingOffDrives` and
    `[]TrackedIsDriven`. Neither is inductive: between passes a sequence that is off
    does drive. `HeldInv` says of the cue each was on at the last pass what the
    properties say of now, and `HeldYet(D, at, k)` says it inside a pass of the
    sequences in `D`, by their new cues, and of the others by their old ones. Both
    are without a hypothesis and leave out the keys an edit gives to a cue or takes
    from one (`Recapturing`), as the properties do: there they are false (see the
    recipe for `PlaybackStage`). Levels and effects of captures change at will.

* `Undo_proofs` is about what can be told from the log alone, for any number of people,
  any rows of the show and any number of writes and presses.
  * `UndoTypes`: `Spec => []TypeOK`. Its weight is that a gesture has one row to a target
    and that what a press reverses is in the log (`Logs`): a fold looks for the one row
    of the gesture, and a create, which never folds, is the first to write its thing.
    `AfterIs` follows a press write by write, some of them refused, and says of the whole
    that the log is longer by rows of one new act and that no other row has changed.
  * `FindsThroughout`: `[]FindsWhatThereIs`. The property compares walks over the log
    with stacks, and the invariant that carries it is what the walks find (`Chains`):
    the acts of the log fall into chains, an act of somebody's own, the press that
    reversed it, the press that reversed that. For each act a chain says whose it is,
    what it reverses, how far from the chain's beginning it is, which act began it and
    which ended it (`Family`); an act is in effect just when the end of its chain is an
    even number of presses on from it; and a user's stacks are the beginnings of
    their chains, in `done` those reversed an even number of times and in `undone` the
    others, each in the order of the chains' ends (`Piled`). So the newest act at a parity is the
    end of the chain whose beginning is on top of a stack (`NextAre`). A write begins a
    chain or stays in one (`ChainsWrite`), a press makes one longer (`ChainsPress`).
  * `StacksAreKept`: `ImplementsStacks`, the refinement of `UndoStacks`: by the same
    chains a press takes the top off one stack and puts it on the other (`PressIs`).
  * `BranchesStayGone`: `UndoneBranchIsGone`, of behaviours in which redo is pressed no
    further than it puts back the latest change (`~Strays`). What stands is then in the
    order it was done in (`Rising`), and during a run of undos the last undone is newer
    than all of it (`Branches`). Without the hypothesis it is false: that is the finding
    of `undo_old_branch`, and the theorem says that the stray press is all there is to it.
  * `RedoPutsBack`: `RedoGivesBack`. The rows an undo writes are the log's last, and the
    show after each of them (`Trail`) leads from the show the undo was pressed on to
    the one there is; what follows the undo at once has the chain of what it took back
    end in it (`Ended`), so the redo reverses just these rows. It writes their inverses
    newest first (`SignedPicks`), and after each the show is again as it was before that row
    (`NearTaken`), but for fields of what the undo itself made, which go with their
    row. For that the undo must have made only what was not there, and this is the
    invariant the proof needs (`GoneOnce`): what was removed, and the removal not
    reversed, is not in the show, and one act alone has removed it.

  The last four say of a behaviour what holds as long as the log is looked at whole
  (`Len(log) <= Depth`; `FindsWhatThereIs` says so itself): with rows beyond that, an act's
  beginning is out of sight and the parity is read wrong. They assume that no chain is
  longer than it is followed (`Followed`: no more presses than `Chain`) and that nobody
  presses within a gesture of their own (`~Late`). Each is needed: see *Of undo* above.
  `Undo.tla` says each walk as a recursive function over the acts, and a function
  that is one is had from a partial one, act by act, with `UpTo`.

Only model-checked: all liveness (`EventuallyOneShow`, `LinkSettles`,
`ComesHome`), which is out of the prover's reach; `Converged` for plans that are neither
of the two above (a row deleted by one station while another replaces it, which
`ReplicationRelayed` runs; beyond that it is false); `Agreed` of
`Reconnect`, which compares shows after two paths of delivery; `FollowsADriver` and
`OneDriver` of `Session`, which speak of the quiet after a plan; and `ShowIsWhatStands` of
`Undo`, which folds all that a person's acts have written to a row.

## What is not modelled, and why

* Pictures and time: levels, effects, rendering, the show clock's offsets, flows and
  timelines. Arithmetic over real time and evaluation of graphs, where a small integer
  instance says nothing. What they do to shared state (a Go, a parameter set, a take
  that stops) is in `Replication` and `Playback`.
* The depth of queues. Engine, manager and peer task each send to the next over
  bounded channels. The manager only ever tries a peer's outbox
  (`sync/mod.rs:761`) and never calls the engine, so nothing waits in a ring; a peer
  task inside `write_frame` neither reads nor counts its heartbeat, which ends with
  the socket. A peer removed because its outbox was full is a link lost, which
  `Reconnect` has at any moment. Admission (`admission.rs`) shares out turns in one
  task, and its tests reach all of it.
* Formats and devices: GDTF, MVR, DMX outputs, MQTT, audio, wings. Parsers and
  I/O.
* The API, the frontend, plugins and the desktop shell: callers of the engine.
* Bundles, archives, upgrades and travel of the showfile: sequential file work.
  Restoring a version is a sequence of ordinary writes.
* In `Writer`: singletons, several collections in one group, shows in memory (which
  share one connection), a snapshot adopted from a leader, and the queue's depth of
  1024.
* In `Undo`: pruning between presses (that is `Oplog`), other stations' logs, and
  verbs that resolve to several writes beyond their shared gesture.
* mDNS beyond an advert being up or not; heartbeats beyond an end noticing in
  time; views (outputs, logs) on the links.
* Integer width: counters of a clock are `u64` and never near their end.

## The plan

Done, in the order of what a failure would cost: `VectorClock`, `CausalStore` and
`Replication`; `Reconnect`; `Session`; `Oplog`; `Undo` and `UndoStacks`; `Writer`;
`Playback`.

Left:

1. Proofs: `ShowIsWhatStands` of `Undo`, over what each act leaves; `OneDriver` of `Session`,
   which speaks of quiet states and needs an account of what each failover leaves.
2. Composition: `Reconnect` with the log of `Oplog` in place of its set, so that the
   floor and the fold meet the catch-up rule.
3. `Channels`: bounded queues between engine, sync manager and peer tasks, if one of
   the three waits changes.
4. Timelines: the transport over a leader's tick and a change of leader.
