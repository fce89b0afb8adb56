----------------------------- MODULE Reconnect -----------------------------
(***************************************************************************)
(* How a follower and its leader come together again: the handshake, the   *)
(* catch-up each side owes the other, the registration of the link, and    *)
(* what is lost or left over when a link drops or a station restarts.      *)
(*                                                                         *)
(* Each station is an engine, a sync manager and, while linked, one peer   *)
(* task at its end of the link.  An engine's rows are registers and show   *)
(* the stamp of the write they hold.  The follower dials, as it does on    *)
(* joining, on finding itself alone and on handing the lead back.          *)
(***************************************************************************)
EXTENDS VectorClock, Sequences, FiniteSetsExt, SequencesExt

CONSTANTS
    Leader, Follower,  \* station ids, ordered as numbers
    Persisted,         \* paths kept in the showfile
    Synced,            \* paths kept in memory only
    Shared,            \* rows both logs hold to begin with, all the leader's
    Plans,             \* what may happen: who writes when, and who restarts
    MaxWrites,         \* bound on local writes
    MaxLinks,          \* bound on links made
    MaxRestarts        \* bound on restarts

ASSUME IdsAssumption == {Leader, Follower} \subseteq Nat /\ Leader # Follower
ASSUME SharedAssumption == Shared \in Nat \ {0}
ASSUME BoundsAssumption == {MaxWrites, MaxLinks, MaxRestarts} \subseteq Nat

Stations == {Leader, Follower}

Other(s) == IF s = Leader THEN Follower ELSE Leader

Paths == Persisted \cup Synced

Moments == {"apart", "joining", "catching up", "linked"}

ASSUME PlansAssumption ==
    Plans \subseteq [writing : SUBSET (Stations \X Moments), restarting : SUBSET Stations]

VARIABLES
    engine,      \* engine[s]: clock, path_clocks, rows and oplog
    inbox,       \* inbox[s]: what the peer task has put to the engine
    manager,     \* manager[s]: commands waiting for the sync manager
    pending,     \* pending[s]: finished handshakes waiting to be registered
    registered,  \* registered[s]: the link whose outbox the manager holds, or 0
    stage,       \* stage[s]: how far s's end of the link is
    hello,       \* hello[s]: the clock and freshness s gave at this link's start
    how,         \* how[s]: what the rule says s owes on this link
    outbox,      \* outbox[s]: what the manager left for the peer task to send
    wire,        \* wire[s]: frames sent by s and not yet read
    fresh,       \* fresh[s]: s has just started and has not been linked
    lostLeader,  \* the follower has noticed its leader go
    handed,      \* handed[s]: peer writes the engine of s was given (history)
    plan,        \* what may happen in this behaviour
    count        \* links made, writes and restarts so far (bound the model)

vars == <<engine, inbox, manager, pending, registered, stage, hello, how, outbox,
          wire, fresh, lostLeader, handed, plan, count>>

-----------------------------------------------------------------------------
\* The engine

Start == [node |-> Leader, clock |-> [ZeroClock(Stations) EXCEPT ![Leader] = Shared]]

\* What absence from path_clocks means.
Unwritten == [node |-> Leader, clock |-> ZeroClock(Stations)]

NothingKnown == [p \in Paths |-> Unwritten]

Stamp(op) == [node |-> op.node, clock |-> op.clock]

Number(op) == op.clock[op.node]

Accepts(k, op) ==
    \/ k = Unwritten
    \/ HappensBefore(k.clock, op.clock)
    \/ Concurrent(k.clock, op.clock) /\ op.node > k.node

Holding(e, op, now) ==
    [clock |-> now, log |-> e.log \cup {op},
     known |-> [e.known EXCEPT ![op.path] = Stamp(op)],
     show |-> [e.show EXCEPT ![op.path] = Stamp(op)]]

ApplyPeerOperation(e, s, op) ==
    LET merged == Merge(e.clock, op.clock)
    IN  IF Accepts(e.known[op.path], op)
        THEN Holding(e, op, Increment(merged, s))
        ELSE [e EXCEPT !.clock = merged]

\* The whole show replaces this station's; its clock and its log stay.
ApplySnapshot(e, show) == [e EXCEPT !.show = show, !.known = NothingKnown]

ApplyRunningState(e, show) ==
    [e EXCEPT !.show = [p \in Paths |-> IF p \in Synced THEN show[p] ELSE @[p]],
              !.known = NothingKnown]

\* Fault: numbering from nothing again.
ReopenedFromNothing(e) ==
    [clock |-> Start.clock, log |-> e.log, known |-> NothingKnown,
     show |-> [p \in Paths |-> IF p \in Persisted THEN e.show[p] ELSE Start]]

\* A start from the showfile: the clock goes on from the log, what was only
\* in memory is gone.
Reopened(e) ==
    [clock |-> [n \in Stations |->
        Max({Start.clock[n]} \cup {Number(op) : op \in {o \in e.log : o.node = n}})],
     log |-> e.log,
     known |-> NothingKnown,
     show |-> [p \in Paths |-> IF p \in Persisted THEN e.show[p] ELSE Start]]

\* Fault: one past what the other side has.
OperationsSinceOneShort(e, past) == {op \in e.log : past[op.node] + 1 < Number(op)}

\* What the log of e holds past a clock.
OperationsSince(e, past) == {op \in e.log : past[op.node] < Number(op)}

\* Oldest first: by the time its station put on it, then by number.  The times of
\* two stations say nothing of each other.
Oldest(missing) ==
    {ops \in SetToSeqs(missing) :
        \A i, j \in DOMAIN ops :
            i < j /\ ops[i].node = ops[j].node => Number(ops[i]) < Number(ops[j])}

\* Whether that is so much of the log that the show is thought cheaper.
CheaperAsShow(e, past) ==
    2 * Cardinality(OperationsSince(e, past)) > Shared + Cardinality(e.log)

-----------------------------------------------------------------------------
\* The rule that says what each side owes the other

\* Fault: a restarted leader is only replayed to.
CatchUpWithoutRunning(weLead, theyLead, weAreFresh, theyAreFresh, theyWereOurLeader) ==
    IF ~(theyAreFresh \/ weAreFresh) /\ weLead # theyLead
    THEN (IF weLead THEN "Wait" ELSE "ReplayThenRequest") ELSE "Replay"

\* Fault: who leads asked before who has just started.
CatchUpLeaderFirst(weLead, theyLead, weAreFresh, theyAreFresh, theyWereOurLeader) ==
    CASE theyLead /\ ~weLead -> "ReplayThenRequest"
      [] theyAreFresh /\ ~weAreFresh -> "SendSnapshot"
      [] weAreFresh /\ ~theyAreFresh -> "Replay"
      [] OTHER -> "Wait"

\* Fault: the leader asks for the follower's show.
CatchUpLeaderAsks(weLead, theyLead, weAreFresh, theyAreFresh, theyWereOurLeader) ==
    IF weLead THEN "ReplayThenRequest" ELSE "Wait"

CatchUp(weLead, theyLead, weAreFresh, theyAreFresh, theyWereOurLeader) ==
    CASE theyAreFresh /\ ~weAreFresh /\ theyWereOurLeader -> "ReplayThenRunning"
      [] theyAreFresh /\ ~weAreFresh /\ ~theyWereOurLeader -> "SendSnapshot"
      [] weAreFresh /\ ~theyAreFresh -> "Replay"
      [] weAreFresh = theyAreFresh /\ theyLead /\ ~weLead -> "ReplayThenRequest"
      [] weAreFresh = theyAreFresh /\ weLead /\ ~theyLead -> "Wait"
      [] OTHER -> "Replay"

Snapshot(s) == [type |-> "snapshot", show |-> engine[s].show]

\* Fault: the show is asked for before the work is sent.
OwedAskFirst(s, ops) ==
    IF how[s] # "ReplayThenRequest" THEN <<>>
    ELSE <<[type |-> "request"], [type |-> "batch", ops |-> ops]>>

\* What s sends first, `ops` being what it finds missing.  The side that was dialled answers with the whole show
\* where its log cannot help; the side that dialled then sends nothing.
Owed(s, ops) ==
    LET past == hello[Other(s)].clock
        batch == <<[type |-> "batch", ops |-> ops]>>
        instead == IF s = Leader THEN <<Snapshot(s)>> ELSE <<>>
        replayed == IF CheaperAsShow(engine[s], past) THEN instead ELSE batch
    IN  CASE how[s] = "Wait" -> <<>>
          [] how[s] = "SendSnapshot" -> <<Snapshot(s)>>
          [] how[s] = "Replay" -> replayed
          [] how[s] = "ReplayThenRequest" -> replayed \o <<[type |-> "request"]>>
          [] how[s] = "ReplayThenRunning" -> batch

-----------------------------------------------------------------------------
\* Links

Awaiting(s) == \E i \in DOMAIN inbox[s] : inbox[s][i].type = "request"

Up == \A s \in Stations : stage[s] = "up"

Registered == \A s \in Stations : registered[s] = count.links /\ pending[s] = <<>>

\* Everything the catch-up sent has been taken in on both sides.
CaughtUp ==
    \A s \in Stations :
        /\ \A i \in DOMAIN wire[s] : wire[s][i].type = "write"
        /\ \A i \in DOMAIN inbox[s] : inbox[s][i].type = "write"

Moment ==
    CASE Up /\ Registered /\ CaughtUp -> "linked"
      [] Up /\ Registered /\ ~CaughtUp -> "catching up"
      [] CaughtUp /\ \A s \in Stations : stage[s] = "down" -> "apart"
      [] OTHER -> "joining"

Sent(s, msgs) == [wire EXCEPT ![s] = @ \o msgs]

\* The link is gone and what was on it is lost.  Every peer task that had
\* started, unless its station died with it, tells its manager.
Severed(commands, alive) ==
    /\ stage' = [s \in Stations |-> "down"]
    /\ outbox' = [s \in Stations |-> <<>>]
    /\ wire' = [s \in Stations |-> <<>>]
    /\ manager' = [s \in Stations |->
          IF s \notin alive THEN <<>>
          ELSE IF stage[s] = "up" THEN Append(commands[s], [type |-> "lost"])
          ELSE commands[s]]

-----------------------------------------------------------------------------
\* Actions: writes and the manager

Write(s, p) ==
    LET now == Increment(engine[s].clock, s)
        op  == [path |-> p, node |-> s, clock |-> now]
    IN  /\ count.writes < MaxWrites
        /\ <<s, Moment>> \in plan.writing
        /\ count' = [count EXCEPT !.writes = @ + 1]
        /\ engine' = [engine EXCEPT ![s] = Holding(@, op, now)]
        /\ manager' = [manager EXCEPT ![s] = Append(@, [type |-> "write", op |-> op])]
        /\ UNCHANGED <<inbox, pending, registered, stage, hello, how, outbox, wire,
                       fresh, lostLeader, handed, plan>>

\* A broadcast for a peer the manager does not hold goes nowhere, and one for
\* an outbox whose task has ended drops the peer.
Broadcast(s) ==
    /\ manager[s] # <<>> /\ Head(manager[s]).type = "write"
    /\ manager' = [manager EXCEPT ![s] = Tail(@)]
    /\ IF stage[s] = "up" /\ registered[s] = count.links
       THEN /\ outbox' = [outbox EXCEPT ![s] = Append(@, Head(manager[s]))]
            /\ UNCHANGED registered
       ELSE /\ registered' = [registered EXCEPT ![s] = 0]
            /\ UNCHANGED outbox
    /\ UNCHANGED <<engine, inbox, pending, stage, hello, how, wire, fresh, lostLeader,
                   handed, plan, count>>

\* A peer is forgotten by its id: the word of an old link takes a new one down.
PeerLost(s) ==
    /\ manager[s] # <<>> /\ Head(manager[s]).type = "lost"
    /\ registered' = [registered EXCEPT ![s] = 0]
    /\ lostLeader' = (lostLeader \/ s = Follower)
    /\ IF stage[s] = "up" /\ registered[s] = count.links
       THEN Severed([manager EXCEPT ![s] = Tail(@)], Stations)
       ELSE /\ manager' = [manager EXCEPT ![s] = Tail(@)]
            /\ UNCHANGED <<stage, outbox, wire>>
    /\ UNCHANGED <<engine, inbox, pending, hello, how, fresh, handed, plan, count>>

\* Fault: only a dialled peer is registered.
RegisterDialled(s) ==
    /\ s = Follower /\ pending[s] # <<>>
    /\ registered' = [registered EXCEPT ![s] = Head(pending[s])]
    /\ pending' = [pending EXCEPT ![s] = Tail(@)]
    /\ UNCHANGED <<engine, inbox, manager, stage, hello, how, outbox, wire, fresh,
                   lostLeader, handed, plan, count>>

Register(s) ==
    /\ pending[s] # <<>>
    /\ registered' = [registered EXCEPT ![s] = Head(pending[s])]
    /\ pending' = [pending EXCEPT ![s] = Tail(@)]
    /\ UNCHANGED <<engine, inbox, manager, stage, hello, how, outbox, wire, fresh,
                   lostLeader, handed, plan, count>>

-----------------------------------------------------------------------------
\* Actions: the handshake.  A question to the engine is answered after all
\* that the peer tasks put to it before.

\* The follower dials once its manager, asked in turn, says it has no peer.
Dial ==
    LET f == Follower
    IN  /\ \A s \in Stations : stage[s] = "down"
        /\ count.links < MaxLinks
        /\ manager[f] = <<>> /\ registered[f] = 0 /\ inbox[f] = <<>>
        /\ count' = [count EXCEPT !.links = @ + 1]
        /\ stage' = [stage EXCEPT ![f] = "hello"]
        /\ hello' = [hello EXCEPT ![f] = [clock |-> engine[f].clock, fresh |-> fresh[f]]]
        /\ UNCHANGED <<engine, inbox, manager, pending, registered, how, outbox, wire,
                       fresh, lostLeader, handed, plan>>

\* Hello and HelloAck are read before any other frame. The end that is dialled
\* counts as linked from its HelloAck on, the other once it has replayed.
Greet ==
    LET l == Leader
    IN  /\ stage[l] = "down" /\ stage[Follower] = "hello" /\ inbox[l] = <<>>
        /\ hello' = [hello EXCEPT ![l] = [clock |-> engine[l].clock, fresh |-> fresh[l]]]
        /\ how' = [how EXCEPT ![l] =
                     CatchUp(TRUE, FALSE, fresh[l], hello[Follower].fresh, FALSE)]
        /\ stage' = [stage EXCEPT ![l] = "greeted"]
        /\ fresh' = [fresh EXCEPT ![l] = FALSE]
        /\ UNCHANGED <<engine, inbox, manager, pending, registered, outbox, wire,
                       lostLeader, handed, plan, count>>

Greeted ==
    LET f == Follower
    IN  /\ stage[f] = "hello" /\ stage[Leader] # "down"
        /\ how' = [how EXCEPT ![f] = CatchUp(FALSE, TRUE, hello[f].fresh,
                                             hello[Leader].fresh, lostLeader)]
        /\ stage' = [stage EXCEPT ![f] = "greeted"]
        /\ UNCHANGED <<engine, inbox, manager, pending, registered, hello, outbox, wire,
                       fresh, lostLeader, handed, plan, count>>

\* What s owes goes out; then the link is handed over for registration.
Replay(s) ==
    /\ stage[s] = "greeted" /\ inbox[s] = <<>>
    /\ \E ops \in Oldest(OperationsSince(engine[s], hello[Other(s)].clock)) :
          wire' = Sent(s, Owed(s, ops))
    /\ IF how[s] = "ReplayThenRunning"
       THEN stage' = [stage EXCEPT ![s] = "replayed"] /\ UNCHANGED <<pending, fresh>>
       ELSE /\ stage' = [stage EXCEPT ![s] = "up"]
            /\ pending' = [pending EXCEPT ![s] = Append(@, count.links)]
            /\ fresh' = [fresh EXCEPT ![s] = FALSE]
    /\ UNCHANGED <<engine, inbox, manager, registered, hello, how, outbox, lostLeader,
                   handed, plan, count>>

\* The second half for a leader come back: what is running.
SendWhatIsRunning(s) ==
    /\ stage[s] = "replayed" /\ inbox[s] = <<>>
    /\ wire' = Sent(s, <<[type |-> "running", show |-> engine[s].show]>>)
    /\ stage' = [stage EXCEPT ![s] = "up"]
    /\ pending' = [pending EXCEPT ![s] = Append(@, count.links)]
    /\ fresh' = [fresh EXCEPT ![s] = FALSE]
    /\ UNCHANGED <<engine, inbox, manager, registered, hello, how, outbox, lostLeader,
                   handed, plan, count>>

-----------------------------------------------------------------------------
\* Actions: a link that is up.  A peer task waiting for its engine to build
\* the show neither reads nor writes.

Send(s) ==
    /\ stage[s] = "up" /\ outbox[s] # <<>> /\ ~Awaiting(s)
    /\ wire' = Sent(s, <<Head(outbox[s])>>)
    /\ outbox' = [outbox EXCEPT ![s] = Tail(@)]
    /\ UNCHANGED <<engine, inbox, manager, pending, registered, stage, hello, how, fresh,
                   lostLeader, handed, plan, count>>

Read(s) ==
    LET frame == Head(wire[Other(s)])
    IN  /\ stage[s] = "up" /\ wire[Other(s)] # <<>> /\ ~Awaiting(s)
        /\ wire' = [wire EXCEPT ![Other(s)] = Tail(@)]
        /\ inbox' = [inbox EXCEPT ![s] = Append(@, frame)]
        /\ handed' = [handed EXCEPT ![s] = @ \cup
              (CASE frame.type = "write" -> {frame.op}
                 [] frame.type = "batch" -> Range(frame.ops)
                 [] OTHER -> {})]
        /\ UNCHANGED <<engine, manager, pending, registered, stage, hello, how, outbox,
                       fresh, lostLeader, plan, count>>

\* The engine takes the next thing a peer task put to it.
Engine(s) ==
    LET cmd == Head(inbox[s])
    IN  /\ inbox[s] # <<>>
        /\ inbox' = [inbox EXCEPT ![s] = Tail(@)]
        /\ engine' = [engine EXCEPT ![s] =
              CASE cmd.type = "write" -> ApplyPeerOperation(@, s, cmd.op)
                [] cmd.type = "batch" ->
                     FoldLeft(LAMBDA e, op : ApplyPeerOperation(e, s, op), @, cmd.ops)
                [] cmd.type = "snapshot" -> ApplySnapshot(@, cmd.show)
                [] cmd.type = "running" -> ApplyRunningState(@, cmd.show)
                [] cmd.type = "request" -> @]
        /\ wire' = IF cmd.type = "request" /\ stage[s] = "up"
                   THEN Sent(s, <<Snapshot(s)>>) ELSE wire
        /\ UNCHANGED <<manager, pending, registered, stage, hello, how, outbox, fresh,
                       lostLeader, handed, plan, count>>

-----------------------------------------------------------------------------
\* Actions: what goes wrong

Drop ==
    /\ \E s \in Stations : stage[s] # "down"
    /\ Severed(manager, Stations)
    /\ UNCHANGED <<engine, inbox, pending, registered, hello, how, fresh, lostLeader,
                   handed, plan, count>>

\* The process goes and comes back.
Restart(s) ==
    /\ s \in plan.restarting /\ count.restarts < MaxRestarts
    /\ count' = [count EXCEPT !.restarts = @ + 1]
    /\ Severed(manager, Stations \ {s})
    /\ engine' = [engine EXCEPT ![s] = Reopened(@)]
    /\ inbox' = [inbox EXCEPT ![s] = <<>>]
    /\ pending' = [pending EXCEPT ![s] = <<>>]
    /\ registered' = [registered EXCEPT ![s] = 0]
    /\ fresh' = [fresh EXCEPT ![s] = TRUE]
    /\ lostLeader' = (lostLeader /\ s # Follower)
    /\ UNCHANGED <<hello, how, handed, plan>>

\* Two minutes alone and a station is no longer fresh.
GrowsOld(s) ==
    /\ fresh[s] /\ stage[s] = "down" /\ stage[Other(s)] = "down"
    /\ fresh' = [fresh EXCEPT ![s] = FALSE]
    /\ UNCHANGED <<engine, inbox, manager, pending, registered, stage, hello, how, outbox,
                   wire, lostLeader, handed, plan, count>>

Init ==
    /\ engine = [s \in Stations |->
          [clock |-> Start.clock, log |-> {}, known |-> NothingKnown,
           show |-> [p \in Paths |-> Start]]]
    /\ inbox = [s \in Stations |-> <<>>]
    /\ manager = [s \in Stations |-> <<>>]
    /\ pending = [s \in Stations |-> <<>>]
    /\ registered = [s \in Stations |-> 0]
    /\ stage = [s \in Stations |-> "down"]
    /\ hello = [s \in Stations |-> [clock |-> ZeroClock(Stations), fresh |-> FALSE]]
    /\ how = [s \in Stations |-> "Wait"]
    /\ outbox = [s \in Stations |-> <<>>]
    /\ wire = [s \in Stations |-> <<>>]
    /\ fresh = [s \in Stations |-> FALSE]
    /\ lostLeader = TRUE
    /\ handed = [s \in Stations |-> {}]
    /\ plan \in Plans
    /\ count = [links |-> 0, writes |-> 0, restarts |-> 0]

Next ==
    \/ \E s \in Stations, p \in Paths : Write(s, p)
    \/ \E s \in Stations : Broadcast(s) \/ PeerLost(s) \/ Register(s)
    \/ Dial \/ Greet \/ Greeted
    \/ \E s \in Stations : Replay(s) \/ SendWhatIsRunning(s)
    \/ \E s \in Stations : Send(s) \/ Read(s) \/ Engine(s)
    \/ Drop
    \/ \E s \in Stations : Restart(s) \/ GrowsOld(s)

Spec == Init /\ [][Next]_vars

\* Every task that can go on does; nothing has to go wrong, to be written or
\* to be dialled.
FairSpec ==
    /\ Spec
    /\ WF_vars(Greet) /\ WF_vars(Greeted)
    /\ \A s \in Stations :
          /\ WF_vars(Broadcast(s)) /\ WF_vars(PeerLost(s)) /\ WF_vars(Register(s))
          /\ WF_vars(Replay(s)) /\ WF_vars(SendWhatIsRunning(s))
          /\ WF_vars(Send(s)) /\ WF_vars(Read(s)) /\ WF_vars(Engine(s))

-----------------------------------------------------------------------------
\* Properties

\* The link is up and registered at both ends and nothing is on its way.
Settled ==
    /\ Up /\ Registered
    /\ \A s \in Stations :
          inbox[s] = <<>> /\ manager[s] = <<>> /\ outbox[s] = <<>> /\ wire[s] = <<>>

\* A settled link joins two stations that show the same (catch_up: "a follower
\* takes the leader's whole show").
Agreed == Settled => engine[Leader].show = engine[Follower].show

\* Whatever the follower did on its own has been given to the leader by the
\* time the link is settled, to win or to lose there by the clocks (the first
\* half of ReplayThenRequest, "send what this station did that the leader has
\* not seen").
WorkHandedOver ==
    Settled => \A op \in engine[Follower].log :
                  op.node = Follower => op \in handed[Leader]

\* The two ends apply the rule apart, each from what it was told, and come to
\* the two halves of one plan (catch_up, "decided the same way on both ends").
OneRule ==
    Up => <<how[Leader], how[Follower]>> \in
            {<<"Wait", "ReplayThenRequest">>, <<"SendSnapshot", "Replay">>,
             <<"Replay", "SendSnapshot">>, <<"Replay", "ReplayThenRunning">>}

\* No number is given to two writes, across any restarts (oplog::clock, "a
\* station restarted after 71,892 writes numbered its next one 1"): there are
\* as many numbered writes as were made.
Written == UNION {engine[s].log : s \in Stations}

NumbersUsedOnce ==
    Cardinality({<<op.node, Number(op)>> : op \in Written}) = count.writes

\* Whatever stale work is handed to it, the leader's file never goes back to a
\* write older than the one it held, as long as the leader itself stays up.
LeaderMovesForward ==
    [][\A p \in Persisted :
         ~HappensBefore(engine'[Leader].show[p].clock, engine[Leader].show[p].clock)]_vars

\* A dialled link settles or is lost: nobody is left waiting for a frame, an
\* engine or a registration that never comes.
LinkSettles == stage[Follower] = "hello" ~> (Settled \/ stage[Follower] = "down")
=============================================================================
