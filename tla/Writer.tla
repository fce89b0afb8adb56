------------------------------- MODULE Writer -------------------------------
(***************************************************************************)
(* From the engine to the disk: one collection of one station, the writer  *)
(* task that commits what the engine hands it in groups, the replies that  *)
(* wait for those commits, and the checkpointer that copies the show when  *)
(* a version of it is saved.                                               *)
(*                                                                         *)
(* The engine is one task and takes one command at a time.  Memory has a   *)
(* write at once; the disk gets it as submissions, a job each, on a queue. *)
(* A delete is the exception: it goes to the disk directly.  The only      *)
(* submission the engine waits for is the operation's row in the log.      *)
(*                                                                         *)
(* A row is what its last write made of it: the number of that write and   *)
(* whether the row is there.  A submission is named by its write and job.  *)
(***************************************************************************)
EXTENDS Integers, FiniteSets, Sublists

CONSTANTS
    Rows,         \* the rows of the collection
    Versions,     \* those of them that are saved versions of the show
    Masters,      \* those whose tempo a timeline drives
    Kept,         \* those nobody deletes
    MaxWrites,    \* bound on the writes
    MaxFaults,    \* bound on what the disk refuses
    MaxCrashes    \* bound on the restarts

ASSUME RowsAssumption == IsFiniteSet(Rows) /\ Versions \cup Masters \cup Kept \subseteq Rows
ASSUME BoundsAssumption == {MaxWrites, MaxFaults, MaxCrashes} \subseteq Nat

VARIABLES
    shown,     \* the engine's memory of each row
    listed,    \* the order it shows them in
    actor,     \* the command the engine is in: what it still has to submit
    pending,   \* pending_writes: receipts no reply has taken yet
    replies,   \* replies that wait for their receipts
    queue,     \* submissions the writer has not taken
    writer,    \* what the writer is doing
    disk,      \* the file: rows, collection_order and the log
    landed,    \* submissions answered Ok
    broken,    \* submissions answered with an error
    copying,   \* the checkpointer's queue
    copies,    \* the files in versions/
    owing,     \* files reconcile found no row for when the station started
    acked,     \* writes a client was told Ok of (history)
    heard,     \* logged writes the peers were sent (history)
    lost,      \* writes with a job that never landed, 0 for a crash (history)
    remade,    \* rows created while they were there (history)
    written, faults, crashes

engineVars == <<shown, listed, actor, pending, replies, owing>>
fileVars == <<copying, copies>>
history == <<acked, heard, lost, remade>>
vars == <<engineVars, queue, writer, disk, landed, broken, fileVars, history,
          written, faults, crashes>>

Blank == [ver |-> 0, there |-> FALSE]
Idle == [at |-> "idle"]
Id(j) == <<j.ver, j.job>>

-----------------------------------------------------------------------------
\* What a command submits

Job(job, n, r, ids) == [job |-> job, ver |-> n, row |-> r, ids |-> ids]

\* checkpoint: a version's row is copied once what is queued before has
\* landed; an undo does not come this way.
Checkpoint(kind, from, n, r) ==
    IF r \notin Versions \/ from = "undo" THEN <<>>
    ELSE CASE kind = "create" -> <<Job("barrier", n, r, <<>>)>>
           [] kind = "delete" -> <<Job("forget", n, r, <<>>)>>
           [] OTHER -> <<>>

\* create_entity, replace_entity or delete_entity, then log_operation; a write
\* made here is checkpointed before it is logged, a peer's after.
Jobs(kind, from, n, r, ids) ==
    LET body == CASE kind = "create" -> <<Job("upsert", n, r, <<>>), Job("append", n, r, <<>>)>>
                  [] kind = "delete" -> <<Job("order", n, r, ids)>>
                  [] OTHER -> <<Job("upsert", n, r, <<>>)>>
        log == IF kind = "tempo" THEN <<>> ELSE <<Job("log", n, r, <<>>)>>
    IN  IF from = "peer" THEN body \o log \o Checkpoint(kind, from, n, r)
        ELSE body \o Checkpoint(kind, from, n, r) \o log

\* Fault: a row written again is listed again.
ListedAgain(kind, r) ==
    IF kind = "delete" THEN Among(Rows \ {r}, listed) ELSE Append(listed, r)

\* insert_entity and remove_entity
Listed(kind, r) ==
    CASE kind = "delete" -> Among(Rows \ {r}, listed)
      [] kind # "delete" /\ ~shown[r].there -> Append(listed, r)
      [] OTHER -> listed

-----------------------------------------------------------------------------
\* The engine

Begin(kind, from, r) ==
    LET n == written + 1
        row == [ver |-> n, there |-> kind # "delete"]
    IN  /\ actor = Idle
        /\ written < MaxWrites
        /\ written' = n
        /\ listed' = Listed(kind, r)
        /\ shown' = [shown EXCEPT ![r] = row]
        \* delete_one, on the engine's own pool
        /\ disk' = IF kind = "delete" THEN [disk EXCEPT !.rows[r] = row] ELSE disk
        /\ actor' = [at |-> "busy", ver |-> n, row |-> r, kind |-> kind, from |-> from,
                     left |-> Jobs(kind, from, n, r, listed'), waits |-> {}]
        /\ remade' = IF kind = "create" /\ shown[r].there THEN remade \cup {r} ELSE remade
        /\ UNCHANGED <<pending, replies, queue, writer, landed, broken, fileVars, acked, heard,
                       lost, faults, crashes>>

\* A client's row has an id nothing ever had.
Create(from) ==
    \E r \in Rows : shown[r].ver = 0 /\ Begin("create", from, r) /\ UNCHANGED owing

Replace(from) ==
    \E r \in Rows : shown[r].there /\ Begin("replace", from, r) /\ UNCHANGED owing

Delete(from) ==
    \E r \in Rows \ Kept : shown[r].there /\ Begin("delete", from, r) /\ UNCHANGED owing

\* take_back, which does not answer through a reply
TakeBack ==
    \/ Replace("undo")
    \/ Delete("undo")
    \/ \E r \in Rows : shown[r] # Blank /\ ~shown[r].there
                     /\ Begin("create", "undo", r) /\ UNCHANGED owing

\* set_master_field, from a tick
DriveTempo ==
    \E r \in Masters : shown[r].there /\ Begin("tempo", "tick", r) /\ UNCHANGED owing

\* reconcile, after a start
PutBack ==
    \E r \in owing : Begin("create", "client", r) /\ owing' = owing \ {r}

\* A command refused, for what it names or by the disk, still takes the
\* receipts of those before it.
Refused ==
    /\ actor = Idle
    /\ pending # {}
    /\ pending' = {}
    /\ UNCHANGED <<shown, listed, actor, replies, owing, queue, writer, disk, landed, broken,
                   fileVars, history, written, faults, crashes>>

Settled(ids) == ids \subseteq landed \cup broken

\* Fault: the engine goes on before the log has answered.
SubmitUnawaited ==
    /\ actor # Idle
    /\ actor.left # <<>>
    /\ LET j == Head(actor.left)
       IN  /\ actor' = [actor EXCEPT !.left = Tail(@)]
           /\ queue' = IF j.job = "forget" THEN queue ELSE Append(queue, j)
           /\ copying' = IF j.job \in {"barrier", "forget"} THEN Append(copying, j) ELSE copying
           /\ pending' = IF j.job \in {"upsert", "append", "order"} THEN pending \cup {Id(j)}
                         ELSE pending
    /\ UNCHANGED <<shown, listed, replies, owing, writer, disk, landed, broken, copies, history,
                   written, faults, crashes>>

\* The next submission of the command, once the log has answered.
Submit ==
    /\ actor # Idle
    /\ Settled(actor.waits)
    /\ actor.left # <<>>
    /\ LET j == Head(actor.left)
       IN  /\ actor' = [actor EXCEPT !.left = Tail(@),
                                     !.waits = IF j.job = "log" THEN {Id(j)} ELSE {}]
           /\ queue' = IF j.job = "forget" THEN queue ELSE Append(queue, j)
           /\ copying' = IF j.job \in {"barrier", "forget"} THEN Append(copying, j) ELSE copying
           /\ pending' = IF j.job \in {"upsert", "append", "order"} THEN pending \cup {Id(j)}
                         ELSE pending
    /\ UNCHANGED <<shown, listed, replies, owing, writer, disk, landed, broken, copies, history,
                   written, faults, crashes>>

\* The command is through: the peers hear of it, and a client's reply is left
\* to wait for every receipt there is, those of others before it included.
Finish ==
    /\ actor # Idle
    /\ Settled(actor.waits)
    /\ actor.left = <<>>
    /\ heard' = IF actor.from \in {"client", "undo"}
                THEN heard \cup {[ver |-> actor.ver, row |-> actor.row]} ELSE heard
    /\ IF actor.from = "client"
       THEN /\ replies' = replies \cup {[ver |-> actor.ver, row |-> actor.row, receipts |-> pending]}
            /\ pending' = {}
       ELSE UNCHANGED <<replies, pending>>
    /\ actor' = Idle
    /\ UNCHANGED <<shown, listed, owing, queue, writer, disk, landed, broken, fileVars, acked, lost,
                   remade, written, faults, crashes>>

\* The task a reply was left to
Reply ==
    \E w \in replies :
        /\ Settled(w.receipts)
        /\ replies' = replies \ {w}
        /\ acked' = IF w.receipts \cap broken = {}
                    THEN acked \cup {[ver |-> w.ver, row |-> w.row]} ELSE acked
        /\ UNCHANGED <<shown, listed, actor, pending, owing, queue, writer, disk, landed, broken,
                       fileVars, heard, lost, remade, written, faults, crashes>>

-----------------------------------------------------------------------------
\* The writer

Upserts(batch, r) == {i \in DOMAIN batch : batch[i].job = "upsert" /\ batch[i].row = r}

Logged(batch) == {batch[i].ver : i \in {k \in DOMAIN batch : batch[k].job = "log"}}

\* order::append gives a row the position after the last.
Placed(order, j) ==
    IF j.job = "append" THEN Append(Among(Rows \ {j.row}, order), j.row) ELSE order

\* One transaction, the orders being held back: a row is what the last upsert of it
\* in the group makes of it.
Committed(d, batch) ==
    [rows |-> [r \in Rows |-> IF Upserts(batch, r) = {} THEN d.rows[r]
                              ELSE [ver |-> batch[Max(Upserts(batch, r))].ver, there |-> TRUE]],
     order |-> FoldLeft(Placed, d.order, batch),
     log |-> d.log \cup Logged(batch)]

Answered(batch) == {Id(batch[i]) : i \in DOMAIN batch}

\* What waits goes into one group.
Gather ==
    /\ writer = Idle
    /\ queue # <<>>
    /\ writer' = [at |-> "commit", batch |-> queue]
    /\ queue' = <<>>
    /\ UNCHANGED <<engineVars, disk, landed, broken, fileVars, history, written, faults, crashes>>

Orders(batch) == {i \in DOMAIN batch : batch[i].job = "order"}

LastOrder(batch) == batch[Max(Orders(batch))]

Commit ==
    /\ writer.at = "commit"
    /\ disk' = Committed(disk, writer.batch)
    /\ IF Orders(writer.batch) = {}
       THEN writer' = Idle /\ landed' = landed \cup Answered(writer.batch)
       ELSE writer' = [writer EXCEPT !.at = "order"] /\ UNCHANGED landed
    /\ UNCHANGED <<engineVars, queue, broken, fileVars, history, written, faults, crashes>>

\* Fault: what was in a group taken back is answered as the rest is.
CommitFailsQuietly ==
    /\ writer.at = "commit"
    /\ faults < MaxFaults
    /\ faults' = faults + 1
    /\ landed' = landed \cup Answered(writer.batch)
    /\ lost' = lost \cup {writer.batch[i].ver : i \in DOMAIN writer.batch}
    /\ writer' = Idle
    /\ UNCHANGED <<engineVars, queue, disk, broken, fileVars, acked, heard, remade, written,
                   crashes>>

\* BEGIN, a job or COMMIT fails and takes the group back.
CommitFails ==
    /\ writer.at = "commit"
    /\ faults < MaxFaults
    /\ faults' = faults + 1
    /\ broken' = broken \cup Answered(writer.batch)
    /\ lost' = lost \cup {writer.batch[i].ver : i \in DOMAIN writer.batch}
    /\ writer' = Idle
    /\ UNCHANGED <<engineVars, queue, disk, landed, fileVars, acked, heard, remade, written,
                   crashes>>

\* order::save of the last order in the group, in a transaction of its own; a
\* failure is only logged.
SaveOrder ==
    /\ writer.at = "order"
    /\ \/ /\ disk' = [disk EXCEPT !.order = LastOrder(writer.batch).ids]
          /\ UNCHANGED <<lost, faults>>
       \/ /\ faults < MaxFaults
          /\ faults' = faults + 1
          /\ lost' = lost \cup {LastOrder(writer.batch).ver}
          /\ UNCHANGED disk
    /\ landed' = landed \cup Answered(writer.batch)
    /\ writer' = Idle
    /\ UNCHANGED <<engineVars, queue, broken, fileVars, acked, heard, remade, written,
                   crashes>>

-----------------------------------------------------------------------------
\* The checkpointer

OtherCopies(r) == {c \in copies : c.row # r}

\* Fault: the copy is made as soon as it is asked for.
TakeCopyAtOnce ==
    /\ copying # <<>>
    /\ Head(copying).job = "barrier"
    /\ copies' = OtherCopies(Head(copying).row) \cup
                 {[row |-> Head(copying).row, ver |-> Head(copying).ver, rows |-> disk.rows]}
    /\ copying' = Tail(copying)
    /\ UNCHANGED <<engineVars, queue, writer, disk, landed, broken, history, written, faults, crashes>>

\* Waits for the receipt of the barrier and copies the file as it stands.
TakeCopy ==
    /\ copying # <<>>
    /\ LET j == Head(copying)
       IN  /\ j.job = "barrier"
           /\ Settled({Id(j)})
           /\ copies' = IF Id(j) \in broken THEN copies
                        ELSE OtherCopies(j.row) \cup
                             {[row |-> j.row, ver |-> j.ver, rows |-> disk.rows]}
    /\ copying' = Tail(copying)
    /\ UNCHANGED <<engineVars, queue, writer, disk, landed, broken, history, written, faults, crashes>>

Forget ==
    /\ copying # <<>>
    /\ Head(copying).job = "forget"
    /\ copies' = OtherCopies(Head(copying).row)
    /\ copying' = Tail(copying)
    /\ UNCHANGED <<engineVars, queue, writer, disk, landed, broken, history, written, faults, crashes>>

-----------------------------------------------------------------------------
\* A crash and the start after it

\* post_load_init: the saved order without what is gone, then what it misses.
Reloaded(d) ==
    LET there == {r \in Rows : d.rows[r].there}
    IN  Among(there, d.order) \o SetToSeq(there \ ToSet(d.order))

NamesItself(c) == c.rows[c.row].there

Restart ==
    /\ crashes < MaxCrashes
    /\ crashes' = crashes + 1
    /\ shown' = disk.rows
    /\ listed' = Reloaded(disk)
    /\ owing' = {c.row : c \in {f \in copies : NamesItself(f) /\ ~disk.rows[f.row].there}}
    /\ lost' = IF actor = Idle /\ queue = <<>> /\ writer = Idle THEN lost ELSE lost \cup {0}
    /\ actor' = Idle /\ pending' = {} /\ replies' = {}
    /\ queue' = <<>> /\ writer' = Idle /\ copying' = <<>>
    /\ UNCHANGED <<disk, landed, broken, copies, acked, heard, remade, written, faults>>

-----------------------------------------------------------------------------
Init ==
    /\ shown = [r \in Rows |-> Blank] /\ listed = <<>>
    /\ actor = Idle /\ pending = {} /\ replies = {} /\ owing = {}
    /\ queue = <<>> /\ writer = Idle
    /\ disk = [rows |-> shown, order |-> <<>>, log |-> {}]
    /\ landed = {} /\ broken = {}
    /\ copying = <<>> /\ copies = {}
    /\ acked = {} /\ heard = {} /\ lost = {} /\ remade = {}
    /\ written = 0 /\ faults = 0 /\ crashes = 0

Command ==
    \/ \E from \in {"client", "peer"} : Create(from) \/ Replace(from) \/ Delete(from)
    \/ TakeBack
    \/ DriveTempo
    \/ PutBack
    \/ Refused

Engine == Submit \/ Finish \/ Reply

Disk == Gather \/ Commit \/ CommitFails \/ SaveOrder

Checkpointer == TakeCopy \/ Forget

Next == Command \/ Engine \/ Disk \/ Checkpointer \/ Restart

Spec == Init /\ [][Next]_vars

-----------------------------------------------------------------------------
\* Properties

Row == [ver : 0 .. MaxWrites, there : BOOLEAN]
JobKinds == {"upsert", "append", "order", "log", "barrier", "forget"}
Ids == (1 .. MaxWrites) \X JobKinds

\* The types of the variables, and: memory lists what is there, once; a
\* submission is answered once and only after the writer took it; no receipt
\* is waited for that was not submitted.
TypeOK ==
    /\ {shown, disk.rows} \subseteq [Rows -> Row]
    /\ \A r \in Rows : shown[r].there <=> r \in ToSet(listed)
    /\ IsInjective(listed) /\ IsInjective(disk.order)
    /\ disk.log \subseteq 1 .. written
    /\ landed \cup broken \cup pending \subseteq Ids
    /\ landed \cap broken = {}
    /\ (landed \cup broken) \cap {Id(queue[i]) : i \in DOMAIN queue} = {}
    /\ \A w \in replies : w.receipts \subseteq Ids
    /\ owing \subseteq Versions

\* A client that was told a write is in has it on the disk, over any failure
\* of a group and any crash: write_through and the reply of Set.
AckedIsDurable == \A c \in acked : disk.rows[c.row].ver >= c.ver

\* What the peers were sent is on the disk of the station that wrote it, the row
\* and its place in the log, unless a commit of it failed: a crash cannot leave
\* a write everywhere but here.
HeardIsKept ==
    \A c \in heard : c.ver \notin lost => /\ c.ver \in disk.log
                                          /\ disk.rows[c.row].ver >= c.ver

\* Nobody is told of a write the disk could still not have: the client by the
\* reply, the peers by broadcast_synced.
ToldIsOnDisk == AckedIsDurable /\ HeardIsKept

AtRest == actor = Idle /\ queue = <<>> /\ writer = Idle

\* Once the queue is empty the file holds each row as the station shows it,
\* unless the last write of it was lost, and a start would show the rows in the
\* order they are shown in: persist, delete_entity, append_order and
\* persist_order.  The order only where nothing was lost, and no row was created
\* over itself: memory leaves such a row in its place, and order::append moves
\* it to the end.
DiskFollows ==
    AtRest => /\ \A r \in Rows : shown[r].ver \notin lost => disk.rows[r] = shown[r]
              /\ lost = {} /\ remade = {} => Reloaded(disk) = listed

\* A copy of the show made for a version was made of a file that had the write
\* that made the version, unless a commit of it failed: the barrier of checkpoint.
CopyHoldsItsRow ==
    \A c \in copies : c.ver \notin lost => c.rows[c.row].ver >= c.ver

\* A version stays the file it was taken as, for as long as it is there:
\* snapshot, over a write that was taken back and the start that follows.
VersionStaysAsTaken ==
    [][\A c \in copies, d \in copies' : c.row = d.row => c = d]_vars

=============================================================================
