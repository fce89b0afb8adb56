-------------------------------- MODULE Undo --------------------------------
(***************************************************************************)
(* Taking back what one did, and putting it back, out of the operation log *)
(* alone: there is no stack.  An undo is a write that points at the act it *)
(* reverses, and a redo is an undo of that.                                *)
(*                                                                         *)
(* The engine is one task, so a press is one step.  Between the writes of  *)
(* one operator's gesture come those of the others, and their presses.     *)
(***************************************************************************)
EXTENDS Integers, Sublists, FiniteSetsExt, Functions

CONSTANTS
    Users,     \* the people
    Nobody,    \* the author of the console's own writes
    Things,    \* rows of the show
    Old,       \* those that are there to begin with
    Depth,     \* history_depth: how many rows undo looks back over
    Chain,     \* how far a chain of reversals is followed
    Late,      \* whether a press may come before the gesture's last write
    Strays,    \* whether redo is pressed on when it has put back the latest change
    Sizes      \* bounds on a behaviour: <<writes, presses of undo and redo>>

ASSUME NobodyAssumption == Nobody \notin Users
ASSUME ThingsAssumption == Old \subseteq Things
ASSUME LookBackAssumption == Depth \in Nat /\ Chain \in Nat /\ {Late, Strays} \subseteq BOOLEAN
ASSUME SizesAssumption == Sizes \subseteq Nat \X Nat

Fields == {"level", "name"}

Acts == UNION {1..(size[1] + size[2]) : size \in Sizes}

None == 0
Absent == [f \in {} |-> 0]
Fresh(value) == [f \in Fields |-> value]

VARIABLES
    show,    \* the rows
    log,     \* the oplog, oldest first; a folded row is where its last write was
    open,    \* each client's gesture, None between gestures
    acts,    \* how many acts there have been: the next one's key
    writes,  \* how many writes people and console have made (bounds the model)
    presses, \* how often somebody pressed undo or redo (bounds the model)
    hands,   \* who has written to each row (history)
    done, undone, lastly,  \* each operator's acts, by what was reversed (history)
    size,    \* the bounds on this behaviour
    last     \* who took something back just now, and the show before (history)

vars == <<show, log, open, acts, writes, presses, hands, done, undone, lastly, size, last>>

NoPress == [user |-> Nobody, show |-> show]

-----------------------------------------------------------------------------
\* What one user's part of the log says

\* recent_by_people: what undo is given, still oldest first.
Recent ==
    LET authored == Among({r \in Range(log) : r.user # Nobody}, log)
    IN  IF Len(authored) <= Depth THEN authored
        ELSE SubSeq(authored, Len(authored) - Depth + 1, Len(authored))

Mine(u) == Among({r \in Range(log) : r.user = u}, Recent)

Keys(rows) == {r.act : r \in Range(rows)}

Reverses(rows, act) == (CHOOSE r \in Range(rows) : r.act = act).undoes

Steps(rows) ==
    LET steps[act \in Keys(rows)] ==
            IF Reverses(rows, act) = None THEN 0
            ELSE IF Reverses(rows, act) \in Keys(rows)
                 THEN 1 + steps[Reverses(rows, act)] ELSE 1
    IN  steps

\* Fault: an undo and a redo are told by whether they point at something.
ChainDepthOfOne(rows, act) == IF Reverses(rows, act) = None THEN 0 ELSE 1

\* Index::depth: 0 a change, 1 its undo, 2 a redo of it.
ChainDepth(rows, act) == Min({Steps(rows)[act], Chain + 1})

\* Index::in_effect: nothing that points at it is itself in effect.
Applies(rows) ==
    LET applied[act \in Keys(rows)] ==
            \A r \in Range(rows) : r.undoes = act => ~applied[r.act]
    IN  applied

InEffect(rows, act) == Applies(rows)[act]

NewestRow(rows, act) == Max({i \in DOMAIN rows : rows[i].act = act})

\* run_at_parity: the newest act of that kind still in effect, None if there
\* is none.
AtParity(rows, parity) ==
    LET fit == {a \in Keys(rows) : /\ ChainDepth(rows, a) % 2 = parity
                                   /\ InEffect(rows, a)}
    IN  IF fit = {} THEN None
        ELSE CHOOSE a \in fit : \A b \in fit : NewestRow(rows, b) <= NewestRow(rows, a)

NextToUndo(u) == AtParity(Mine(u), 0)

\* Fault: redo after something new.
NextToRedoAnyTime(u) == AtParity(Mine(u), 1)

\* Only while the last thing the user did was an undo or a redo.
NextToRedo(u) ==
    IF Mine(u) # <<>> /\ Last(Mine(u)).undoes # None
    THEN AtParity(Mine(u), 1) ELSE None

-----------------------------------------------------------------------------
\* How an act is reversed

\* Newest first, as the log is read.
Run(u, act) == Reverse(Among({r \in Range(log) : r.act = act}, Mine(u)))

\* target_of: a create is keyed by what it made.
Target(row) == <<row.verb, row.thing, row.field>>

\* covered_by_a_delete: a field of something the act made.
Covered(run, row) ==
    row.verb = "field" /\ \E r \in Range(run) : r.verb = "create" /\ r.thing = row.thing

HasInverse(row) == row.verb = "delete" => row.previous # Absent

\* inverse_of
InverseOf(row) ==
    CASE row.verb = "create" -> [row EXCEPT !.verb = "delete", !.value = Absent]
      [] row.verb = "delete" -> [row EXCEPT !.verb = "create", !.value = row.previous]
      [] OTHER               -> [row EXCEPT !.value = row.previous]

Earliest(rows, i) == rows[Max({j \in DOMAIN rows : Target(rows[j]) = Target(rows[i])})]

\* Where each target comes first.
Heads(rows) ==
    Among({i \in DOMAIN rows : \A j \in 1..(i - 1) : Target(rows[j]) # Target(rows[i])},
          [i \in DOMAIN rows |-> i])

\* inverses_of_run: one write per target, from the earliest row on it; the
\* target written last comes first.
InversesOfRun(run) ==
    LET rows == Among({r \in Range(run) : ~Covered(run, r)}, run)
        heads == Heads(rows)
        wanted == Among({r \in Range(run) : HasInverse(r)},
                        [n \in DOMAIN heads |-> Earliest(rows, heads[n])])
    IN  [n \in DOMAIN wanted |-> InverseOf(wanted[n])]

-----------------------------------------------------------------------------
\* Writing

\* A field needs its row; a create makes it and a delete of none removes none.
Refused(rows, verb, thing) == verb = "field" /\ rows[thing] = Absent

Overlaid(value, row) ==
    [f \in DOMAIN value \cup DOMAIN row |-> IF f \in DOMAIN value THEN value[f] ELSE row[f]]

Applied(rows, verb, thing, value) ==
    [rows EXCEPT ![thing] =
        IF verb = "field" THEN Overlaid(value, rows[thing]) ELSE value]

\* value_before: a create has nothing before it, a delete the whole row.
ValueBefore(rows, verb, thing, field) ==
    CASE verb = "create" -> Absent
      [] verb = "delete" -> rows[thing]
      [] OTHER           -> [f \in {field} |-> rows[thing][f]]

SameTarget(r, s) ==
    r.act = s.act /\ r.verb = s.verb /\ r.thing = s.thing /\ r.field = s.field

\* Fault: a row beside the one the gesture has.
LoggedBeside(rows, row) == Append(rows, row)

\* Fault: the row forgets what the gesture began from.
LoggedOver(rows, row) ==
    Append(SelectSeq(rows, LAMBDA r : row.verb = "create" \/ ~SameTarget(r, row)), row)

\* append: the act's earlier row at that path keeps its previous and takes the
\* new value and place; a create never folds.
Logged(rows, row) ==
    LET same == {r \in Range(rows) : SameTarget(r, row) /\ row.verb # "create"}
        previous == IF same = {} THEN row.previous ELSE (CHOOSE r \in same : TRUE).previous
    IN  Append(Among(Range(rows) \ same, rows), [row EXCEPT !.previous = previous])

\* The value a client writes, as the fields it is for: a number nobody has
\* written yet.
Value(verb, field) ==
    CASE verb = "create" -> Fresh(writes + 1)
      [] verb = "delete" -> Absent
      [] OTHER           -> [f \in {field} |-> writes + 1]

\* A client's Set, in the gesture it has open or in an act of its own; it may
\* keep the gesture open.
Write(u, verb, thing, field, keep) ==
    LET act == IF open[u] = None THEN acts + 1 ELSE open[u]
    IN  /\ writes < size[1]
        /\ verb = "create" <=> hands[thing] = {} /\ thing \notin Old
        /\ ~Refused(show, verb, thing)
        /\ writes' = writes + 1
        /\ show' = Applied(show, verb, thing, Value(verb, field))
        /\ log' = Logged(log, [user |-> u, act |-> act, undoes |-> None, verb |-> verb,
                               thing |-> thing, field |-> field, value |-> Value(verb, field),
                               previous |-> ValueBefore(show, verb, thing, field)])
        /\ open' = [open EXCEPT ![u] = IF keep THEN act ELSE None]
        /\ hands' = [hands EXCEPT ![thing] = @ \cup {u}]
        /\ IF open[u] = None
           THEN /\ acts' = acts + 1
                /\ done' = [done EXCEPT ![u] = Append(@, act)]
                /\ lastly' = [lastly EXCEPT ![u] = "act"]
           ELSE UNCHANGED <<acts, done, lastly>>
        /\ last' = [user |-> Nobody, show |-> show']
        /\ UNCHANGED <<presses, undone, size>>

\* The console's own write: logged with nobody's name, so not for undo.
ConsoleWrite(thing) ==
    /\ writes < size[1]
    /\ ~Refused(show, "field", thing)
    /\ writes' = writes + 1
    /\ show' = Applied(show, "field", thing, Value("field", "level"))
    /\ hands' = [hands EXCEPT ![thing] = @ \cup {Nobody}]
    /\ last' = [user |-> Nobody, show |-> show']
    /\ UNCHANGED <<log, open, acts, presses, done, undone, lastly, size>>

\* Fault: what is there is read once the inverse has been written.
TakenBackReadAfter(state, inverse) ==
    IF Refused(state.show, inverse.verb, inverse.thing) THEN state
    ELSE LET after == Applied(state.show, inverse.verb, inverse.thing, inverse.value)
         IN  [show |-> after,
              log |-> Logged(state.log,
                        [inverse EXCEPT !.previous =
                            ValueBefore(after, inverse.verb, inverse.thing, inverse.field)])]

\* One inverse is written and logged, or refused and skipped.
TakenBack(state, inverse) ==
    IF Refused(state.show, inverse.verb, inverse.thing) THEN state
    ELSE [show |-> Applied(state.show, inverse.verb, inverse.thing, inverse.value),
          log |-> Logged(state.log,
                    [inverse EXCEPT !.previous =
                        ValueBefore(state.show, inverse.verb, inverse.thing, inverse.field)])]

\* What act of people's own lies at the end of a chain of reversals.
Origins ==
    LET origin[act \in Keys(log)] ==
            IF Reverses(log, act) = None THEN act ELSE origin[Reverses(log, act)]
    IN  origin

Origin(act) == Origins[act]

Without(acted, act) == Among(Range(acted) \ {act}, acted)

\* What reverses an act, pointing at it.
Signed(u, next) ==
    LET inverses == InversesOfRun(Run(u, next))
    IN  [i \in DOMAIN inverses |-> [inverses[i] EXCEPT !.act = acts + 1, !.undoes = next]]

After(u, next) == FoldLeft(TakenBack, [show |-> show, log |-> log], Signed(u, next))

\* take_back
Press(u, redo) ==
    LET next == IF redo THEN NextToRedo(u) ELSE NextToUndo(u)
        after == After(u, next)
        origin == Origin(next)
        stood == Contains(done[u], origin)
    IN  /\ presses < size[2]
        /\ Late \/ open[u] = None
        /\ next # None
        /\ redo /\ lastly[u] = "redo" /\ ~Strays =>
            \A act \in Range(done[u]) : act < origin
        /\ presses' = presses + 1
        /\ acts' = acts + 1
        /\ show' = after.show
        /\ log' = after.log
        /\ hands' = [t \in Things |-> IF after.show[t] # show[t] THEN hands[t] \cup {u} ELSE hands[t]]
        /\ IF after.log = log
           THEN UNCHANGED <<done, undone, lastly>>
           ELSE /\ lastly' = [lastly EXCEPT ![u] = IF redo THEN "redo" ELSE "undo"]
                /\ IF stood
                   THEN /\ done' = [done EXCEPT ![u] = Without(@, origin)]
                        /\ undone' = [undone EXCEPT ![u] = Append(@, origin)]
                   ELSE /\ done' = [done EXCEPT ![u] = Append(@, origin)]
                        /\ undone' = [undone EXCEPT ![u] = Without(@, origin)]
        /\ last' = [user |-> IF redo \/ after.log = log THEN Nobody ELSE u, show |-> show]
        /\ UNCHANGED <<open, writes, size>>

Init ==
    /\ show = [t \in Things |-> IF t \in Old THEN Fresh(0) ELSE Absent]
    /\ log = <<>>
    /\ open = [u \in Users |-> None]
    /\ acts = 0
    /\ writes = 0
    /\ presses = 0
    /\ hands = [t \in Things |-> {}]
    /\ done = [u \in Users |-> <<>>]
    /\ undone = [u \in Users |-> <<>>]
    /\ lastly = [u \in Users |-> "act"]
    /\ size \in Sizes
    /\ last = NoPress

Next ==
    \/ \E u \in Users, t \in Things, f \in Fields, keep \in BOOLEAN : Write(u, "field", t, f, keep)
    \/ \E u \in Users, t \in Things, verb \in {"create", "delete"}, keep \in BOOLEAN :
            Write(u, verb, t, "all", keep)
    \/ \E t \in Things : ConsoleWrite(t)
    \/ \E u \in Users, redo \in BOOLEAN : Press(u, redo)

Spec == Init /\ [][Next]_vars

-----------------------------------------------------------------------------
\* Properties

Stacks == INSTANCE UndoStacks

\* Types; an undo names an older gesture; a gesture keeps one row to a target.
TypeOK ==
    /\ \A t \in Things : show[t] = Absent \/ show[t] \in [Fields -> 0..size[1]]
    /\ \A r \in Range(log) :
        /\ {r.act, r.undoes} \subseteq 0..acts /\ r.undoes < r.act
        /\ r.user \in Users /\ r.thing \in Things
        /\ r.verb \in {"create", "delete", "field"}
    /\ open \in [Users -> 0..acts]
    /\ \A i, j \in DOMAIN log : i # j /\ SameTarget(log[i], log[j]) => FALSE
    /\ \A u \in Users : Range(done[u]) \cup Range(undone[u]) \subseteq 1..acts
    /\ last.user \in Users \cup {Nobody}

\* What is found in the log is what the operator's own stacks hold: undo takes
\* the last of what stands, redo the last taken back, one operator's presses and
\* refused writes move nobody else's (undo.rs, next_to_undo and next_to_redo).
ImplementsStacks == Stacks!Spec

\* As far back as the history goes, there is something to take back for as long as
\* something of the operator's stands, and to put back for as long as they are in a
\* run of undos (undo.rs, next_to_redo).
FindsWhatThereIs ==
    Len(log) <= Depth => \A u \in Users :
        /\ NextToUndo(u) = None <=> done[u] = <<>>
        /\ NextToRedo(u) = None <=> undone[u] = <<>> \/ lastly[u] = "act"

\* What the acts make of a row only they wrote to.
Replayed(u, t) ==
    LET deeds(act) == SelectSeq(log, LAMBDA r : r.act = act /\ r.thing = t)
        deed(state, r) == Applied(state, r.verb, r.thing, r.value)
        start == [x \in {t} |-> IF t \in Old THEN Fresh(0) ELSE Absent]
    IN  FoldLeft(deed, start, FlattenSeq([i \in DOMAIN done[u] |-> deeds(done[u][i])]))[t]

\* Taking back and putting back, in any order, over gestures that make, change and
\* remove, leaves a row nobody else touches as the acts that stand would have made
\* it (undo.rs, inverses_of_run: "back to what was there before its first write").
ShowIsWhatStands ==
    \A u \in Users, t \in Things : hands[t] = {u} => show[t] = Replayed(u, t)

\* Whatever others did to the same rows in the meantime, a redo pressed right after
\* an undo gives back the show the undo was pressed on ("redo is undoing an undo",
\* undo.rs).
RedoGivesBack ==
    [][\A u \in Users : last.user = u /\ Press(u, TRUE) => show' = last.show]_vars

\* "The branch that was undone is not coming back" (undo/tests.rs,
\* a_fresh_change_after_undoing_leaves_nothing_to_redo): redo puts back nothing
\* that was taken back before the user's latest change.
UndoneBranchIsGone ==
    [][\A u \in Users : Press(u, TRUE) /\ Len(done'[u]) > Len(done[u])
            => Last(done'[u]) > Max({0} \cup Range(done[u]))]_vars
=============================================================================
