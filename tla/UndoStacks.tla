----------------------------- MODULE UndoStacks -----------------------------
(***************************************************************************)
(* What undo promises each operator: a stack of what stands of theirs and a *)
(* stack of what they took back, neither moved by anybody else.            *)
(*                                                                         *)
(* Something new does not clear what was taken back, as it does in most    *)
(* editors: it only bars redo until the next undo.                         *)
(***************************************************************************)
EXTENDS Sequences, SequencesExt

CONSTANTS Users, Acts

VARIABLES
    done,    \* what stands of each operator's, oldest first
    undone,  \* what each took back, the last taken back last
    lastly   \* whether the last thing each did was an act, an undo or a redo

stacks == <<done, undone, lastly>>

Init ==
    /\ done = [u \in Users |-> <<>>]
    /\ undone = [u \in Users |-> <<>>]
    /\ lastly = [u \in Users |-> "act"]

Act(u, act) ==
    /\ done' = [done EXCEPT ![u] = Append(@, act)]
    /\ lastly' = [lastly EXCEPT ![u] = "act"]
    /\ UNCHANGED undone

Undo(u) ==
    /\ done[u] # <<>>
    /\ undone' = [undone EXCEPT ![u] = Append(@, Last(done[u]))]
    /\ done' = [done EXCEPT ![u] = Front(@)]
    /\ lastly' = [lastly EXCEPT ![u] = "undo"]

Redo(u) ==
    /\ lastly[u] # "act" /\ undone[u] # <<>>
    /\ done' = [done EXCEPT ![u] = Append(@, Last(undone[u]))]
    /\ undone' = [undone EXCEPT ![u] = Front(@)]
    /\ lastly' = [lastly EXCEPT ![u] = "redo"]

Next == \E u \in Users : Undo(u) \/ Redo(u) \/ \E act \in Acts : Act(u, act)

Spec == Init /\ [][Next]_stacks
=============================================================================
