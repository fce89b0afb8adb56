---------------------------- MODULE CausalStore ----------------------------
(***************************************************************************)
(* What replication promises, without links, inboxes or a relay: stations  *)
(* that each hold one write per path.  A station's own write is causally   *)
(* after everything it holds; a write it adopts from elsewhere really was  *)
(* made by somebody, and is never one that happened before what it held.   *)
(***************************************************************************)
EXTENDS VectorClock

CONSTANTS Stations, ConflictPaths, Nobody

VARIABLES
    written,  \* every write made so far
    held      \* held[s][p]: clock and author of the write s holds at p

Holding == [clock : Clock(Stations), node : Stations]

Writes == [clock : Clock(Stations), node : Stations, path : ConflictPaths]

AsHeld(w) == [clock |-> w.clock, node |-> w.node]

Init ==
    /\ written = {}
    /\ held = [s \in Stations |-> [p \in ConflictPaths |->
                 [clock |-> ZeroClock(Stations), node |-> Nobody]]]

\* s writes p, knowing everything it holds.
Write(s, p) ==
    \E w \in written' :
        /\ w \in Writes
        /\ w.node = s /\ w.path = p
        /\ \A q \in ConflictPaths : HappensBefore(held[s][q].clock, w.clock)
        /\ written' = written \cup {w}
        /\ held' = [held EXCEPT ![s][p] = AsHeld(w)]

\* s takes a write made elsewhere in place of what it holds.
Adopt(s, p) ==
    \E w \in written :
        /\ w.path = p
        /\ ~HappensBefore(w.clock, held[s][p].clock)
        /\ held' = [held EXCEPT ![s][p] = AsHeld(w)]
        /\ UNCHANGED written

Next == \E s \in Stations, p \in ConflictPaths : Write(s, p) \/ Adopt(s, p)

Spec == Init /\ [][Next]_<<written, held>>
=============================================================================
