------------------------------ MODULE MCOplog ------------------------------
\* Values for the constants of Oplog.
EXTENDS Oplog

\* A drag, a row made within it, and the console's own.
Writes ==
    {[path |-> "field", gesture |-> "drag", authored |-> TRUE],
     [path |-> Create, gesture |-> "drag", authored |-> TRUE],
     [path |-> "field", gesture |-> NoGesture, authored |-> FALSE]}

\* What no run claims (README, "Met on the way"): that nothing slips, that a floor
\* read is still the floor when the rows are, and that a number no row has is
\* remembered.
NothingSlips == \A r \in whole \ log : r.seq <= floor[r.node]
ReadInOnePiece == [][ReadRows => Since(whole, reading.known) \ slipped \subseteq log]_vars
NoNumberTwice == given[Here] <= clock[Here]
NothingSlippedIsForgotten == \A r \in whole : r.seq <= clock[r.node]
=============================================================================
