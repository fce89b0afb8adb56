---------------------------- MODULE VectorClock ----------------------------
(***************************************************************************)
(* The vector clock every replicated write carries                         *)
(* (crates/pult-schema/src/events/operation.rs).                           *)
(*                                                                         *)
(* The code keeps a map from station to counter in which a station that    *)
(* never counted is absent.  Every reader of the map takes an absent       *)
(* counter for 0, so a clock is a total function from stations to Nat.     *)
(***************************************************************************)
EXTENDS Integers

Clock(S) == [S -> Nat]

ZeroClock(S) == [n \in S |-> 0]

Increment(c, n) == [c EXCEPT ![n] = @ + 1]

\* Fault: the comparison the wrong way round.
MergeFlipped(c, d) == [n \in DOMAIN c |-> IF d[n] < c[n] THEN d[n] ELSE c[n]]

Merge(c, d) == [n \in DOMAIN c |-> IF d[n] > c[n] THEN d[n] ELSE c[n]]

LeqClock(c, d) == \A n \in DOMAIN c : c[n] <= d[n]

\* Nowhere ahead of d, and behind it somewhere.
HappensBefore(c, d) ==
    /\ LeqClock(c, d)
    /\ \E n \in DOMAIN c : c[n] < d[n]

Concurrent(c, d) == ~HappensBefore(c, d) /\ ~HappensBefore(d, c)
=============================================================================
