--------------------------- MODULE MCReplication ---------------------------
(* Instances of Replication for TLC. *)
EXTENDS Replication

Three == 1..3

\* Two followers at one field; one operator at everything there is; one
\* follower deleting the row another replaces.  The leader only relays.
LeaderRelays ==
    {{1, 3} \X {"name"},
     {3} \X Paths,
     {<<1, "row">>, <<3, "delete">>}}

\* A plan no run has (README, "Met on the way"): every station at one field.
AllAtOnce == {Three \X {"name"}}
=============================================================================
