---------------------------- MODULE MCReconnect ----------------------------
\* Values for the constants of Reconnect.
EXTENDS Reconnect

Cue == {"cue"}
Live == {"live"}
NoPaths == {}

\* Both work while the link is down; the leader comes back to a follower that
\* worked on; the follower comes back to a leader that worked on.
Returns ==
    {[writing |-> Stations \X {"apart"}, restarting |-> {}],
     [writing |-> {Follower} \X {"apart", "linked"}, restarting |-> {Leader}],
     [writing |-> {Leader} \X {"apart", "linked"}, restarting |-> {Follower}]}

\* Both work at any moment and nobody restarts; the follower restarts while it
\* works on alone.
Breaks ==
    {[writing |-> Stations \X Moments, restarting |-> {}],
     [writing |-> {<<Follower, "apart">>}, restarting |-> {Follower}]}

\* Work goes on while a link is made.
MeetingAtWork == {[writing |-> Stations \X {"joining"}, restarting |-> {}]}

\* Plans no run has (README, "Met on the way"): both work while the link
\* is down; the follower works on alone and has its link back; both work at
\* any moment the link is not being made, and the leader restarts; the follower
\* works on alone and both restart.
WorkingApart == {[writing |-> Stations \X {"apart"}, restarting |-> {}]}
AloneThenBack == {[writing |-> {<<Follower, "apart">>}, restarting |-> {}]}
LeaderBack == {[writing |-> Stations \X {"apart", "linked"}, restarting |-> {Leader}]}
BothBack == {[writing |-> {<<Follower, "apart">>}, restarting |-> Stations]}
=============================================================================
