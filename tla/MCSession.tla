----------------------------- MODULE MCSession -----------------------------
\* Values for the constants of Session.
EXTENDS Session

Three == {1, 2, 3}
Places == 1..4

Plan(together, crashing, dropping, orders) ==
    [together |-> together, crashing |-> crashing, dropping |-> dropping, orders |-> orders]

\* The leader or a follower goes and comes back, or a link drops; or a
\* session is put together by hand and one station leaves it.
Formed(crashing, dropping) == Plan(TRUE, crashing, dropping, {})
ByHand ==
    Plan(FALSE, {}, {},
         {<<2, "create", None>>, <<1, "joinAt", 2>>, <<3, "join", 2>>, <<3, "leave", None>>})
Failover ==
    {Formed({s}, {}) : s \in Stations} \cup {Formed({}, Stations), ByHand}

\* A station follows a stand-in and is taken out of the session.
LeavesAStandIn == {Plan(TRUE, {Home}, {}, {<<3, "leave", None>>})}

\* A plan no run has (README, "Met on the way"): a station that leads a session
\* joins another.
JoinsWhileLeading == {Plan(FALSE, {}, {}, {<<1, "create", None>>, <<1, "joinAt", 2>>})}
=============================================================================
