------------------------------ MODULE Session ------------------------------
(***************************************************************************)
(* Who leads a session: joining and leaving, the election that follows a   *)
(* lost leader, the promotion, the stand-in, and the lead handed back.     *)
(*                                                                         *)
(* Each station is a sync manager (the links, who leads, who the members   *)
(* are) and a session manager (what the operator asked for, the advert,    *)
(* what is gone back to).  They are two tasks: the session manager waits   *)
(* for a dial, the sync manager never does.  A link is a socket with a     *)
(* peer task at each end, and either end may go before the other notices.  *)
(*                                                                         *)
(* Every station is configured to remember what it joins.  A station's     *)
(* address stands for the station, and `stations` has a row for each.      *)
(***************************************************************************)
EXTENDS Naturals, Sequences, FiniteSetsExt, SequencesExt

CONSTANTS
    Stations,    \* station ids, ordered as numbers
    Home,        \* who leads at the start, where the stations start together
    Links,       \* places for links, {1, ..., n}: bounds the links at one time
    Plans,       \* what may happen: who crashes, which links drop, who is told what
    MaxFaults,   \* bound on crashes and dropped links
    Timely       \* ticks and restarts come after what takes no time to speak of

ASSUME StationsAssumption == Stations \subseteq Nat \ {0} /\ Home \in Stations
ASSUME LinksAssumption == Links \subseteq Nat \ {0}
ASSUME BoundsAssumption == MaxFaults \in Nat /\ Timely \in BOOLEAN

None == 0

Orders == {"create", "join", "joinAt", "leave"}

ASSUME PlansAssumption ==
    Plans \subseteq [together : BOOLEAN, crashing : SUBSET Stations,
                     dropping : SUBSET Stations,
                     orders : SUBSET (Stations \X Orders \X (Stations \cup {None}))]

VARIABLES
    up,          \* the stations running
    session,     \* session[s]: what s's session manager holds
    joining,     \* joining[s]: the join it waits for
    promotions,  \* promotions[s]: Promote commands waiting for it
    adverts,     \* the stations whose session is announced on the network
    remembered,  \* remembered[s]: the leader written down, across restarts
    sync,        \* sync[s]: what s's sync manager holds
    asked,       \* asked[s]: what the session manager asked of the sync manager
    pending,     \* pending[s]: finished handshakes waiting to be registered
    links,       \* links[k]: whose socket it is and what is left of it
    left,        \* stations last told to be in no session (history)
    plan,        \* what may happen in this behaviour
    given,       \* the orders of the plan that have been given
    faults       \* how many so far (bounds the model)

sessionVars == <<session, joining, promotions, adverts, remembered, left>>
syncVars == <<sync, asked, pending, links>>
planVars == <<plan, given, faults>>
vars == <<up, sessionVars, syncVars, planVars>>

-----------------------------------------------------------------------------
\* Links.  ends: the peer tasks still at work on it; ending: those that are
\* over and have not told their manager; wire[s]: frames s has not read.

NoLink == [from |-> None, to |-> None, ends |-> {}, ending |-> {},
           wire |-> [s \in Stations |-> <<>>]]

Far(k, s) == IF links[k].from = s THEN links[k].to ELSE links[k].from

\* A place nothing refers to any more.
Free(k) ==
    /\ links[k] = NoLink
    /\ \A s \in Stations : /\ \A t \in Stations : sync[s].peers[t] # k
                           /\ \A i \in DOMAIN pending[s] : pending[s][i].link # k

Tidied(l) == IF l.ends \cup l.ending = {} THEN NoLink ELSE [l EXCEPT !.wire = NoLink.wire]

\* The sender is dropped and the peer task of s ends.
TaskOver(l, s) ==
    [l EXCEPT !.ends = @ \ {s}, !.ending = @ \cup {s}, !.wire = NoLink.wire]

Ended(ls, s, k) ==
    IF k # None /\ s \in ls[k].ends THEN [ls EXCEPT ![k] = TaskOver(@, s)] ELSE ls

\* The peer task of s has ended and has told its manager.
TaskGone(l, s) == Tidied([l EXCEPT !.ends = @ \ {s}, !.ending = @ \ {s}])

Gone(ls, s, k) == [ls EXCEPT ![k] = TaskGone(@, s)]

Sent(l, t, msg) == [l EXCEPT !.wire[t] = Append(@, msg)]

Live(s, k) == k # None /\ s \in links[k].ends

-----------------------------------------------------------------------------
\* The sync manager.  m is what that of s holds, with the links.

Holding(s) == [leader |-> sync[s].leader, members |-> sync[s].members,
               peers |-> sync[s].peers, links |-> links]

Peers(m) == {t \in Stations : m.peers[t] # None}

\* A peer whose task has ended is dropped.
FanOut(m, s, msg) ==
    LET heard(k) == \E t \in Peers(m) : m.peers[t] = k /\ {s, t} \subseteq m.links[k].ends
    IN  [m EXCEPT
           !.peers = [t \in Stations |-> IF @[t] # None /\ s \in m.links[@[t]].ends
                                         THEN @[t] ELSE None],
           !.links = [k \in Links |-> IF heard(k)
                                      THEN Sent(@[k], Far(k, s), msg) ELSE @[k]]]

PublishMembers(m, s) ==
    LET members == Peers(m) \cup {s}
    IN  IF m.leader # s THEN m
        ELSE FanOut([m EXCEPT !.members = members], s,
                    [type |-> "members", members |-> members])

\* Fault: everybody who is left takes over.
ElectLeaderSelf(m, s, lost) ==
    PublishMembers([m EXCEPT !.leader = s, !.members = @ \ {lost}], s)

ElectLeader(m, s, lost) ==
    LET rest == m.members \ {lost}
        winner == IF rest = {} THEN s ELSE Min(rest)
        elected == [m EXCEPT !.leader = winner, !.members = rest]
    IN  IF winner = s
        THEN PublishMembers(FanOut(elected, s, [type |-> "leader", node |-> s]), s)
        ELSE elected

Becomes(s, m) ==
    /\ sync' = [sync EXCEPT ![s] = [leader |-> m.leader, members |-> m.members,
                                    peers |-> m.peers]]
    /\ links' = m.links

\* A second link to a peer takes the place of the first.
Register(s) ==
    LET new == Head(pending[s])
        m == [Holding(s) EXCEPT !.peers[new.peer] = new.link,
                                !.links = Ended(@, s, sync[s].peers[new.peer])]
    IN  /\ s \in up /\ pending[s] # <<>>
        /\ pending' = [pending EXCEPT ![s] = Tail(@)]
        /\ Becomes(s, PublishMembers(m, s))
        /\ UNCHANGED <<up, sessionVars, asked, planVars>>

Led(s, n) == [Holding(s) EXCEPT !.leader = n, !.members = @ \cup {n}]

\* What the session manager asked for, in order.
Obey(s) ==
    LET cmd == Head(asked[s])
        parted == [Holding(s) EXCEPT !.peers = [t \in Stations |-> None],
            !.links = [k \in Links |-> IF \E t \in Stations : sync[s].peers[t] = k
                                         /\ s \in @[k].ends
                                      THEN TaskOver(@[k], s) ELSE @[k]]]
    IN  /\ s \in up /\ asked[s] # <<>>
        /\ asked' = [asked EXCEPT ![s] = Tail(@)]
        /\ Becomes(s, IF cmd.type = "leader" THEN Led(s, cmd.node) ELSE parted)
        /\ UNCHANGED <<up, sessionVars, pending, planVars>>

\* What a peer says of the session, handed on by its task.
Hear(s, k) ==
    LET msg == Head(links[k].wire[s])
        m == IF msg.type = "leader" THEN Led(s, msg.node)
             ELSE [Holding(s) EXCEPT !.members = msg.members \cup {s}]
    IN  /\ s \in up /\ Live(s, k) /\ links[k].wire[s] # <<>>
        /\ Becomes(s, [m EXCEPT !.links[k].wire[s] = Tail(@)])
        /\ UNCHANGED <<up, sessionVars, asked, pending, planVars>>

\* A peer task is over, or finds the other end gone, at once or when its
\* timeout says so.  The peer is let go of by its id, whichever link it was.
PeerLost(s, k) ==
    LET t == Far(k, s)
        kept == sync[s].peers[t]
        m == [Holding(s) EXCEPT !.peers[t] = None,
                  !.links = IF kept # k THEN Ended(Gone(@, s, k), s, kept) ELSE Gone(@, s, k)]
        elects == t = m.leader
    IN  /\ s \in up
        /\ s \in links[k].ending \/ (Live(s, k) /\ t \notin links[k].ends)
        /\ Becomes(s, IF elects THEN ElectLeader(m, s, t) ELSE PublishMembers(m, s))
        /\ promotions' = [promotions EXCEPT ![s] =
              IF elects /\ ElectLeader(m, s, t).leader = s THEN @ + 1 ELSE @]
        /\ UNCHANGED <<up, session, joining, adverts, remembered, left, asked, pending,
                       planVars>>

\* A write goes to every peer, a station's report of itself every two seconds
\* if no other.  Here it only finds the peers whose task has ended.
Broadcast(s) ==
    /\ s \in up /\ \E t \in Stations : sync[s].peers[t] # None /\ ~Live(s, sync[s].peers[t])
    /\ sync' = [sync EXCEPT ![s].peers = [t \in Stations |-> IF Live(s, @[t]) THEN @[t] ELSE None]]
    /\ UNCHANGED <<up, sessionVars, asked, pending, links, planVars>>

-----------------------------------------------------------------------------
\* The session manager.  It does one thing at a time, and a join is one thing
\* from the dial to the answer.

Alone == [follower |-> FALSE, advertising |-> FALSE, named |-> FALSE,
          rejoin |-> None, handback |-> None, standIn |-> None]

NotJoining == [to |-> None, why |-> "none", answered |-> FALSE]

Join(t, why) == [to |-> t, why |-> why, answered |-> FALSE]

\* What the orphan tick has left to do.
Homeward == [to |-> None, why |-> "homeward", answered |-> FALSE]

Idle(s) == s \in up /\ joining[s] = NotJoining

\* What waits for a manager waits microseconds and what is on a wire
\* milliseconds, an operator and a ten second tick far longer: all but a tick
\* that is due already when a join ends find the station caught up.

CaughtUp(s) ==
    /\ asked[s] = <<>> /\ pending[s] = <<>> /\ promotions[s] = 0
    /\ \A k \in Links : s \notin links[k].ending /\ links[k].wire[s] = <<>>

\* Both ends of every link that is lost know.
Noticed ==
    \A k \in Links : links[k].ending = {} /\ links[k].ends = {links[k].from, links[k].to} \ {None}

Tick(s) == Idle(s) /\ (Timely => Noticed /\ CaughtUp(s))

\* Out of the session, and what is gone back to stays.
LetGo(ss) == [ss EXCEPT !.follower = FALSE, !.advertising = FALSE, !.named = FALSE]

Ordered(s, order, t) ==
    /\ Tick(s) /\ <<s, order, t>> \in plan.orders \ given
    /\ given' = given \cup {<<s, order, t>>}
    /\ UNCHANGED <<plan, faults>>

Create(s) ==
    /\ Ordered(s, "create", None)
    /\ remembered' = [remembered EXCEPT ![s] = None]
    /\ adverts' = adverts \cup {s}
    /\ session' = [session EXCEPT ![s] = [@ EXCEPT !.rejoin = None, !.handback = None,
                      !.advertising = TRUE, !.named = TRUE, !.follower = FALSE]]
    /\ left' = left \ {s}
    /\ UNCHANGED <<up, joining, promotions, syncVars>>

OrderJoin(s, t) ==
    /\ s # t
    /\ \/ Ordered(s, "join", t) /\ t \in adverts /\ joining' = [joining EXCEPT ![s] = Join(t, "join")]
       \/ Ordered(s, "joinAt", t) /\ joining' = [joining EXCEPT ![s] = Join(t, "joinAt")]
    /\ left' = left \ {s}
    /\ UNCHANGED <<up, session, promotions, adverts, remembered, syncVars>>

Leave(s) ==
    /\ Ordered(s, "leave", None)
    /\ remembered' = [remembered EXCEPT ![s] = None]
    /\ session' = [session EXCEPT ![s] = [LetGo(@) EXCEPT !.rejoin = None, !.handback = None]]
    /\ adverts' = IF session[s].advertising THEN adverts \ {s} ELSE adverts
    /\ asked' = IF ~session[s].advertising /\ session[s].follower
                THEN [asked EXCEPT ![s] = Append(@, [type |-> "disconnectAll"])] ELSE asked
    /\ left' = left \cup {s}
    /\ UNCHANGED <<up, joining, promotions, sync, pending, links>>

\* Fault: the station takes itself for a follower still.
PromotedFollowing(ss, home) ==
    IF ss.advertising \/ ~ss.named THEN ss
    ELSE [ss EXCEPT !.advertising = TRUE, !.handback = home]

\* Fault: nothing is handed back.
PromotedForGood(ss, home) ==
    IF ss.advertising \/ ~ss.named THEN ss
    ELSE [ss EXCEPT !.advertising = TRUE, !.follower = FALSE]

\* Ignored by a station that leads already, or is in no session.
Promoted(ss, home) ==
    IF ss.advertising \/ ~ss.named THEN ss
    ELSE [ss EXCEPT !.advertising = TRUE, !.follower = FALSE, !.handback = home]

Announced(s) == IF session'[s].advertising THEN adverts \cup {s} ELSE adverts

Promote(s) ==
    /\ Idle(s) /\ promotions[s] > 0
    /\ promotions' = [promotions EXCEPT ![s] = @ - 1]
    /\ session' = [session EXCEPT ![s] = Promoted(@, remembered[s])]
    /\ adverts' = Announced(s)
    /\ UNCHANGED <<up, joining, remembered, left, syncVars, planVars>>

-----------------------------------------------------------------------------
\* Joining.  The dialled station registers the link like the one that dialled.

Handshake(s, k) ==
    LET t == joining[s].to
    IN  /\ s \in up /\ t \in up /\ t # None /\ ~joining[s].answered
        /\ Free(k) /\ \A j \in Links : Free(j) => k <= j
        /\ links' = [links EXCEPT ![k] = [NoLink EXCEPT !.from = s, !.to = t,
                                                        !.ends = {s, t}]]
        /\ pending' = [pending EXCEPT ![s] = Append(@, [peer |-> t, link |-> k]),
                                        ![t] = Append(@, [peer |-> s, link |-> k])]
        /\ joining' = [joining EXCEPT ![s].answered = TRUE]
        /\ UNCHANGED <<up, session, promotions, adverts, remembered, left, sync, asked,
                       planVars>>

\* Fault: a stand-in is written down.
RemembersStandIn(s) == [remembered EXCEPT ![s] = joining[s].to]

RemembersJoined(s) ==
    IF joining[s].why = "standIn" THEN remembered
    ELSE [remembered EXCEPT ![s] = joining[s].to]

\* The answer comes: the station follows whom it dialled.
Joined(s) ==
    LET t == joining[s].to
        why == joining[s].why
        follows == [session[s] EXCEPT !.advertising = FALSE, !.follower = TRUE, !.named = TRUE]
    IN  /\ s \in up /\ joining[s].answered
        /\ asked' = [asked EXCEPT ![s] = Append(@, [type |-> "leader", node |-> t])]
        /\ remembered' = RemembersJoined(s)
        /\ session' = [session EXCEPT ![s] =
              CASE why = "join" -> follows
                [] why = "standIn" -> [follows EXCEPT !.standIn = remembered[s]]
                [] why = "rejoin" -> [follows EXCEPT !.standIn = None, !.rejoin = None]
                [] why = "handback" -> [follows EXCEPT !.standIn = None, !.handback = None]
                [] OTHER -> [follows EXCEPT !.standIn = None]]
        /\ joining' = [joining EXCEPT ![s] =
              IF why \in {"orphan", "standIn"} THEN Homeward ELSE NotJoining]
        /\ UNCHANGED <<up, promotions, adverts, left, sync, pending, links, planVars>>

\* Nobody answers.  An orphan tries whoever leads by its own election, then
\* goes on trying as after a restart; a lead that could not be handed back is
\* taken up again.
NobodyAnswers(s) ==
    LET why == joining[s].why
        tries == why = "orphan" /\ sync[s].leader # s
        givesUp == why \in {"orphan", "standIn"} /\ ~tries
    IN  /\ s \in up /\ joining[s].to # None /\ joining[s].to \notin up /\ ~joining[s].answered
        /\ why = "orphan" => asked[s] = <<>>
        /\ joining' = [joining EXCEPT ![s] =
              IF tries THEN Join(sync[s].leader, "standIn")
              ELSE IF givesUp THEN Homeward ELSE NotJoining]
        /\ session' = [session EXCEPT ![s] =
              IF why = "handback" THEN Promoted([@ EXCEPT !.follower = TRUE], remembered[s])
              ELSE IF givesUp THEN [@ EXCEPT !.rejoin = remembered[s]] ELSE @]
        /\ adverts' = IF why = "handback" THEN Announced(s) ELSE adverts
        /\ UNCHANGED <<up, promotions, remembered, left, syncVars, planVars>>

-----------------------------------------------------------------------------
\* Every ten seconds

TryRejoin(s) ==
    /\ Tick(s) /\ session[s].rejoin # None
    /\ IF session[s].follower \/ session[s].advertising
       THEN session' = [session EXCEPT ![s].rejoin = None] /\ UNCHANGED joining
       ELSE joining' = [joining EXCEPT ![s] = Join(session[s].rejoin, "rejoin")]
            /\ UNCHANGED session
    /\ UNCHANGED <<up, promotions, adverts, remembered, left, syncVars, planVars>>

\* Fault: the one that is linked to nobody waits for a restart.
OrphanedNever(s) == FALSE

Orphaned(s) ==
    /\ session[s].follower /\ ~session[s].advertising /\ session[s].rejoin = None
    /\ Peers(Holding(s)) = {} /\ remembered[s] # None

CheckOrphaned(s) ==
    /\ Tick(s) /\ asked[s] = <<>> /\ Orphaned(s)
    /\ session' = [session EXCEPT ![s] = LetGo(@)]
    /\ joining' = [joining EXCEPT ![s] = Join(remembered[s], "orphan")]
    /\ UNCHANGED <<up, promotions, adverts, remembered, left, syncVars, planVars>>

\* The second half of the same tick.
TryGoingHome(s) ==
    LET home == session[s].standIn
    IN  /\ \/ s \in up /\ joining[s] = Homeward
           \/ Tick(s) /\ ~Orphaned(s) /\ home # None /\ (session[s].advertising \/ home \in up)
        /\ session' = IF session[s].advertising THEN [session EXCEPT ![s].standIn = None]
                      ELSE session
        /\ joining' = [joining EXCEPT ![s] =
              IF ~session[s].advertising /\ home # None /\ home \in up
              THEN Join(home, "home") ELSE NotJoining]
        /\ UNCHANGED <<up, promotions, adverts, remembered, left, syncVars, planVars>>

\* Fault: the advert of the station that hands its lead back stays.
AdvertsKept(s) == adverts

AdvertsWithout(s) == adverts \ {s}

TryHandback(s) ==
    LET home == session[s].handback
    IN  /\ Tick(s) /\ home # None
        /\ \/ /\ ~session[s].advertising
              /\ session' = [session EXCEPT ![s].handback = None]
              /\ UNCHANGED <<joining, adverts>>
           \/ /\ session[s].advertising /\ home \in up
              /\ session' = [session EXCEPT ![s].advertising = FALSE]
              /\ adverts' = AdvertsWithout(s)
              /\ joining' = [joining EXCEPT ![s] = Join(home, "handback")]
        /\ UNCHANGED <<up, promotions, remembered, left, syncVars, planVars>>

-----------------------------------------------------------------------------
\* What goes wrong

Faulty == faults < MaxFaults /\ faults' = faults + 1 /\ UNCHANGED <<plan, given>>

Unlinked(s) == [leader |-> s, members |-> {s}, peers |-> [t \in Stations |-> None]]

Crash(s) ==
    /\ s \in up /\ s \in plan.crashing /\ Faulty
    /\ up' = up \ {s}
    /\ session' = [session EXCEPT ![s] = Alone]
    /\ joining' = [joining EXCEPT ![s] = NotJoining]
    /\ promotions' = [promotions EXCEPT ![s] = 0]
    /\ adverts' = adverts \ {s}
    /\ sync' = [sync EXCEPT ![s] = Unlinked(s)]
    /\ asked' = [asked EXCEPT ![s] = <<>>]
    /\ pending' = [pending EXCEPT ![s] = <<>>]
    /\ links' = [k \in Links |-> IF s \in links[k].ends \cup links[k].ending
                                 THEN TaskGone(links[k], s) ELSE links[k]]
    /\ UNCHANGED <<remembered, left>>

\* A station takes longer to start than its peers to notice that it went.
Restart(s) ==
    /\ s \notin up
    /\ Timely => Noticed /\ \A t \in up : Idle(t) /\ CaughtUp(t)
    /\ up' = up \cup {s}
    /\ session' = [session EXCEPT ![s].rejoin = remembered[s]]
    /\ UNCHANGED <<joining, promotions, adverts, remembered, left, syncVars, planVars>>

\* A peer task of s gives its link up while both stations run.
Drop(s, k) ==
    /\ s \in up /\ s \in plan.dropping /\ Live(s, k) /\ Faulty
    /\ links' = Ended(links, s, k)
    /\ UNCHANGED <<up, sessionVars, sync, asked, pending>>

-----------------------------------------------------------------------------

\* The others, each with the place of its link to Home.
Place(s) == Cardinality({t \in Stations \ {Home} : t <= s})

ASSUME PlacesAssumption == \A s \in Stations \ {Home} : Place(s) \in Links

InSession(s) ==
    IF s = Home THEN [Alone EXCEPT !.advertising = TRUE, !.named = TRUE]
    ELSE [Alone EXCEPT !.follower = TRUE, !.named = TRUE]

Linked(s) ==
    [leader |-> Home, members |-> Stations,
     peers |-> [t \in Stations |-> IF s = Home /\ t # Home THEN Place(t)
                                   ELSE IF s # Home /\ t = Home THEN Place(s) ELSE None]]

\* Nobody has joined anybody yet, or everybody has joined Home.
Init ==
    /\ plan \in Plans
    /\ up = Stations
    /\ joining = [s \in Stations |-> NotJoining]
    /\ promotions = [s \in Stations |-> 0]
    /\ asked = [s \in Stations |-> <<>>]
    /\ pending = [s \in Stations |-> <<>>]
    /\ left = {}
    /\ given = {} /\ faults = 0
    /\ IF plan.together
       THEN /\ session = [s \in Stations |-> InSession(s)]
            /\ sync = [s \in Stations |-> Linked(s)]
            /\ adverts = {Home}
            /\ remembered = [s \in Stations |-> IF s = Home THEN None ELSE Home]
            /\ links = [k \in Links |->
                  IF \E s \in Stations \ {Home} : Place(s) = k
                  THEN LET s == CHOOSE x \in Stations \ {Home} : Place(x) = k
                       IN  [NoLink EXCEPT !.from = s, !.to = Home, !.ends = {s, Home}]
                  ELSE NoLink]
       ELSE /\ session = [s \in Stations |-> Alone]
            /\ sync = [s \in Stations |-> Unlinked(s)]
            /\ adverts = {}
            /\ remembered = [s \in Stations |-> None]
            /\ links = [k \in Links |-> NoLink]

\* The sync manager and the peer tasks of s, and the join under way.
Work(s) ==
    \/ Register(s) \/ Obey(s) \/ Broadcast(s) \/ Joined(s) \/ NobodyAnswers(s)
    \/ \E k \in Links : Hear(s, k) \/ PeerLost(s, k) \/ Handshake(s, k)

\* What its session manager does of itself.
Turn(s) == Promote(s) \/ TryRejoin(s) \/ CheckOrphaned(s) \/ TryGoingHome(s) \/ TryHandback(s)

Order(s) == Create(s) \/ Leave(s) \/ \E t \in Stations : OrderJoin(s, t)

Fault(s) == Crash(s) \/ \E k \in Links : Drop(s, k)

Next == \E s \in Stations : Work(s) \/ Turn(s) \/ Order(s) \/ Fault(s) \/ Restart(s)

Spec == Init /\ [][Next]_vars

\* The tasks go on while they can, and a dial is answered or times out.  The
\* session manager's turns wait for its join to end, again and again: each is
\* an arm of one select and comes in the end.  Nobody has to restart a station.
FairSpec == Spec /\ \A s \in Stations : WF_vars(Work(s)) /\ SF_vars(Turn(s))

-----------------------------------------------------------------------------
\* Properties

TypeOK ==
    /\ up \subseteq Stations /\ adverts \subseteq up /\ left \subseteq Stations
    /\ \A s \in Stations :
          /\ session[s] \in [follower : BOOLEAN, advertising : BOOLEAN, named : BOOLEAN,
                             rejoin : Stations \cup {None}, handback : Stations \cup {None},
                             standIn : Stations \cup {None}]
          /\ ~(session[s].follower /\ session[s].advertising)
          /\ joining[s].to \in Stations \cup {None} /\ joining[s].answered \in BOOLEAN
          /\ promotions[s] \in Nat
          /\ remembered[s] \in (Stations \cup {None}) \ {s}
          /\ sync[s].leader \in Stations /\ sync[s].members \subseteq Stations
          /\ sync[s].peers \in [Stations -> Links \cup {None}]
          /\ \A t \in Stations : LET k == sync[s].peers[t]
                                 IN  Live(s, k) => {links[k].from, links[k].to} = {s, t}

\* Nothing is on its way and no tick has anything to do.
Quiet ==
    /\ \A s \in up :
          /\ asked[s] = <<>> /\ pending[s] = <<>> /\ joining[s] = NotJoining
          /\ promotions[s] = 0 /\ ~Orphaned(s)
          /\ \A t \in Stations : sync[s].peers[t] # None => Live(s, sync[s].peers[t])
          /\ {session[s].rejoin, session[s].standIn, session[s].handback} \cap up = {}
    /\ \A k \in Links : /\ links[k].ends = {links[k].from, links[k].to} \ {None}
                        /\ links[k].ending = {}
                        /\ \A s \in Stations : links[k].wire[s] = <<>>

\* Once things are quiet, a station that does not drive the rig is linked to
\* the one it follows, and that one drives and passes writes on
\* (check_orphaned, "A follower with nobody to follow goes back to the leader
\* it remembers").
FollowsADriver ==
    Quiet => \A s \in up : session[s].follower =>
        LET t == sync[s].leader
        IN  sync[s].peers[t] # None /\ ~session[t].follower /\ sync[t].leader = t

\* Once things are quiet, one of those that were in a session together drives
\* the rig and the others do not, linked to each other or not
\* (SessionManager::push_state tells each by is_follower; elect_leader,
\* "agreement is what prevents two nodes both driving the rig").
OneDriver ==
    plan.together /\ Quiet => Cardinality({s \in up : ~session[s].follower}) = 1

\* A station goes nowhere on its own after its operator took it out of its
\* session (remembered.rs, "A deliberate act forgets it").
LeavingIsFinal ==
    \A s \in left : ~session[s].follower /\ joining[s].to = None

\* A session is announced by the station that leads it and no other (of the
\* session advert, "that advert exists only while a station leads one").
AdvertisedWhileLeading == \A s \in adverts : session[s].advertising

\* No failover makes a station forget whom it joined (remembered.rs, "A
\* failover does not").
FailoverForgetsNothing == [][given' = {} => UNCHANGED remembered]_vars

\* Whatever crashed or was dropped: with every station running again, all come
\* to follow the leader they first joined (try_handback, check_orphaned and
\* try_going_home together).
Together ==
    /\ ~session[Home].follower /\ sync[Home].leader = Home
    /\ \A s \in Stations \ {Home} :
          /\ session[s].follower /\ sync[s].leader = Home
          /\ sync[s].peers[Home] # None /\ sync[Home].peers[s] # None

ComesHome ==
    plan.together /\ plan.orders = {} /\ <>[](up = Stations) => <>[]Together
=============================================================================
