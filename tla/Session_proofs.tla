--------------------------- MODULE Session_proofs ---------------------------
(***************************************************************************)
(* For any stations, links, plans and faults: until an operator gives an   *)
(* order no station forgets whom it joined; as long as no operator has a   *)
(* station that leads join another, the sessions that are announced are    *)
(* those that somebody leads; and what the session manager and the sync    *)
(* manager keep is of its type, which takes knowing that a follower        *)
(* announces nothing and that a peer is at the other end of its link.      *)
(***************************************************************************)
EXTENDS Session, Library_proofs, TLAPS

-----------------------------------------------------------------------------
(***************************************************************************)
(* What a station's session manager is made of.                            *)
(***************************************************************************)
SessionShape(x) ==
    x = [follower |-> x.follower, advertising |-> x.advertising, named |-> x.named,
         rejoin |-> x.rejoin, handback |-> x.handback, standIn |-> x.standIn]

JoiningShape(x) == x = [to |-> x.to, why |-> x.why, answered |-> x.answered]

OfStations(f) == f = [s \in Stations |-> f[s]]

Shapes ==
    /\ OfStations(session) /\ OfStations(joining) /\ OfStations(remembered)
    /\ \A s \in Stations : SessionShape(session[s]) /\ JoiningShape(joining[s])

(***************************************************************************)
(* Whom a station goes back to of itself is whom it remembers, unless it   *)
(* is a stand-in, who is not written down.                                 *)
(***************************************************************************)
GoesBackTo(ss, j, home) ==
    /\ {ss.rejoin, ss.handback, ss.standIn} \subseteq {None, home}
    /\ j.why \notin {"join", "joinAt"}
    /\ j.to # None /\ j.why # "standIn" => j.to = home
    /\ j.answered => j.to # None

AllGoBack == \A s \in Stations : GoesBackTo(session[s], joining[s], remembered[s])

(***************************************************************************)
(* Who is announced leads, and is not on its way to somebody else.         *)
(***************************************************************************)
Announces(s) ==
    s \in adverts => /\ session[s].advertising
                     /\ joining[s].to = None /\ ~joining[s].answered

AllAnnounce == adverts \subseteq Stations /\ \A s \in Stations : Announces(s)

JoinsFromOutside == \A s, t \in Stations : OrderJoin(s, t) => ~session[s].advertising

Keeps ==
    /\ Shapes'
    /\ given' = {} => given = {}
    /\ given' = {} /\ AllGoBack => AllGoBack' /\ remembered' = remembered
    /\ AllAnnounce /\ JoinsFromOutside => AllAnnounce'

LEMMA NotHeld ==
    ASSUME Shapes, UNCHANGED <<session, joining, remembered, adverts, given>>
    PROVE  Keeps
BY DEF Shapes, OfStations, AllGoBack, AllAnnounce, Announces, Keeps

(***************************************************************************)
(* A step is one station's: the others are as they were.                   *)
(***************************************************************************)
LEMMA OneStation ==
    ASSUME Shapes, NEW s \in Stations, NEW ss, NEW j, NEW home,
           session' = [session EXCEPT ![s] = ss], SessionShape(ss),
           joining' = [joining EXCEPT ![s] = j], JoiningShape(j),
           remembered' = [remembered EXCEPT ![s] = home],
           given' = {} => given = {},
           given' = {} /\ GoesBackTo(session[s], joining[s], remembered[s])
               => GoesBackTo(ss, j, home) /\ home = remembered[s],
           adverts' \subseteq adverts \cup {s},
           Announces(s) /\ JoinsFromOutside /\ s \in adverts'
               => ss.advertising /\ j.to = None /\ ~j.answered
    PROVE  Keeps
<1>1. /\ session'[s] = ss /\ joining'[s] = j /\ remembered'[s] = home
      /\ \A t \in Stations : t # s => /\ session'[t] = session[t] /\ joining'[t] = joining[t]
                                      /\ remembered'[t] = remembered[t]
                                      /\ t \in adverts' => t \in adverts
  BY DEF Shapes, OfStations
<1>2. OfStations(session') /\ OfStations(joining') /\ OfStations(remembered')
  BY DEF Shapes, OfStations
<1>3. Shapes'
  BY <1>1, <1>2 DEF Shapes, OfStations
<1>4. given' = {} /\ AllGoBack => AllGoBack' /\ remembered' = remembered
  <2> SUFFICES ASSUME given' = {}, AllGoBack PROVE AllGoBack' /\ remembered' = remembered
    OBVIOUS
  <2>1. AllGoBack'
    BY <1>1 DEF AllGoBack
  <2>2. home = remembered[s]
    BY DEF AllGoBack
  <2>3. remembered' = remembered
    BY <2>2 DEF Shapes, OfStations
  <2> QED BY <2>1, <2>3
<1>5. AllAnnounce /\ JoinsFromOutside => AllAnnounce'
  BY <1>1 DEF AllAnnounce, Announces
<1> QED BY <1>3, <1>4, <1>5 DEF Keeps

(***************************************************************************)
(* A record with some of its fields replaced has the others as they were.  *)
(***************************************************************************)
LEMMA Replaced ==
    ASSUME NEW x, SessionShape(x), NEW f, NEW a, NEW n, NEW r, NEW h, NEW i, NEW y,
           y = [x EXCEPT !.follower = f, !.advertising = a, !.named = n, !.rejoin = r,
                         !.handback = h, !.standIn = i]
    PROVE  /\ SessionShape(y) /\ y.follower = f /\ y.advertising = a /\ y.named = n
           /\ y.rejoin = r /\ y.handback = h /\ y.standIn = i
BY DEF SessionShape

-----------------------------------------------------------------------------
(***************************************************************************)
(* The orders of an operator.                                              *)
(***************************************************************************)
LEMMA CreateKeeps ==
    ASSUME Shapes, NEW s \in Stations, Create(s)
    PROVE  Keeps
<1>1. SessionShape(session[s]) /\ JoiningShape(joining[s]) /\ joining[s] = NotJoining
      /\ OfStations(joining) /\ given' # {}
  BY DEF Shapes, Create, Ordered, Tick, Idle
<1> PICK x : x = session[s]
  OBVIOUS
<1> PICK y : y = [x EXCEPT !.rejoin = None, !.handback = None, !.advertising = TRUE,
                           !.named = TRUE, !.follower = FALSE]
  OBVIOUS
<1>2. SessionShape(y) /\ y.advertising
  BY <1>1 DEF SessionShape
<1>3. /\ session' = [session EXCEPT ![s] = y] /\ joining' = [joining EXCEPT ![s] = joining[s]]
      /\ remembered' = [remembered EXCEPT ![s] = None] /\ adverts' = adverts \cup {s}
  BY <1>1 DEF Create, OfStations
<1> QED BY <1>1, <1>2, <1>3, OneStation DEF NotJoining

LEMMA OrderJoinKeeps ==
    ASSUME Shapes, NEW s \in Stations, NEW t \in Stations, OrderJoin(s, t)
    PROVE  Keeps
<1>1. SessionShape(session[s]) /\ OfStations(session) /\ OfStations(remembered) /\ given' # {}
  BY DEF Shapes, OrderJoin, Ordered
<1>2. PICK why \in {"join", "joinAt"} : joining' = [joining EXCEPT ![s] = Join(t, why)]
  BY DEF OrderJoin
<1>3. /\ session' = [session EXCEPT ![s] = session[s]] /\ adverts' = adverts
      /\ remembered' = [remembered EXCEPT ![s] = remembered[s]]
  BY <1>1 DEF OrderJoin, OfStations
<1>4. JoiningShape(Join(t, why))
  BY DEF JoiningShape, Join
<1>5. Announces(s) /\ JoinsFromOutside /\ s \in adverts' => FALSE
  BY <1>3 DEF Announces, JoinsFromOutside
<1> QED BY <1>1, <1>2, <1>3, <1>4, <1>5, OneStation

LEMMA LeaveKeeps ==
    ASSUME Shapes, NEW s \in Stations, Leave(s)
    PROVE  Keeps
<1>1. SessionShape(session[s]) /\ JoiningShape(joining[s])
      /\ OfStations(joining) /\ given' # {}
  BY DEF Shapes, Leave, Ordered
<1> PICK x : x = session[s]
  OBVIOUS
<1> PICK z : z = LetGo(x)
  OBVIOUS
<1> PICK y : y = [z EXCEPT !.rejoin = None, !.handback = None]
  OBVIOUS
<1>2. SessionShape(z)
  BY <1>1 DEF SessionShape, LetGo
<1>3. SessionShape(y)
  BY <1>2 DEF SessionShape
<1>4. /\ session' = [session EXCEPT ![s] = y] /\ joining' = [joining EXCEPT ![s] = joining[s]]
      /\ remembered' = [remembered EXCEPT ![s] = None]
      /\ adverts' = IF session[s].advertising THEN adverts \ {s} ELSE adverts
  BY <1>1 DEF Leave, OfStations
<1>5. Announces(s) => s \notin adverts'
  BY <1>4 DEF Announces
<1> QED BY <1>1, <1>3, <1>4, <1>5, OneStation

-----------------------------------------------------------------------------
(***************************************************************************)
(* What a station does of itself.                                          *)
(***************************************************************************)
LEMMA PromotedShape ==
    ASSUME NEW x, SessionShape(x), NEW home
    PROVE  /\ SessionShape(Promoted(x, home))
           /\ x.advertising => Promoted(x, home).advertising
           /\ Promoted(x, home).rejoin = x.rejoin /\ Promoted(x, home).standIn = x.standIn
           /\ Promoted(x, home).handback \in {x.handback, home}
BY DEF SessionShape, Promoted

LEMMA PromoteKeeps ==
    ASSUME Shapes, NEW s \in Stations, Promote(s)
    PROVE  Keeps
<1>1. /\ SessionShape(session[s]) /\ JoiningShape(joining[s]) /\ joining[s] = NotJoining
      /\ OfStations(session) /\ OfStations(joining) /\ OfStations(remembered)
  BY DEF Shapes, Promote, Idle
<1> PICK y : y = Promoted(session[s], remembered[s])
  OBVIOUS
<1>2. /\ session' = [session EXCEPT ![s] = y] /\ joining' = [joining EXCEPT ![s] = joining[s]]
      /\ remembered' = [remembered EXCEPT ![s] = remembered[s]] /\ given' = given
      /\ adverts' = IF y.advertising THEN adverts \cup {s} ELSE adverts
  BY <1>1 DEF Promote, OfStations, Announced, planVars
<1>3. /\ SessionShape(y)
      /\ session[s].advertising => y.advertising
      /\ y.rejoin = session[s].rejoin /\ y.standIn = session[s].standIn
      /\ y.handback \in {session[s].handback, remembered[s]}
  BY <1>1, PromotedShape
<1>4. Announces(s) /\ s \in adverts' => y.advertising /\ joining[s].to = None
                                          /\ ~joining[s].answered
  BY <1>1, <1>2, <1>3 DEF Announces, NotJoining
<1>5. GoesBackTo(session[s], joining[s], remembered[s])
         => GoesBackTo(y, joining[s], remembered[s])
  BY <1>3 DEF GoesBackTo
<1>6. adverts' \subseteq adverts \cup {s}
  BY <1>2
<1> QED BY <1>1, <1>2, <1>3, <1>4, <1>5, <1>6, OneStation

LEMMA HandshakeKeeps ==
    ASSUME Shapes, NEW s \in Stations, NEW k, Handshake(s, k)
    PROVE  Keeps
<1>1. /\ SessionShape(session[s]) /\ JoiningShape(joining[s])
      /\ OfStations(session) /\ OfStations(joining) /\ OfStations(remembered)
  BY DEF Shapes
<1> PICK y : y = [joining[s] EXCEPT !.answered = TRUE]
  OBVIOUS
<1>2. /\ session' = [session EXCEPT ![s] = session[s]] /\ joining' = [joining EXCEPT ![s] = y]
      /\ remembered' = [remembered EXCEPT ![s] = remembered[s]] /\ given' = given
      /\ adverts' = adverts /\ joining[s].to # None
  BY <1>1 DEF Handshake, OfStations, planVars
<1>3. JoiningShape(y) /\ y.to = joining[s].to /\ y.why = joining[s].why
  BY <1>1 DEF JoiningShape
<1>4. Announces(s) => s \notin adverts'
  BY <1>2 DEF Announces
<1> QED BY <1>1, <1>2, <1>3, <1>4, OneStation DEF GoesBackTo

LEMMA JoinedKeeps ==
    ASSUME Shapes, NEW s \in Stations, Joined(s)
    PROVE  Keeps
<1>1. /\ SessionShape(session[s]) /\ JoiningShape(joining[s])
      /\ OfStations(session) /\ OfStations(joining) /\ OfStations(remembered)
      /\ joining[s].answered
  BY DEF Shapes, Joined
<1> PICK x, why, home : x = session[s] /\ why = joining[s].why /\ home = remembered[s]
  OBVIOUS
<1> PICK f : f = [x EXCEPT !.advertising = FALSE, !.follower = TRUE, !.named = TRUE]
  OBVIOUS
<1> PICK y : y = CASE why = "join" -> f
                   [] why = "standIn" -> [f EXCEPT !.standIn = home]
                   [] why = "rejoin" -> [f EXCEPT !.standIn = None, !.rejoin = None]
                   [] why = "handback" -> [f EXCEPT !.standIn = None, !.handback = None]
                   [] OTHER -> [f EXCEPT !.standIn = None]
  OBVIOUS
<1> PICK j : j = IF why \in {"orphan", "standIn"} THEN Homeward ELSE NotJoining
  OBVIOUS
<1> PICK h : h = IF why = "standIn" THEN home ELSE joining[s].to
  OBVIOUS
<1>2. session' = [session EXCEPT ![s] = y]
  BY DEF Joined
<1>3. joining' = [joining EXCEPT ![s] = j] /\ given' = given /\ adverts' = adverts
  BY DEF Joined, planVars
<1>4. remembered' = [remembered EXCEPT ![s] = h]
  BY <1>1 DEF Joined, RemembersJoined, OfStations
<1>5. SessionShape(f) /\ f.rejoin = x.rejoin /\ f.handback = x.handback /\ f.standIn = x.standIn
  BY <1>1 DEF SessionShape
<1>6. /\ SessionShape(y)
      /\ y.rejoin \in {None, x.rejoin} /\ y.handback \in {None, x.handback}
      /\ y.standIn \in {None, x.standIn, home}
  <2>1. CASE why = "join"
    BY <1>5, <2>1
  <2>2. CASE why = "standIn"
    BY <1>5, <2>2 DEF SessionShape
  <2>3. CASE why = "rejoin"
    BY <1>5, <2>3 DEF SessionShape
  <2>4. CASE why = "handback"
    BY <1>5, <2>4 DEF SessionShape
  <2>5. CASE why \notin {"join", "standIn", "rejoin", "handback"}
    BY <1>5, <2>5 DEF SessionShape
  <2> QED BY <2>1, <2>2, <2>3, <2>4, <2>5
<1>7. JoiningShape(j) /\ j.to = None /\ ~j.answered /\ j.why \notin {"join", "joinAt"}
  BY DEF JoiningShape, Homeward, NotJoining
<1>8. Announces(s) => s \notin adverts'
  BY <1>1, <1>3 DEF Announces
<1>9. GoesBackTo(session[s], joining[s], remembered[s]) => GoesBackTo(y, j, h) /\ h = home
  BY <1>1, <1>6, <1>7 DEF GoesBackTo
<1> QED BY <1>1, <1>2, <1>3, <1>4, <1>6, <1>7, <1>8, <1>9, OneStation

LEMMA NobodyAnswersKeeps ==
    ASSUME Shapes, NEW s \in Stations, NobodyAnswers(s)
    PROVE  Keeps
<1>1. /\ SessionShape(session[s]) /\ JoiningShape(joining[s])
      /\ OfStations(session) /\ OfStations(joining) /\ OfStations(remembered)
      /\ joining[s].to # None
  BY DEF Shapes, NobodyAnswers
<1> PICK x, why, home : x = session[s] /\ why = joining[s].why /\ home = remembered[s]
  OBVIOUS
<1> PICK tries \in BOOLEAN : tries = (why = "orphan" /\ sync[s].leader # s)
  OBVIOUS
<1> PICK givesUp \in BOOLEAN : givesUp = (why \in {"orphan", "standIn"} /\ ~tries)
  OBVIOUS
<1> PICK j : j = IF tries THEN Join(sync[s].leader, "standIn")
                 ELSE IF givesUp THEN Homeward ELSE NotJoining
  OBVIOUS
<1> PICK y : y = IF why = "handback" THEN Promoted([x EXCEPT !.follower = TRUE], home)
                 ELSE IF givesUp THEN [x EXCEPT !.rejoin = home] ELSE x
  OBVIOUS
<1>2. joining' = [joining EXCEPT ![s] = j]
  BY DEF NobodyAnswers
<1>3. session' = [session EXCEPT ![s] = y]
  BY DEF NobodyAnswers
<1>4. /\ remembered' = [remembered EXCEPT ![s] = home] /\ given' = given
      /\ why # "handback" => adverts' = adverts
      /\ why = "handback" => adverts' = IF y.advertising THEN adverts \cup {s} ELSE adverts
  BY <1>1, <1>3 DEF NobodyAnswers, OfStations, Announced, planVars
<1>5. /\ SessionShape(y) /\ y.standIn = x.standIn
      /\ y.rejoin \in {x.rejoin, home} /\ y.handback \in {x.handback, home}
  <2>1. PICK z : z = [x EXCEPT !.follower = TRUE]
    OBVIOUS
  <2>2. /\ SessionShape(z) /\ z.standIn = x.standIn /\ z.rejoin = x.rejoin
        /\ z.handback = x.handback
    BY <1>1, <2>1 DEF SessionShape
  <2>3. CASE why = "handback"
    BY <2>1, <2>2, <2>3, PromotedShape
  <2>4. CASE why # "handback" /\ givesUp
    BY <1>1, <2>4 DEF SessionShape
  <2>5. CASE why # "handback" /\ ~givesUp
    BY <1>1, <2>5
  <2> QED BY <2>3, <2>4, <2>5
<1>6. /\ JoiningShape(j) /\ ~j.answered /\ j.why \notin {"join", "joinAt"}
      /\ j.why # "standIn" => j.to = None
      /\ why = "handback" => j.to = None
  BY DEF JoiningShape, Homeward, NotJoining, Join
<1>7. Announces(s) /\ s \in adverts' => y.advertising /\ j.to = None /\ ~j.answered
  BY <1>1, <1>4, <1>6 DEF Announces
<1>8. GoesBackTo(session[s], joining[s], remembered[s]) => GoesBackTo(y, j, home)
  BY <1>5, <1>6 DEF GoesBackTo
<1>9. adverts' \subseteq adverts \cup {s}
  BY <1>4
<1> QED BY <1>1, <1>2, <1>3, <1>4, <1>5, <1>6, <1>7, <1>8, <1>9, OneStation

-----------------------------------------------------------------------------
(***************************************************************************)
(* Every ten seconds, and what goes wrong.                                 *)
(***************************************************************************)
LEMMA TryRejoinKeeps ==
    ASSUME Shapes, NEW s \in Stations, TryRejoin(s)
    PROVE  Keeps
<1>1. /\ SessionShape(session[s]) /\ JoiningShape(joining[s]) /\ session[s].rejoin # None
      /\ OfStations(session) /\ OfStations(joining) /\ OfStations(remembered)
      /\ remembered' = remembered /\ adverts' = adverts /\ given' = given
  BY DEF Shapes, TryRejoin, planVars
<1> PICK x : x = session[s]
  OBVIOUS
<1>2. remembered' = [remembered EXCEPT ![s] = remembered[s]]
  BY <1>1 DEF OfStations
<1>3. CASE x.follower \/ x.advertising
  <2> PICK y : y = [x EXCEPT !.rejoin = None]
    OBVIOUS
  <2>1. /\ session' = [session EXCEPT ![s] = y]
        /\ joining' = [joining EXCEPT ![s] = joining[s]]
    BY <1>1, <1>3 DEF TryRejoin, OfStations
  <2>2. /\ SessionShape(y) /\ y.rejoin = None /\ y.handback = x.handback /\ y.standIn = x.standIn
        /\ y.advertising = x.advertising
    BY <1>1 DEF SessionShape
  <2>3. GoesBackTo(session[s], joining[s], remembered[s])
           => GoesBackTo(y, joining[s], remembered[s])
    BY <2>2 DEF GoesBackTo
  <2>4. Announces(s) /\ s \in adverts' => y.advertising /\ joining[s].to = None
                                            /\ ~joining[s].answered
    BY <1>1, <2>2 DEF Announces
  <2>5. adverts' \subseteq adverts \cup {s}
    BY <1>1
  <2> QED BY <1>1, <1>2, <2>1, <2>2, <2>3, <2>4, <2>5, OneStation
<1>4. CASE ~(x.follower \/ x.advertising)
  <2> PICK j : j = Join(x.rejoin, "rejoin")
    OBVIOUS
  <2>1. session' = [session EXCEPT ![s] = x] /\ joining' = [joining EXCEPT ![s] = j]
    BY <1>1, <1>4 DEF TryRejoin, OfStations
  <2>2. JoiningShape(j) /\ j.to = x.rejoin /\ j.why = "rejoin" /\ ~j.answered
    BY DEF JoiningShape, Join
  <2>3. Announces(s) => s \notin adverts'
    BY <1>1, <1>4 DEF Announces
  <2> QED BY <1>1, <1>2, <2>1, <2>2, <2>3, OneStation DEF GoesBackTo
<1> QED BY <1>3, <1>4

LEMMA CheckOrphanedKeeps ==
    ASSUME Shapes, NEW s \in Stations, CheckOrphaned(s)
    PROVE  Keeps
<1>1. /\ SessionShape(session[s]) /\ JoiningShape(joining[s]) /\ ~session[s].advertising
      /\ OfStations(session) /\ OfStations(joining) /\ OfStations(remembered)
      /\ remembered' = remembered /\ adverts' = adverts /\ given' = given
  BY DEF Shapes, CheckOrphaned, Orphaned, planVars
<1> PICK x, home : x = session[s] /\ home = remembered[s]
  OBVIOUS
<1> PICK y : y = LetGo(x)
  OBVIOUS
<1> PICK j : j = Join(home, "orphan")
  OBVIOUS
<1>2. /\ session' = [session EXCEPT ![s] = y] /\ joining' = [joining EXCEPT ![s] = j]
      /\ remembered' = [remembered EXCEPT ![s] = home]
  BY <1>1 DEF CheckOrphaned, OfStations
<1>3. SessionShape(y) /\ y.rejoin = x.rejoin /\ y.handback = x.handback /\ y.standIn = x.standIn
  BY <1>1 DEF SessionShape, LetGo
<1>4. JoiningShape(j) /\ j.to = home /\ j.why = "orphan" /\ ~j.answered
  BY DEF JoiningShape, Join
<1>5. Announces(s) => s \notin adverts'
  BY <1>1 DEF Announces
<1>6. GoesBackTo(session[s], joining[s], remembered[s]) => GoesBackTo(y, j, home)
  BY <1>3, <1>4 DEF GoesBackTo
<1> QED BY <1>1, <1>2, <1>3, <1>4, <1>5, <1>6, OneStation

LEMMA TryGoingHomeKeeps ==
    ASSUME Shapes, NEW s \in Stations, TryGoingHome(s)
    PROVE  Keeps
<1>1. /\ SessionShape(session[s]) /\ JoiningShape(joining[s])
      /\ OfStations(session) /\ OfStations(joining) /\ OfStations(remembered)
      /\ remembered' = remembered /\ adverts' = adverts /\ given' = given
  BY DEF Shapes, TryGoingHome, planVars
<1> PICK x, home : x = session[s] /\ home = x.standIn
  OBVIOUS
<1> PICK y : y = IF x.advertising THEN [x EXCEPT !.standIn = None] ELSE x
  OBVIOUS
<1> PICK j : j = IF ~x.advertising /\ home # None /\ home \in up THEN Join(home, "home")
                 ELSE NotJoining
  OBVIOUS
<1>2. /\ session' = [session EXCEPT ![s] = y]
      /\ remembered' = [remembered EXCEPT ![s] = remembered[s]]
  BY <1>1 DEF TryGoingHome, OfStations
<1>3. joining' = [joining EXCEPT ![s] = j]
  BY DEF TryGoingHome
<1>4. /\ SessionShape(y) /\ y.rejoin = x.rejoin /\ y.handback = x.handback
      /\ y.standIn \in {None, x.standIn} /\ y.advertising = x.advertising
  BY <1>1 DEF SessionShape
<1>5. /\ JoiningShape(j) /\ ~j.answered /\ j.why \notin {"join", "joinAt"}
      /\ j.to # None => ~x.advertising /\ j.to = x.standIn
  BY DEF JoiningShape, NotJoining, Join
<1>6. Announces(s) /\ s \in adverts' => y.advertising /\ j.to = None /\ ~j.answered
  BY <1>1, <1>4, <1>5 DEF Announces
<1>7. GoesBackTo(session[s], joining[s], remembered[s]) => GoesBackTo(y, j, remembered[s])
  BY <1>4, <1>5 DEF GoesBackTo
<1> QED BY <1>1, <1>2, <1>3, <1>4, <1>5, <1>6, <1>7, OneStation

LEMMA TryHandbackKeeps ==
    ASSUME Shapes, NEW s \in Stations, TryHandback(s)
    PROVE  Keeps
<1>1. /\ SessionShape(session[s]) /\ JoiningShape(joining[s]) /\ session[s].handback # None
      /\ OfStations(session) /\ OfStations(joining) /\ OfStations(remembered)
      /\ remembered' = remembered /\ given' = given
  BY DEF Shapes, TryHandback, planVars
<1> PICK x : x = session[s]
  OBVIOUS
<1>2. remembered' = [remembered EXCEPT ![s] = remembered[s]]
  BY <1>1 DEF OfStations
<1>3. CASE /\ ~x.advertising /\ session' = [session EXCEPT ![s].handback = None]
           /\ UNCHANGED <<joining, adverts>>
  <2> PICK y : y = [x EXCEPT !.handback = None]
    OBVIOUS
  <2>1. /\ session' = [session EXCEPT ![s] = y]
        /\ joining' = [joining EXCEPT ![s] = joining[s]]
    BY <1>1, <1>3 DEF OfStations
  <2>2. /\ SessionShape(y) /\ y.rejoin = x.rejoin /\ y.handback = None /\ y.standIn = x.standIn
        /\ y.advertising = x.advertising
    BY <1>1 DEF SessionShape
  <2>3. GoesBackTo(session[s], joining[s], remembered[s])
           => GoesBackTo(y, joining[s], remembered[s])
    BY <2>2 DEF GoesBackTo
  <2>4. Announces(s) /\ s \in adverts' => y.advertising /\ joining[s].to = None
                                            /\ ~joining[s].answered
    BY <1>3, <2>2 DEF Announces
  <2>5. adverts' \subseteq adverts \cup {s}
    BY <1>3
  <2> QED BY <1>1, <1>2, <2>1, <2>2, <2>3, <2>4, <2>5, OneStation
<1>4. CASE /\ session' = [session EXCEPT ![s].advertising = FALSE]
           /\ adverts' = AdvertsWithout(s)
           /\ joining' = [joining EXCEPT ![s] = Join(x.handback, "handback")]
  <2> PICK y : y = [x EXCEPT !.advertising = FALSE]
    OBVIOUS
  <2> PICK j : j = Join(x.handback, "handback")
    OBVIOUS
  <2>1. /\ session' = [session EXCEPT ![s] = y] /\ joining' = [joining EXCEPT ![s] = j]
        /\ adverts' = adverts \ {s}
    BY <1>4 DEF AdvertsWithout
  <2>2. /\ SessionShape(y) /\ y.rejoin = x.rejoin /\ y.handback = x.handback
        /\ y.standIn = x.standIn
    BY <1>1 DEF SessionShape
  <2>3. JoiningShape(j) /\ j.to = x.handback /\ j.why = "handback" /\ ~j.answered
    BY DEF JoiningShape, Join
  <2>4. GoesBackTo(session[s], joining[s], remembered[s])
           => GoesBackTo(y, j, remembered[s])
    BY <2>2, <2>3 DEF GoesBackTo
  <2>5. adverts' \subseteq adverts \cup {s} /\ s \notin adverts'
    BY <2>1
  <2> QED BY <1>1, <1>2, <2>1, <2>2, <2>3, <2>4, <2>5, OneStation
<1> QED BY <1>3, <1>4 DEF TryHandback

LEMMA CrashKeeps ==
    ASSUME Shapes, NEW s \in Stations, Crash(s)
    PROVE  Keeps
<1>1. OfStations(remembered)
  BY DEF Shapes
<1>2. /\ session' = [session EXCEPT ![s] = Alone] /\ joining' = [joining EXCEPT ![s] = NotJoining]
      /\ remembered' = [remembered EXCEPT ![s] = remembered[s]] /\ adverts' = adverts \ {s}
      /\ given' = given
  BY <1>1 DEF Crash, OfStations, Faulty
<1>3. SessionShape(Alone) /\ JoiningShape(NotJoining)
  BY DEF SessionShape, JoiningShape, Alone, NotJoining
<1>4. GoesBackTo(Alone, NotJoining, remembered[s])
  BY DEF GoesBackTo, Alone, NotJoining
<1> QED BY <1>2, <1>3, <1>4, OneStation

LEMMA RestartKeeps ==
    ASSUME Shapes, NEW s \in Stations, Restart(s)
    PROVE  Keeps
<1>1. /\ SessionShape(session[s]) /\ JoiningShape(joining[s])
      /\ OfStations(session) /\ OfStations(joining) /\ OfStations(remembered)
  BY DEF Shapes
<1> PICK x, y : x = session[s] /\ y = [x EXCEPT !.rejoin = remembered[s]]
  OBVIOUS
<1>2. /\ session' = [session EXCEPT ![s] = y] /\ joining' = [joining EXCEPT ![s] = joining[s]]
      /\ remembered' = [remembered EXCEPT ![s] = remembered[s]] /\ adverts' = adverts
      /\ given' = given
  BY <1>1 DEF Restart, OfStations, planVars
<1>3. /\ SessionShape(y) /\ y.rejoin = remembered[s] /\ y.handback = x.handback
      /\ y.standIn = x.standIn /\ y.advertising = x.advertising
  BY <1>1 DEF SessionShape
<1>4. GoesBackTo(session[s], joining[s], remembered[s])
         => GoesBackTo(y, joining[s], remembered[s])
  BY <1>3 DEF GoesBackTo
<1>5. Announces(s) /\ s \in adverts' => y.advertising /\ joining[s].to = None
                                          /\ ~joining[s].answered
  BY <1>2, <1>3 DEF Announces
<1>6. adverts' \subseteq adverts \cup {s}
  BY <1>2
<1> QED BY <1>1, <1>2, <1>3, <1>4, <1>5, <1>6, OneStation

(***************************************************************************)
(* The sync manager, the links and their peer tasks have no say in it.     *)
(***************************************************************************)
LEMMA NextKeeps ==
    ASSUME Shapes, [Next]_vars
    PROVE  Keeps
<1>1. CASE UNCHANGED vars
  BY <1>1, NotHeld DEF vars, sessionVars, planVars
<1>2. CASE Next
  <2> PICK s \in Stations : Work(s) \/ Turn(s) \/ Order(s) \/ Fault(s) \/ Restart(s)
    BY <1>2 DEF Next
  <2>1. CASE Register(s) \/ Obey(s) \/ Broadcast(s) \/ \E k \in Links : Hear(s, k)
    BY <2>1, NotHeld DEF Register, Obey, Broadcast, Hear, sessionVars, planVars
  <2>2. CASE \E k \in Links : PeerLost(s, k)
    BY <2>2, NotHeld DEF PeerLost, planVars
  <2>3. CASE \E k \in Links : Drop(s, k)
    BY <2>3, NotHeld DEF Drop, Faulty, sessionVars
  <2>4. CASE \E k \in Links : Handshake(s, k)
    BY <2>4, HandshakeKeeps
  <2>5. CASE Joined(s) \/ NobodyAnswers(s)
    BY <2>5, JoinedKeeps, NobodyAnswersKeeps
  <2>6. CASE Turn(s)
    BY <2>6, PromoteKeeps, TryRejoinKeeps, CheckOrphanedKeeps, TryGoingHomeKeeps,
       TryHandbackKeeps DEF Turn
  <2>7. CASE Order(s)
    BY <2>7, CreateKeeps, LeaveKeeps, OrderJoinKeeps DEF Order
  <2>8. CASE Crash(s) \/ Restart(s)
    BY <2>8, CrashKeeps, RestartKeeps
  <2> QED BY <2>1, <2>2, <2>3, <2>4, <2>5, <2>6, <2>7, <2>8 DEF Work, Fault
<1> QED BY <1>1, <1>2

LEMMA InitHolds ==
    ASSUME Init
    PROVE  Shapes /\ AllGoBack /\ AllAnnounce
<1>1. SessionShape(Alone) /\ \A s \in Stations : SessionShape(InSession(s))
  BY DEF SessionShape, Alone, InSession
<1>2. JoiningShape(NotJoining)
  BY DEF JoiningShape, NotJoining
<1>3. /\ OfStations(session) /\ OfStations(joining) /\ OfStations(remembered)
      /\ \A s \in Stations : SessionShape(session[s]) /\ JoiningShape(joining[s])
  BY <1>1, <1>2 DEF Init, OfStations
<1>4. \A s \in Stations :
         /\ session[s] \in {Alone, InSession(s)} /\ joining[s] = NotJoining
         /\ s \in adverts => session[s] = InSession(Home)
  <2>1. /\ joining = [s \in Stations |-> NotJoining]
        /\ \/ session = [s \in Stations |-> InSession(s)] /\ adverts = {Home}
           \/ session = [s \in Stations |-> Alone] /\ adverts = {}
    BY DEF Init
  <2> QED BY <2>1
<1>5. \A s \in Stations : \A x \in {Alone, InSession(s)} :
         x.rejoin = None /\ x.handback = None /\ x.standIn = None
  <2> SUFFICES ASSUME NEW s \in Stations
               PROVE  \A x \in {Alone, InSession(s)} :
                         x.rejoin = None /\ x.handback = None /\ x.standIn = None
    OBVIOUS
  <2>1. Alone.rejoin = None /\ Alone.handback = None /\ Alone.standIn = None
    BY DEF Alone
  <2>2. InSession(s).rejoin = None /\ InSession(s).handback = None /\ InSession(s).standIn = None
    BY DEF Alone, InSession
  <2> QED BY <2>1, <2>2
<1>6. /\ NotJoining.to = None /\ NotJoining.why = "none" /\ ~NotJoining.answered
      /\ InSession(Home).advertising
  BY DEF NotJoining, InSession, Alone
<1>7. AllGoBack
  BY <1>4, <1>5, <1>6 DEF AllGoBack, GoesBackTo
<1>8. adverts \subseteq Stations
  BY StationsAssumption DEF Init
<1>9. AllAnnounce
  BY <1>4, <1>6, <1>8 DEF AllAnnounce, Announces
<1> QED BY <1>3, <1>7, <1>9 DEF Shapes

-----------------------------------------------------------------------------
(***************************************************************************)
(* No crash, lost link, election, stand-in, promotion or lead handed back  *)
(* makes a station forget whom it joined: SessionManager::remember, and    *)
(* everything try_rejoin, check_orphaned, try_going_home and try_handback  *)
(* go back to.                                                             *)
(***************************************************************************)
THEOREM NothingIsForgotten == Spec => FailoverForgetsNothing
<1> DEFINE Inv == Shapes /\ (given = {} => AllGoBack)
<1>1. Init => Inv
  BY InitHolds
<1>2. Inv /\ [Next]_vars => Inv' /\ [given' = {} => UNCHANGED remembered]_vars
  <2> SUFFICES ASSUME Inv, [Next]_vars PROVE Inv' /\ [given' = {} => UNCHANGED remembered]_vars
    OBVIOUS
  <2>1. Keeps
    BY NextKeeps
  <2> QED BY <2>1 DEF Keeps
<1> HIDE DEF Inv
<1> QED BY <1>1, <1>2, PTL DEF Spec, FailoverForgetsNothing

(***************************************************************************)
(* As long as no operator has a station that leads join another, whose     *)
(* advert join_session and join_at would leave up, every session announced *)
(* is announced by the station that leads it: promote, try_handback and    *)
(* the joins of the ticks.                                                 *)
(***************************************************************************)
THEOREM AdvertsAreTrue == Spec /\ [][JoinsFromOutside]_vars => []AdvertisedWhileLeading
<1> DEFINE Inv == Shapes /\ AllAnnounce
<1>1. Init => Inv
  BY InitHolds
<1>2. Inv /\ [Next]_vars /\ [JoinsFromOutside]_vars => Inv'
  <2> SUFFICES ASSUME Inv, [Next]_vars, [JoinsFromOutside]_vars PROVE Inv'
    OBVIOUS
  <2>1. CASE UNCHANGED vars
    BY <2>1 DEF Shapes, OfStations, AllAnnounce, Announces, vars, sessionVars
  <2>2. CASE JoinsFromOutside
    BY <2>2, NextKeeps DEF Keeps
  <2> QED BY <2>1, <2>2
<1>3. Inv => AdvertisedWhileLeading
  BY DEF AllAnnounce, Announces, AdvertisedWhileLeading
<1> HIDE DEF Inv
<1> QED BY <1>1, <1>2, <1>3, PTL DEF Spec

-----------------------------------------------------------------------------
(***************************************************************************)
(* Types.  What is on a wire, asked, handed over or kept of a link.        *)
(***************************************************************************)
Frames == [type : {"leader"}, node : Stations]
          \cup [type : {"members"}, members : SUBSET Stations]

Commands == [type : {"leader"}, node : Stations] \cup [type : {"disconnectAll"}]

Handed == [peer : Stations, link : Links]

Ends == Stations \cup {None}

Sockets == [from : Ends, to : Ends, ends : SUBSET Stations, ending : SUBSET Stations,
            wire : [Stations -> Seq(Frames)]]

Tables == [Stations -> Links \cup {None}]

Managers == [leader : Stations, members : SUBSET Stations, peers : Tables,
             links : [Links -> Sockets]]

\* Whoever is still at an end of link k is s or t.
Between(l, s, t) == s \in l.ends => {l.from, l.to} = {s, t}

(***************************************************************************)
(* Links end, and are otherwise between the same two.                      *)
(***************************************************************************)
Shrunk(l, r) == r.ends \subseteq l.ends /\ (r.ends # {} => r.from = l.from /\ r.to = l.to)

Fewer(ls, rs) == rs \in [Links -> Sockets] /\ \A k \in Links : Shrunk(ls[k], rs[k])

LEMMA NoneIsNot == None \notin Stations /\ None \notin Links
BY StationsAssumption, LinksAssumption DEF None

LEMMA EmptyWire == NoLink \in Sockets /\ NoLink.wire = [s \in Stations |-> <<>>] /\ NoLink.ends = {}
                   /\ NoLink.wire \in [Stations -> Seq(Frames)]
<1> PICK w : w = [s \in Stations |-> <<>>]
  OBVIOUS
<1>1. <<>> \in Seq(Frames)
  OBVIOUS
<1>2. w \in [Stations -> Seq(Frames)]
  BY <1>1
<1>3. NoLink = [from |-> None, to |-> None, ends |-> {}, ending |-> {}, wire |-> w]
  BY DEF NoLink
<1> QED BY <1>2, <1>3 DEF Sockets, Ends

LEMMA FewerStill ==
    ASSUME NEW ls, NEW rs, NEW qs, Fewer(ls, rs), Fewer(rs, qs)
    PROVE  Fewer(ls, qs)
BY DEF Fewer, Shrunk

LEMMA SameLinks ==
    ASSUME NEW ls \in [Links -> Sockets]
    PROVE  Fewer(ls, ls)
BY DEF Fewer, Shrunk

LEMMA OneFewer ==
    ASSUME NEW ls \in [Links -> Sockets], NEW k \in Links, NEW l \in Sockets, Shrunk(ls[k], l)
    PROVE  Fewer(ls, [ls EXCEPT ![k] = l])
BY DEF Fewer, Shrunk

LEMMA TaskOverIs ==
    ASSUME NEW l \in Sockets, NEW s \in Stations
    PROVE  TaskOver(l, s) \in Sockets /\ Shrunk(l, TaskOver(l, s))
BY EmptyWire DEF Sockets, Shrunk, TaskOver

LEMMA EndedIs ==
    ASSUME NEW ls \in [Links -> Sockets], NEW s \in Stations, NEW k
    PROVE  Fewer(ls, Ended(ls, s, k))
<1>1. CASE k # None /\ s \in ls[k].ends /\ k \in Links
  <2>1. ls[k] \in Sockets /\ k \in Links
    BY <1>1
  <2>2. TaskOver(ls[k], s) \in Sockets /\ Shrunk(ls[k], TaskOver(ls[k], s))
    BY <2>1, TaskOverIs
  <2>3. Ended(ls, s, k) = [ls EXCEPT ![k] = TaskOver(ls[k], s)]
    BY <1>1 DEF Ended
  <2> QED BY <2>1, <2>2, <2>3, OneFewer
<1>2. CASE ~(k # None /\ s \in ls[k].ends)
  BY <1>2, SameLinks DEF Ended
<1>3. CASE k # None /\ s \in ls[k].ends /\ k \notin Links
  <2>1. Ended(ls, s, k) = ls
    BY <1>3 DEF Ended
  <2> QED BY <2>1, SameLinks
<1> QED BY <1>1, <1>2, <1>3

LEMMA TidiedIs ==
    ASSUME NEW l \in Sockets
    PROVE  Tidied(l) \in Sockets /\ Shrunk(l, Tidied(l))
<1> PICK r : r = [l EXCEPT !.wire = NoLink.wire]
  OBVIOUS
<1>1. r \in Sockets /\ Shrunk(l, r)
  BY EmptyWire DEF Sockets, Shrunk
<1>2. Tidied(l) \in {NoLink, r}
  BY DEF Tidied
<1> QED BY <1>1, <1>2, EmptyWire DEF Shrunk

LEMMA TaskGoneIs ==
    ASSUME NEW l \in Sockets, NEW s \in Stations
    PROVE  TaskGone(l, s) \in Sockets /\ Shrunk(l, TaskGone(l, s))
<1> PICK r : r = [l EXCEPT !.ends = @ \ {s}, !.ending = @ \ {s}]
  OBVIOUS
<1>1. r \in Sockets /\ Shrunk(l, r)
  BY DEF Sockets, Shrunk
<1>2. Tidied(r) \in Sockets /\ Shrunk(r, Tidied(r))
  BY <1>1, TidiedIs
<1>3. TaskGone(l, s) = Tidied(r)
  BY DEF TaskGone
<1> QED BY <1>1, <1>2, <1>3 DEF Shrunk

LEMMA GoneIs ==
    ASSUME NEW ls \in [Links -> Sockets], NEW s \in Stations, NEW k \in Links
    PROVE  Fewer(ls, Gone(ls, s, k))
<1>1. ls[k] \in Sockets
  OBVIOUS
<1>2. TaskGone(ls[k], s) \in Sockets /\ Shrunk(ls[k], TaskGone(ls[k], s))
  BY <1>1, TaskGoneIs
<1>3. Gone(ls, s, k) = [ls EXCEPT ![k] = TaskGone(ls[k], s)]
  BY DEF Gone
<1> QED BY <1>2, <1>3, OneFewer

-----------------------------------------------------------------------------
(***************************************************************************)
(* The sync manager: what it makes of its peers and of the links.          *)
(***************************************************************************)
Knows(s, m) ==
    \A t \in Stations : m.peers[t] # None => Between(m.links[m.peers[t]], s, t)

Manages(s, m) == m \in Managers /\ Fewer(links, m.links) /\ Knows(s, m)

PendingOK(s) ==
    \A i \in DOMAIN pending[s] : Between(links[pending[s][i].link], s, pending[s][i].peer)

SyncOK ==
    /\ sync \in [Stations -> [leader : Stations, members : SUBSET Stations, peers : Tables]]
    /\ links \in [Links -> Sockets]
    /\ asked \in [Stations -> Seq(Commands)]
    /\ pending \in [Stations -> Seq(Handed)]
    /\ \A s \in Stations : Knows(s, Holding(s)) /\ PendingOK(s)

LEMMA StillBetween ==
    ASSUME NEW l, NEW r, Shrunk(l, r), NEW s, NEW t, Between(l, s, t)
    PROVE  Between(r, s, t)
BY DEF Shrunk, Between

LEMMA HoldingIs ==
    ASSUME SyncOK, NEW s \in Stations
    PROVE  Manages(s, Holding(s))
<1>1. Fewer(links, links)
  BY SameLinks DEF SyncOK
<1>2. Holding(s) \in Managers /\ Holding(s).links = links
  BY DEF SyncOK, Holding, Managers
<1> QED BY <1>1, <1>2 DEF SyncOK, Manages

\* The links get fewer, the peers too.
LEMMA ManagesStill ==
    ASSUME NEW s \in Stations, NEW m, Manages(s, m), NEW n \in Managers,
           Fewer(m.links, n.links),
           \A t \in Stations : n.peers[t] \in {None, m.peers[t]}
    PROVE  Manages(s, n)
<1>1. Fewer(links, n.links)
  BY FewerStill DEF Manages
<1>2. ASSUME NEW t \in Stations, n.peers[t] # None
      PROVE  Between(n.links[n.peers[t]], s, t)
  <2>1. n.peers[t] \in Links /\ n.peers[t] = m.peers[t]
    BY <1>2 DEF Managers, Tables
  <2>2. Between(m.links[m.peers[t]], s, t)
    BY <1>2, <2>1 DEF Manages, Knows
  <2>3. Shrunk(m.links[n.peers[t]], n.links[n.peers[t]])
    BY <2>1 DEF Fewer
  <2> QED BY <2>1, <2>2, <2>3, StillBetween
<1> QED BY <1>1, <1>2 DEF Manages, Knows

LEMMA SentIs ==
    ASSUME NEW l \in Sockets, NEW t, NEW msg \in Frames
    PROVE  Sent(l, t, msg) \in Sockets /\ Shrunk(l, Sent(l, t, msg))
<1> PICK w : w = [l.wire EXCEPT ![t] = Append(@, msg)]
  OBVIOUS
<1>1. l.wire \in [Stations -> Seq(Frames)]
  BY DEF Sockets
<1>2. w \in [Stations -> Seq(Frames)]
  <2>1. ASSUME t \in Stations PROVE Append(l.wire[t], msg) \in Seq(Frames)
    <3>1. l.wire[t] \in Seq(Frames)
      BY <1>1, <2>1
    <3> QED BY <3>1
  <2> QED BY <1>1, <2>1
<1>3. Sent(l, t, msg) = [l EXCEPT !.wire = w]
  BY DEF Sent
<1> QED BY <1>2, <1>3 DEF Sockets, Shrunk

LEMMA FanOutIs ==
    ASSUME NEW s \in Stations, NEW m, Manages(s, m), NEW msg \in Frames
    PROVE  Manages(s, FanOut(m, s, msg)) /\ FanOut(m, s, msg).leader = m.leader
<1> DEFINE heard(k) == \E t \in Peers(m) : m.peers[t] = k /\ {s, t} \subseteq m.links[k].ends
<1> PICK ps : ps = [t \in Stations |-> IF m.peers[t] # None /\ s \in m.links[m.peers[t]].ends
                                      THEN m.peers[t] ELSE None]
  OBVIOUS
<1> PICK ls : ls = [k \in Links |-> IF heard(k) THEN Sent(m.links[k], Far(k, s), msg)
                                   ELSE m.links[k]]
  OBVIOUS
<1>1. m \in Managers /\ m.links \in [Links -> Sockets] /\ m.peers \in Tables
  BY DEF Manages, Managers
<1>2. FanOut(m, s, msg) = [m EXCEPT !.peers = ps, !.links = ls]
  BY DEF FanOut
<1>3. ps \in Tables /\ \A t \in Stations : ps[t] \in {None, m.peers[t]}
  BY <1>1 DEF Tables
<1>4. Fewer(m.links, ls)
  <2> HIDE DEF heard
  <2>1. ASSUME NEW k \in Links PROVE ls[k] \in Sockets /\ Shrunk(m.links[k], ls[k])
    <3>1. m.links[k] \in Sockets /\ Shrunk(m.links[k], m.links[k])
      BY <1>1 DEF Shrunk
    <3>2. ls[k] \in {Sent(m.links[k], Far(k, s), msg), m.links[k]}
      OBVIOUS
    <3> QED BY <3>1, <3>2, SentIs
  <2>2. ls = [k \in Links |-> ls[k]]
    OBVIOUS
  <2> QED BY <2>1, <2>2 DEF Fewer
<1> PICK n : n = [m EXCEPT !.peers = ps, !.links = ls]
  OBVIOUS
<1>5. n \in Managers /\ n.links = ls /\ n.peers = ps /\ n.leader = m.leader
  BY <1>1, <1>3, <1>4 DEF Managers, Fewer
<1>6. Manages(s, n)
  <2>1. /\ s \in Stations /\ Manages(s, m) /\ n \in Managers /\ Fewer(m.links, n.links)
        /\ \A t \in Stations : n.peers[t] \in {None, m.peers[t]}
    BY <1>3, <1>4, <1>5
  <2> QED BY ONLY <2>1, ManagesStill
<1>7. FanOut(m, s, msg) = n
  BY <1>2
<1> QED BY <1>5, <1>6, <1>7

LEMMA PublishIs ==
    ASSUME NEW s \in Stations, NEW m, Manages(s, m)
    PROVE  Manages(s, PublishMembers(m, s)) /\ PublishMembers(m, s).leader = m.leader
<1> PICK members : members = Peers(m) \cup {s}
  OBVIOUS
<1> PICK n : n = [m EXCEPT !.members = members]
  OBVIOUS
<1>1. members \subseteq Stations
  BY DEF Peers
<1>2. /\ n \in Managers /\ n.links = m.links /\ n.peers = m.peers /\ n.leader = m.leader
      /\ m.links \in [Links -> Sockets]
  BY <1>1 DEF Manages, Managers
<1>3. Manages(s, n)
  BY <1>2, SameLinks, ManagesStill
<1> PICK msg : msg = [type |-> "members", members |-> members]
  OBVIOUS
<1>4. msg \in Frames
  BY <1>1 DEF Frames
<1>5. PublishMembers(m, s) \in {m, FanOut(n, s, msg)}
  BY DEF PublishMembers
<1>6. Manages(s, FanOut(n, s, msg)) /\ FanOut(n, s, msg).leader = m.leader
  BY <1>2, <1>3, <1>4, FanOutIs
<1> QED BY <1>5, <1>6

LEMMA MinIsOne ==
    ASSUME NEW S \in SUBSET Nat, S # {}
    PROVE  Min(S) \in S
<1>1. PICK x \in S : \A y \in S : ~(<<y, x>> \in Before)
  BY BeforeIsWellFounded, WFMin
<1>2. ASSUME NEW y \in S PROVE x <= y
  <2>1. x \in Nat /\ y \in Nat /\ ~(<<y, x>> \in Before)
    BY <1>1
  <2> QED BY <2>1 DEF Before
<1>3. \E z \in S : \A y \in S : z <= y
  BY <1>2
<1> QED BY <1>3, Zenon DEF Min

LEMMA ElectIs ==
    ASSUME NEW s \in Stations, NEW m, Manages(s, m), NEW lost
    PROVE  Manages(s, ElectLeader(m, s, lost))
<1> PICK rest : rest = m.members \ {lost}
  OBVIOUS
<1> PICK winner : winner = IF rest = {} THEN s ELSE Min(rest)
  OBVIOUS
<1> PICK n : n = [m EXCEPT !.leader = winner, !.members = rest]
  OBVIOUS
<1> PICK msg : msg = [type |-> "leader", node |-> s]
  OBVIOUS
<1>1. rest \in SUBSET Stations /\ rest \in SUBSET Nat
  BY StationsAssumption DEF Manages, Managers
<1>2. winner \in Stations
  BY <1>1, MinIsOne
<1>3. /\ n \in Managers /\ n.links = m.links /\ n.peers = m.peers
      /\ m.links \in [Links -> Sockets]
  BY <1>1, <1>2 DEF Manages, Managers
<1>4. Manages(s, n)
  BY <1>3, SameLinks, ManagesStill
<1>5. msg \in Frames
  BY DEF Frames
<1>6. ElectLeader(m, s, lost) \in {PublishMembers(FanOut(n, s, msg), s), n}
  BY DEF ElectLeader
<1> QED BY <1>4, <1>5, <1>6, FanOutIs, PublishIs

\* What waits in g waited in f already.
WaitsIn(f, g) == \A t \in Stations : \A i \in DOMAIN g[t] : \E j \in DOMAIN f[t] : g[t][i] = f[t][j]

LEMMA BecomesKeeps ==
    ASSUME SyncOK, NEW s \in Stations, NEW m, Manages(s, m), Becomes(s, m),
           asked' \in [Stations -> Seq(Commands)], pending' \in [Stations -> Seq(Handed)],
           WaitsIn(pending, pending')
    PROVE  SyncOK'
<1> PICK x : x = [leader |-> m.leader, members |-> m.members, peers |-> m.peers]
  OBVIOUS
<1>1. /\ x \in [leader : Stations, members : SUBSET Stations, peers : Tables]
      /\ m.links \in [Links -> Sockets] /\ Fewer(links, m.links)
  BY DEF Manages, Managers
<1>2. sync' = [sync EXCEPT ![s] = x] /\ links' = m.links
  BY DEF Becomes
<1>3. /\ sync' \in [Stations -> [leader : Stations, members : SUBSET Stations, peers : Tables]]
      /\ sync'[s] = x /\ \A t \in Stations \ {s} : sync'[t] = sync[t]
  BY <1>1, <1>2 DEF SyncOK
<1>4. \A k \in Links : Shrunk(links[k], links'[k])
  BY <1>1, <1>2 DEF Fewer
<1>5. ASSUME NEW t \in Stations PROVE Knows(t, Holding(t))'
  <2>1. CASE t = s
    <3>1. Knows(s, m)
      BY DEF Manages
    <3>2. sync'[s].peers = m.peers
      BY <1>3
    <3> QED BY <1>2, <2>1, <3>1, <3>2 DEF Knows, Holding
  <2>2. CASE t # s
    <3>1. Holding(t)'.peers = sync[t].peers /\ Holding(t)'.links = links'
      BY <1>3, <2>2 DEF Holding
    <3>2. Holding(t).peers = sync[t].peers /\ Holding(t).links = links /\ Knows(t, Holding(t))
      BY DEF Holding, SyncOK
    <3>3. sync[t].peers \in Tables
      BY DEF SyncOK
    <3>4. ASSUME NEW u \in Stations, sync[t].peers[u] # None
          PROVE  Between(links'[sync[t].peers[u]], t, u)
      <4>1. sync[t].peers[u] \in Links
        BY <3>3, <3>4 DEF Tables
      <4>2. Between(links[sync[t].peers[u]], t, u)
        BY <3>2, <3>4 DEF Knows
      <4> QED BY <1>4, <4>1, <4>2, StillBetween
    <3> QED BY <3>1, <3>4 DEF Knows
  <2> QED BY <2>1, <2>2
<1>6. ASSUME NEW t \in Stations PROVE PendingOK(t)'
  <2>1. ASSUME NEW i \in DOMAIN pending'[t]
        PROVE  Between(links'[pending'[t][i].link], t, pending'[t][i].peer)
    <3>1. PICK j \in DOMAIN pending[t] : pending'[t][i] = pending[t][j]
      BY <2>1 DEF WaitsIn
    <3>2. Between(links[pending[t][j].link], t, pending[t][j].peer)
      BY DEF SyncOK, PendingOK
    <3>3. pending[t] \in Seq(Handed)
      BY DEF SyncOK
    <3>4. pending[t][j] \in Handed
      BY <3>3
    <3> QED BY <1>4, <3>1, <3>2, <3>4, StillBetween DEF Handed
  <2> QED BY <2>1 DEF PendingOK
<1> QED BY <1>1, <1>2, <1>3, <1>5, <1>6 DEF SyncOK

LEMMA NoneWaitsMore == WaitsIn(pending, pending)
BY DEF WaitsIn

LEMMA Taken ==
    ASSUME NEW V, NEW f \in [Stations -> Seq(V)], NEW s \in Stations, f[s] # <<>>
    PROVE  /\ [f EXCEPT ![s] = Tail(@)] \in [Stations -> Seq(V)] /\ Head(f[s]) \in V
           /\ WaitsIn(f, [f EXCEPT ![s] = Tail(@)])
<1> PICK g : g = [f EXCEPT ![s] = Tail(@)]
  OBVIOUS
<1>1. f[s] \in Seq(V)
  OBVIOUS
<1>2. /\ Tail(f[s]) \in Seq(V) /\ Head(f[s]) \in V
      /\ \A i \in DOMAIN Tail(f[s]) : i + 1 \in DOMAIN f[s] /\ Tail(f[s])[i] = f[s][i + 1]
  BY <1>1
<1>3. g \in [Stations -> Seq(V)] /\ g[s] = Tail(f[s]) /\ \A t \in Stations \ {s} : g[t] = f[t]
  BY <1>2
<1>4. WaitsIn(f, g)
  BY <1>2, <1>3 DEF WaitsIn
<1> QED BY <1>2, <1>3, <1>4

LEMMA Asked ==
    ASSUME NEW V, NEW S, NEW f \in [S -> Seq(V)], NEW s \in S, NEW v \in V,
           NEW g, g = [f EXCEPT ![s] = Append(@, v)]
    PROVE  /\ g \in [S -> Seq(V)]
           /\ \A t \in S : \A i \in DOMAIN g[t] :
                  \/ i \in DOMAIN f[t] /\ g[t][i] = f[t][i]
                  \/ t = s /\ g[t][i] = v
<1>1. f[s] \in Seq(V)
  OBVIOUS
<1>2. /\ Append(f[s], v) \in Seq(V)
      /\ \A i \in DOMAIN Append(f[s], v) :
             \/ i \in DOMAIN f[s] /\ Append(f[s], v)[i] = f[s][i]
             \/ Append(f[s], v)[i] = v
  BY <1>1
<1>3. g \in [S -> Seq(V)] /\ g[s] = Append(f[s], v) /\ \A t \in S \ {s} : g[t] = f[t]
  BY <1>2
<1> QED BY <1>2, <1>3

LEMMA RegisterLinks ==
    ASSUME SyncOK, NEW s \in Stations, Register(s)
    PROVE  SyncOK'
<1> PICK new : new = Head(pending[s])
  OBVIOUS
<1> PICK h : h = Holding(s)
  OBVIOUS
<1> PICK ls : ls = Ended(links, s, sync[s].peers[new.peer])
  OBVIOUS
<1> PICK m : m = [h EXCEPT !.peers[new.peer] = new.link, !.links = ls]
  OBVIOUS
<1>1. pending \in [Stations -> Seq(Handed)] /\ pending[s] # <<>>
      /\ pending' = [pending EXCEPT ![s] = Tail(@)]
      /\ links \in [Links -> Sockets] /\ asked \in [Stations -> Seq(Commands)]
  BY DEF SyncOK, Register
<1>2. Manages(s, h) /\ h.links = links /\ h.peers = sync[s].peers
  BY HoldingIs DEF Holding
<1>3. Becomes(s, PublishMembers(m, s)) /\ asked' = asked
  BY <1>2 DEF Register, Holding
<1>4. /\ pending' \in [Stations -> Seq(Handed)] /\ new \in Handed
      /\ WaitsIn(pending, pending')
  BY <1>1, Taken
<1>5. Between(links[new.link], s, new.peer)
  <2>1. pending[s] \in Seq(Handed) /\ PendingOK(s)
    BY DEF SyncOK
  <2>2. 1 \in DOMAIN pending[s] /\ pending[s][1] = new
    BY <1>1, <2>1
  <2> QED BY <2>1, <2>2 DEF PendingOK
<1>6. Fewer(links, ls)
  BY <1>1, EndedIs
<1>7. new.peer \in Stations /\ new.link \in Links
  BY <1>4 DEF Handed
<1>8. m \in Managers /\ m.links = ls /\ m.peers = [h.peers EXCEPT ![new.peer] = new.link]
  BY <1>2, <1>6, <1>7 DEF Manages, Managers, Tables, Fewer
<1>9. Knows(s, m)
  <2> SUFFICES ASSUME NEW t \in Stations, m.peers[t] # None
               PROVE  Between(m.links[m.peers[t]], s, t)
    BY DEF Knows
  <2>1. h.peers \in Tables
    BY <1>2 DEF Manages, Managers
  <2>2. CASE t = new.peer
    <3>1. m.peers[t] = new.link
      <4>1. m.peers = [h.peers EXCEPT ![new.peer] = new.link]
        BY <1>8
      <4> QED BY ONLY <2>1, <2>2, <1>7, <4>1 DEF Tables
    <3>2. Shrunk(links[new.link], ls[new.link])
      BY <1>6, <1>7 DEF Fewer
    <3>3. Between(ls[new.link], s, new.peer)
      BY ONLY <1>5, <3>2, StillBetween
    <3> QED BY ONLY <1>8, <2>2, <3>1, <3>3
  <2>3. CASE t # new.peer
    <3>1. m.peers[t] = h.peers[t] /\ h.peers[t] \in Links
      BY <1>7, <1>8, <2>1, <2>3 DEF Tables
    <3>2. Between(links[h.peers[t]], s, t)
      BY <1>2, <2>3, <3>1 DEF Manages, Knows
    <3>3. Shrunk(links[h.peers[t]], ls[h.peers[t]])
      BY <1>6, <3>1 DEF Fewer
    <3> QED BY <1>8, <3>1, <3>2, <3>3, StillBetween
  <2> QED BY <2>2, <2>3
<1>10. Manages(s, PublishMembers(m, s))
  BY <1>6, <1>8, <1>9, PublishIs DEF Manages
<1> QED BY ONLY SyncOK, s \in Stations, <1>1, <1>3, <1>4, <1>10, BecomesKeeps

LEMMA LedIs ==
    ASSUME SyncOK, NEW s \in Stations, NEW n \in Stations
    PROVE  Manages(s, Led(s, n))
<1> PICK h : h = Holding(s)
  OBVIOUS
<1> PICK members : members = h.members \cup {n}
  OBVIOUS
<1> PICK m : m = [h EXCEPT !.leader = n, !.members = members]
  OBVIOUS
<1>1. Manages(s, h) /\ Led(s, n) = m
  BY HoldingIs DEF Led
<1>3. members \subseteq Stations
  BY <1>1 DEF Manages, Managers
<1>2. m \in Managers /\ m.links = h.links /\ m.peers = h.peers /\ h.links \in [Links -> Sockets]
  BY <1>1, <1>3 DEF Manages, Managers
<1> QED BY <1>1, <1>2, SameLinks, ManagesStill

LEMMA ObeyLinks ==
    ASSUME SyncOK, NEW s \in Stations, Obey(s)
    PROVE  SyncOK'
<1> PICK cmd : cmd = Head(asked[s])
  OBVIOUS
<1> PICK h : h = Holding(s)
  OBVIOUS
<1> PICK ps : ps = [t \in Stations |-> None]
  OBVIOUS
<1> PICK ls : ls = [k \in Links |-> IF /\ \E t \in Stations : sync[s].peers[t] = k
                                      /\ s \in links[k].ends
                                   THEN TaskOver(links[k], s) ELSE links[k]]
  OBVIOUS
<1> PICK m : m = [h EXCEPT !.peers = ps, !.links = ls]
  OBVIOUS
<1>1. /\ asked \in [Stations -> Seq(Commands)] /\ asked[s] # <<>>
      /\ asked' = [asked EXCEPT ![s] = Tail(@)] /\ pending' = pending
      /\ links \in [Links -> Sockets] /\ pending \in [Stations -> Seq(Handed)]
  BY DEF SyncOK, Obey
<1>2. asked' \in [Stations -> Seq(Commands)] /\ cmd \in Commands
  BY <1>1, Taken
<1>3. Manages(s, h) /\ h.links = links
  BY HoldingIs DEF Holding
<1>4. Becomes(s, IF cmd.type = "leader" THEN Led(s, cmd.node) ELSE m)
  BY <1>3 DEF Obey, Holding
<1>5. CASE cmd.type = "leader"
  <2>1. cmd.node \in Stations
    BY <1>2, <1>5 DEF Commands
  <2>2. Manages(s, Led(s, cmd.node)) /\ Becomes(s, Led(s, cmd.node))
    BY <1>4, <1>5, <2>1, LedIs
  <2> QED BY <1>1, <1>2, <2>2, NoneWaitsMore, BecomesKeeps
<1>6. CASE cmd.type # "leader"
  <2>1. Fewer(links, ls)
    <3>1. ASSUME NEW k \in Links PROVE ls[k] \in Sockets /\ Shrunk(links[k], ls[k])
      <4>1. links[k] \in Sockets /\ Shrunk(links[k], links[k])
        BY <1>1 DEF Shrunk
      <4>2. ls[k] \in {TaskOver(links[k], s), links[k]}
        OBVIOUS
      <4> QED BY <4>1, <4>2, TaskOverIs
    <3>2. ls = [k \in Links |-> ls[k]]
      OBVIOUS
    <3> QED BY <3>1, <3>2 DEF Fewer
  <2>2. m \in Managers /\ m.links = ls /\ m.peers = ps
    BY <1>3, <2>1 DEF Manages, Managers, Tables, Fewer
  <2>3. Manages(s, m)
    BY <1>3, <2>1, <2>2 DEF Manages, Knows
  <2> QED BY <1>1, <1>2, <1>4, <1>6, <2>3, NoneWaitsMore, BecomesKeeps
<1> QED BY <1>5, <1>6

LEMMA HearLinks ==
    ASSUME SyncOK, NEW s \in Stations, NEW k \in Links, Hear(s, k)
    PROVE  SyncOK'
<1> PICK l : l = links[k]
  OBVIOUS
<1> PICK msg : msg = Head(l.wire[s])
  OBVIOUS
<1> PICK h : h = Holding(s)
  OBVIOUS
<1> PICK m : m = IF msg.type = "leader" THEN Led(s, msg.node)
                 ELSE [h EXCEPT !.members = msg.members \cup {s}]
  OBVIOUS
<1> PICK w : w = [l.wire EXCEPT ![s] = Tail(@)]
  OBVIOUS
<1> PICK r : r = [l EXCEPT !.wire = w]
  OBVIOUS
<1> PICK n : n = [m EXCEPT !.links = [links EXCEPT ![k] = r]]
  OBVIOUS
<1>1. /\ l \in Sockets /\ l.wire[s] # <<>> /\ links \in [Links -> Sockets]
      /\ asked \in [Stations -> Seq(Commands)] /\ pending \in [Stations -> Seq(Handed)]
      /\ asked' = asked /\ pending' = pending
  BY DEF SyncOK, Hear
<1>2. w \in [Stations -> Seq(Frames)] /\ msg \in Frames
  <2>1. l.wire \in [Stations -> Seq(Frames)]
    BY <1>1 DEF Sockets
  <2> QED BY <1>1, <2>1, Taken
<1>3. r \in Sockets /\ Shrunk(l, r)
  BY <1>1, <1>2 DEF Sockets, Shrunk
<1>4. Manages(s, h) /\ h.links = links
  BY HoldingIs DEF Holding
<1>5. Manages(s, m) /\ m.links = links
  <2>1. CASE msg.type = "leader"
    <3>1. msg.node \in Stations
      BY <1>2, <2>1 DEF Frames
    <3> QED BY <2>1, <3>1, LedIs DEF Led, Holding
  <2>2. CASE msg.type # "leader"
    <3>1. msg.members \subseteq Stations
      BY <1>2, <2>2 DEF Frames
    <3>2. m \in Managers /\ m.links = h.links /\ m.peers = h.peers
      BY <1>4, <2>2, <3>1 DEF Manages, Managers
    <3> QED BY <1>1, <1>4, <3>2, SameLinks, ManagesStill
  <2> QED BY <2>1, <2>2
<1>6. Fewer(links, [links EXCEPT ![k] = r])
  BY <1>1, <1>3, OneFewer
<1>7. n \in Managers /\ n.links = [links EXCEPT ![k] = r] /\ n.peers = m.peers
  BY <1>5, <1>6 DEF Manages, Managers, Fewer
<1>8. Manages(s, n)
  <2>1. /\ s \in Stations /\ n \in Managers /\ Fewer(m.links, n.links)
        /\ \A t \in Stations : n.peers[t] \in {None, m.peers[t]}
    BY <1>5, <1>6, <1>7
  <2> QED BY ONLY <1>5, <2>1, ManagesStill
<1>9. Becomes(s, n)
  <2>1. Becomes(s, [m EXCEPT !.links[k].wire[s] = Tail(l.wire[s])])
    BY <1>4, <1>5 DEF Hear, Holding
  <2>2. [m EXCEPT !.links[k].wire[s] = Tail(l.wire[s])] = n
    BY <1>5
  <2> QED BY <2>1, <2>2
<1> QED BY <1>1, <1>8, <1>9, NoneWaitsMore, BecomesKeeps

LEMMA PeerLostLinks ==
    ASSUME SyncOK, NEW s \in Stations, NEW k \in Links, PeerLost(s, k)
    PROVE  SyncOK'
<1> PICK t : t = Far(k, s)
  OBVIOUS
<1> PICK kept : kept = sync[s].peers[t]
  OBVIOUS
<1> PICK h : h = Holding(s)
  OBVIOUS
<1> PICK ls : ls = IF kept # k THEN Ended(Gone(links, s, k), s, kept) ELSE Gone(links, s, k)
  OBVIOUS
<1> PICK ps : ps = [h.peers EXCEPT ![t] = None]
  OBVIOUS
<1> PICK m : m = [h EXCEPT !.peers = ps, !.links = ls]
  OBVIOUS
<1>1. /\ links \in [Links -> Sockets]
      /\ asked \in [Stations -> Seq(Commands)] /\ pending \in [Stations -> Seq(Handed)]
      /\ asked' = asked /\ pending' = pending
  BY DEF SyncOK, PeerLost
<1>2. Manages(s, h) /\ h.links = links
  BY HoldingIs DEF Holding
<1>3. Fewer(links, ls)
  <2>1. Fewer(links, Gone(links, s, k)) /\ Gone(links, s, k) \in [Links -> Sockets]
    BY <1>1, GoneIs DEF Fewer
  <2>2. Fewer(Gone(links, s, k), Ended(Gone(links, s, k), s, kept))
    BY <2>1, EndedIs
  <2> QED BY <2>1, <2>2, FewerStill
<1>4. ps \in Tables /\ \A u \in Stations : ps[u] \in {None, h.peers[u]}
  BY <1>2 DEF Manages, Managers, Tables
<1>5. m \in Managers /\ m.links = ls /\ m.peers = ps
  BY <1>2, <1>3, <1>4 DEF Manages, Managers, Fewer
<1>6. Manages(s, m)
  <2>1. /\ s \in Stations /\ m \in Managers /\ Fewer(h.links, m.links)
        /\ \A u \in Stations : m.peers[u] \in {None, h.peers[u]}
    BY <1>2, <1>3, <1>4, <1>5
  <2> QED BY ONLY <1>2, <2>1, ManagesStill
<1>7. Becomes(s, IF t = m.leader THEN ElectLeader(m, s, t) ELSE PublishMembers(m, s))
  BY <1>2 DEF PeerLost, Holding
<1>8. Manages(s, ElectLeader(m, s, t)) /\ Manages(s, PublishMembers(m, s))
  BY <1>6, ElectIs, PublishIs
<1> QED BY <1>1, <1>7, <1>8, NoneWaitsMore, BecomesKeeps

LEMMA BroadcastLinks ==
    ASSUME SyncOK, NEW s \in Stations, Broadcast(s)
    PROVE  SyncOK'
<1> PICK h : h = Holding(s)
  OBVIOUS
<1> PICK ps : ps = [t \in Stations |-> IF Live(s, h.peers[t]) THEN h.peers[t] ELSE None]
  OBVIOUS
<1> PICK m : m = [h EXCEPT !.peers = ps]
  OBVIOUS
<1>1. /\ links \in [Links -> Sockets]
      /\ asked \in [Stations -> Seq(Commands)] /\ pending \in [Stations -> Seq(Handed)]
      /\ asked' = asked /\ pending' = pending /\ links' = links
      /\ sync[s] \in [leader : Stations, members : SUBSET Stations, peers : Tables]
  BY DEF SyncOK, Broadcast
<1>2. Manages(s, h) /\ h.links = links /\ h.leader = sync[s].leader
      /\ h.members = sync[s].members /\ h.peers = sync[s].peers
  BY HoldingIs DEF Holding
<1>3. ps \in Tables /\ \A t \in Stations : ps[t] \in {None, h.peers[t]}
  BY <1>2 DEF Manages, Managers, Tables
<1>4. /\ m \in Managers /\ m.links = links /\ m.peers = ps
      /\ m.leader = sync[s].leader /\ m.members = sync[s].members
  BY <1>2, <1>3 DEF Manages, Managers
<1>5. Manages(s, m)
  <2>1. /\ s \in Stations /\ m \in Managers /\ Fewer(h.links, m.links)
        /\ \A t \in Stations : m.peers[t] \in {None, h.peers[t]}
    BY <1>1, <1>2, <1>3, <1>4, SameLinks
  <2> QED BY ONLY <1>2, <2>1, ManagesStill
<1>6. Becomes(s, m)
  <2>1. sync' = [sync EXCEPT ![s].peers = ps]
    BY <1>2 DEF Broadcast
  <2> PICK x, y : x = sync[s] /\ y = [x EXCEPT !.peers = ps]
    OBVIOUS
  <2>4. /\ y \in [leader : Stations, members : SUBSET Stations, peers : Tables]
        /\ y.leader = x.leader /\ y.members = x.members /\ y.peers = ps
    BY <1>1, <1>3
  <2>5. y = [leader |-> y.leader, members |-> y.members, peers |-> y.peers]
    BY <2>4
  <2>2. [sync[s] EXCEPT !.peers = ps]
          = [leader |-> sync[s].leader, members |-> sync[s].members, peers |-> ps]
    BY <2>4, <2>5
  <2>3. sync' = [sync EXCEPT ![s] = [leader |-> sync[s].leader, members |-> sync[s].members,
                                    peers |-> ps]]
    BY <2>1, <2>2
  <2> QED BY <1>1, <1>4, <2>3 DEF Becomes
<1> QED BY <1>1, <1>5, <1>6, NoneWaitsMore, BecomesKeeps

LEMMA CrashLinks ==
    ASSUME SyncOK, NEW s \in Stations, Crash(s)
    PROVE  SyncOK'
<1> PICK ls : ls = [k \in Links |-> IF s \in links[k].ends \cup links[k].ending
                                   THEN TaskGone(links[k], s) ELSE links[k]]
  OBVIOUS
<1> PICK ps : ps = [t \in Stations |-> None]
  OBVIOUS
<1> PICK m : m = [leader |-> s, members |-> {s}, peers |-> ps, links |-> ls]
  OBVIOUS
<1>1. /\ links \in [Links -> Sockets]
      /\ asked \in [Stations -> Seq(Commands)] /\ pending \in [Stations -> Seq(Handed)]
      /\ asked' = [asked EXCEPT ![s] = <<>>] /\ pending' = [pending EXCEPT ![s] = <<>>]
      /\ links' = ls /\ sync' = [sync EXCEPT ![s] = Unlinked(s)]
  BY DEF SyncOK, Crash
<1>2. asked' \in [Stations -> Seq(Commands)] /\ pending' \in [Stations -> Seq(Handed)]
  <2>1. <<>> \in Seq(Commands) /\ <<>> \in Seq(Handed)
    OBVIOUS
  <2> QED BY <1>1, <2>1
<1>3. WaitsIn(pending, pending')
  BY <1>1 DEF WaitsIn
<1>4. Fewer(links, ls)
  <2>1. ASSUME NEW k \in Links PROVE ls[k] \in Sockets /\ Shrunk(links[k], ls[k])
    <3>1. links[k] \in Sockets /\ Shrunk(links[k], links[k])
      BY <1>1 DEF Shrunk
    <3>2. ls[k] \in {TaskGone(links[k], s), links[k]}
      OBVIOUS
    <3> QED BY <3>1, <3>2, TaskGoneIs
  <2>2. ls = [k \in Links |-> ls[k]]
    OBVIOUS
  <2> QED BY <2>1, <2>2 DEF Fewer
<1>5. m \in Managers
  BY <1>4 DEF Managers, Tables, Fewer
<1>6. Manages(s, m)
  BY <1>4, <1>5 DEF Manages, Knows
<1>7. Becomes(s, m)
  BY <1>1 DEF Becomes, Unlinked
<1> QED BY <1>2, <1>3, <1>6, <1>7, BecomesKeeps

LEMMA DropLinks ==
    ASSUME SyncOK, NEW s \in Stations, NEW k \in Links, Drop(s, k)
    PROVE  SyncOK'
<1> PICK h : h = Holding(s)
  OBVIOUS
<1> PICK m : m = [h EXCEPT !.links = links']
  OBVIOUS
<1>1. /\ links \in [Links -> Sockets]
      /\ asked \in [Stations -> Seq(Commands)] /\ pending \in [Stations -> Seq(Handed)]
      /\ asked' = asked /\ pending' = pending /\ links' = Ended(links, s, k) /\ sync' = sync
      /\ sync \in [Stations -> [leader : Stations, members : SUBSET Stations, peers : Tables]]
  BY DEF SyncOK, Drop
<1>2. Fewer(links, links')
  BY <1>1, EndedIs
<1>3. Manages(s, h) /\ h.links = links /\ h.leader = sync[s].leader
      /\ h.members = sync[s].members /\ h.peers = sync[s].peers
  BY HoldingIs DEF Holding
<1>4. /\ m \in Managers /\ m.links = links' /\ m.peers = sync[s].peers
      /\ m.leader = sync[s].leader /\ m.members = sync[s].members
  BY <1>2, <1>3 DEF Manages, Managers, Fewer
<1>5. Manages(s, m)
  <2>1. /\ s \in Stations /\ m \in Managers /\ Fewer(h.links, m.links)
        /\ \A t \in Stations : m.peers[t] \in {None, h.peers[t]}
    BY <1>2, <1>3, <1>4
  <2> QED BY ONLY <1>3, <2>1, ManagesStill
<1>6. Becomes(s, m)
  <2>1. sync[s] = [leader |-> sync[s].leader, members |-> sync[s].members,
                  peers |-> sync[s].peers]
    BY <1>1
  <2>2. sync' = [sync EXCEPT ![s] = [leader |-> m.leader, members |-> m.members,
                                    peers |-> m.peers]]
    BY <1>1, <1>4, <2>1
  <2> QED BY <1>4, <2>2 DEF Becomes
<1> QED BY <1>1, <1>5, <1>6, NoneWaitsMore, BecomesKeeps

LEMMA HandshakeLinks ==
    ASSUME SyncOK, NEW s \in Stations, NEW k \in Links, Handshake(s, k),
           joining[s].to \in (Stations \cup {None}) \ {s}
    PROVE  SyncOK'
<1> PICK t : t = joining[s].to
  OBVIOUS
<1> PICK l : l = [NoLink EXCEPT !.from = s, !.to = t, !.ends = {s, t}]
  OBVIOUS
<1> PICK a, b : a = [peer |-> t, link |-> k] /\ b = [peer |-> s, link |-> k]
  OBVIOUS
<1> PICK p : p = [pending EXCEPT ![s] = Append(@, a)]
  OBVIOUS
<1>1. /\ links \in [Links -> Sockets]
      /\ asked \in [Stations -> Seq(Commands)] /\ pending \in [Stations -> Seq(Handed)]
      /\ sync \in [Stations -> [leader : Stations, members : SUBSET Stations, peers : Tables]]
      /\ asked' = asked /\ sync' = sync /\ links' = [links EXCEPT ![k] = l]
      /\ pending' = [p EXCEPT ![t] = Append(@, b)] /\ t \in Stations
  <2>1. /\ t \in Stations /\ asked' = asked /\ sync' = sync /\ links' = [links EXCEPT ![k] = l]
    BY DEF Handshake
  <2>2. pending' = [pending EXCEPT ![s] = Append(@, a), ![t] = Append(@, b)]
    BY DEF Handshake
  <2>3. pending' = [p EXCEPT ![t] = Append(@, b)]
    <3>1. t # s /\ t \in Stations /\ pending \in [Stations -> Seq(Handed)]
      BY <2>1 DEF SyncOK
    <3>2. p[t] = pending[t]
      BY <3>1
    <3> QED BY <2>2, <3>2
  <2> QED BY <2>1, <2>3 DEF SyncOK
<1>2. Free(k)
  BY DEF Handshake
<1>3. l \in Sockets /\ l.from = s /\ l.to = t
  <2>1. NoLink \in Sockets
    BY EmptyWire
  <2> QED BY <1>1, <2>1 DEF Sockets, Ends
<1>4. links' \in [Links -> Sockets] /\ links'[k] = l /\ \A j \in Links \ {k} : links'[j] = links[j]
  BY <1>1, <1>3
<1>5. a \in Handed /\ b \in Handed
  BY <1>1 DEF Handed
<1>6. /\ p \in [Stations -> Seq(Handed)]
      /\ \A u \in Stations : \A i \in DOMAIN p[u] :
             \/ i \in DOMAIN pending[u] /\ p[u][i] = pending[u][i]
             \/ u = s /\ p[u][i] = a
  BY ONLY <1>1, <1>5, s \in Stations, p = [pending EXCEPT ![s] = Append(@, a)], Asked
<1>7. /\ pending' \in [Stations -> Seq(Handed)]
      /\ \A u \in Stations : \A i \in DOMAIN pending'[u] :
             \/ i \in DOMAIN p[u] /\ pending'[u][i] = p[u][i]
             \/ u = t /\ pending'[u][i] = b
  BY ONLY <1>1, <1>5, <1>6, Asked
<1>8. ASSUME NEW u \in Stations PROVE Knows(u, Holding(u))'
  <2>1. Holding(u)'.peers = sync[u].peers /\ Holding(u)'.links = links'
    BY <1>1 DEF Holding
  <2>2. Knows(u, Holding(u)) /\ Holding(u).peers = sync[u].peers /\ Holding(u).links = links
    BY DEF SyncOK, Holding
  <2>3. sync[u].peers \in Tables
    BY <1>1
  <2>4. ASSUME NEW v \in Stations, sync[u].peers[v] # None
        PROVE  Between(links'[sync[u].peers[v]], u, v)
    <3>1. sync[u].peers[v] \in Links \ {k}
      BY <1>2, <2>3, <2>4 DEF Free, Tables
    <3>2. Between(links[sync[u].peers[v]], u, v)
      BY <2>2, <2>4 DEF Knows
    <3> QED BY <1>4, <3>1, <3>2
  <2> QED BY <2>1, <2>4 DEF Knows
<1>9. ASSUME NEW u \in Stations PROVE PendingOK(u)'
  <2> SUFFICES ASSUME NEW i \in DOMAIN pending'[u]
               PROVE  Between(links'[pending'[u][i].link], u, pending'[u][i].peer)
    BY DEF PendingOK
  <2>1. CASE i \in DOMAIN pending[u] /\ pending'[u][i] = pending[u][i]
    <3>1. pending[u] \in Seq(Handed)
      BY <1>1
    <3>2. pending[u][i] \in Handed
      BY <2>1, <3>1
    <3>3. pending[u][i].link \in Links \ {k}
      BY <1>2, <2>1, <3>2 DEF Free, Handed
    <3>4. Between(links[pending[u][i].link], u, pending[u][i].peer)
      BY <2>1 DEF SyncOK, PendingOK
    <3> QED BY <1>4, <2>1, <3>3, <3>4
  <2>2. CASE u = s /\ pending'[u][i] = a
    <3>1. links'[a.link] = l /\ a.peer = t
      BY <1>4
    <3> QED BY <1>3, <2>2, <3>1 DEF Between
  <2>3. CASE u = t /\ pending'[u][i] = b
    <3>1. links'[b.link] = l /\ b.peer = s
      BY <1>4
    <3> QED BY <1>3, <2>3, <3>1 DEF Between
  <2> QED BY <1>6, <1>7, <2>1, <2>2, <2>3
<1> QED BY <1>1, <1>4, <1>7, <1>8, <1>9 DEF SyncOK

LEMMA AskedLinks ==
    ASSUME SyncOK, UNCHANGED <<sync, pending, links>>, asked' \in [Stations -> Seq(Commands)]
    PROVE  SyncOK'
BY DEF SyncOK, Knows, Holding, PendingOK

LEMMA AskedIs ==
    ASSUME SyncOK, NEW s \in Stations, NEW cmd \in Commands,
           asked' = [asked EXCEPT ![s] = Append(@, cmd)]
    PROVE  asked' \in [Stations -> Seq(Commands)]
<1>1. asked \in [Stations -> Seq(Commands)]
  BY DEF SyncOK
<1> QED BY <1>1, Asked

-----------------------------------------------------------------------------
(***************************************************************************)
(* The session manager: who follows does not announce itself, and nobody   *)
(* is on its way to itself.                                                *)
(***************************************************************************)
Sessions == [follower : BOOLEAN, advertising : BOOLEAN, named : BOOLEAN,
             rejoin : Ends, handback : Ends, standIn : Ends]

Reasons == {"none", "join", "joinAt", "rejoin", "orphan", "standIn", "home", "homeward",
            "handback"}

Joinings == [to : Ends, why : Reasons, answered : BOOLEAN]

Steady(s, ss, j, home) ==
    /\ ss \in Sessions /\ j \in Joinings /\ home \in Ends
    /\ ~(ss.follower /\ ss.advertising)
    /\ s \notin {ss.rejoin, ss.handback, ss.standIn, j.to, home}
    /\ j.why = "handback" => ~ss.advertising
    /\ j.answered => j.to # None

SessionOK ==
    /\ up \subseteq Stations /\ adverts \subseteq up /\ left \subseteq Stations
    /\ promotions \in [Stations -> Nat]
    /\ session \in [Stations -> Sessions] /\ joining \in [Stations -> Joinings]
    /\ remembered \in [Stations -> Ends]
    /\ \A s \in Stations : Steady(s, session[s], joining[s], remembered[s])

LEMMA OneSteady ==
    ASSUME SessionOK, NEW s \in Stations, NEW ss, NEW j, NEW home, Steady(s, ss, j, home),
           session' = [session EXCEPT ![s] = ss], joining' = [joining EXCEPT ![s] = j],
           remembered' = [remembered EXCEPT ![s] = home],
           up' \subseteq Stations, adverts' \subseteq up', left' \subseteq Stations,
           promotions' \in [Stations -> Nat]
    PROVE  SessionOK'
<1>1. ss \in Sessions /\ j \in Joinings /\ home \in Ends
  BY DEF Steady
<1>2. /\ session' \in [Stations -> Sessions] /\ joining' \in [Stations -> Joinings]
      /\ remembered' \in [Stations -> Ends]
      /\ session'[s] = ss /\ joining'[s] = j /\ remembered'[s] = home
      /\ \A t \in Stations \ {s} : /\ session'[t] = session[t] /\ joining'[t] = joining[t]
                                   /\ remembered'[t] = remembered[t]
  BY <1>1 DEF SessionOK
<1>3. ASSUME NEW t \in Stations PROVE Steady(t, session'[t], joining'[t], remembered'[t])
  <2>1. CASE t = s
    BY <1>2, <2>1
  <2>2. CASE t # s
    BY <1>2, <2>2 DEF SessionOK
  <2> QED BY <2>1, <2>2
<1> QED BY <1>2, <1>3 DEF SessionOK

LEMMA IsSteady ==
    ASSUME SessionOK, NEW s \in Stations
    PROVE  /\ Steady(s, session[s], joining[s], remembered[s])
           /\ session = [session EXCEPT ![s] = session[s]]
           /\ joining = [joining EXCEPT ![s] = joining[s]]
           /\ remembered = [remembered EXCEPT ![s] = remembered[s]]
BY DEF SessionOK

LEMMA NotJoiningIs == NotJoining \in Joinings /\ NotJoining.to = None /\ NotJoining.why = "none"
                      /\ NotJoining.answered = FALSE
BY DEF NotJoining, Joinings, Ends, Reasons

LEMMA HomewardIs == Homeward \in Joinings /\ Homeward.to = None /\ Homeward.why = "homeward"
                    /\ Homeward.answered = FALSE
BY DEF Homeward, Joinings, Ends, Reasons

LEMMA JoinIs ==
    ASSUME NEW t \in Ends, NEW why \in Reasons
    PROVE  /\ Join(t, why) \in Joinings /\ Join(t, why).to = t /\ Join(t, why).why = why
           /\ Join(t, why).answered = FALSE
BY DEF Join, Joinings

LEMMA CreateSteady ==
    ASSUME SessionOK, NEW s \in Stations, Create(s)
    PROVE  SessionOK'
<1> PICK x : x = session[s]
  OBVIOUS
<1> PICK y : y = [x EXCEPT !.rejoin = None, !.handback = None, !.advertising = TRUE,
                           !.named = TRUE, !.follower = FALSE]
  OBVIOUS
<1>1. /\ s \in up /\ joining[s] = NotJoining /\ up' = up /\ joining' = joining
      /\ adverts' = adverts \cup {s} /\ left' = left \ {s} /\ promotions' = promotions
      /\ remembered' = [remembered EXCEPT ![s] = None] /\ session' = [session EXCEPT ![s] = y]
  BY DEF Create, Ordered, Tick, Idle
<1>2. Steady(s, x, joining[s], remembered[s]) /\ joining' = [joining EXCEPT ![s] = joining[s]]
  BY <1>1, IsSteady
<1>3. /\ y \in Sessions /\ ~y.follower /\ y.rejoin = None /\ y.handback = None
      /\ y.standIn = x.standIn
  BY <1>2 DEF Steady, Sessions, Ends
<1>4. Steady(s, y, joining[s], None)
  BY <1>1, <1>2, <1>3, NotJoiningIs, NoneIsNot DEF Steady, Ends
<1>5. up' \subseteq Stations /\ adverts' \subseteq up' /\ left' \subseteq Stations
  BY <1>1 DEF SessionOK
<1>6. promotions' \in [Stations -> Nat]
  BY <1>1 DEF SessionOK
<1> QED BY <1>1, <1>2, <1>4, <1>5, <1>6, OneSteady

LEMMA OrderJoinSteady ==
    ASSUME SessionOK, NEW s \in Stations, NEW t \in Stations, OrderJoin(s, t)
    PROVE  SessionOK'
<1>1. /\ s # t /\ up' = up /\ session' = session /\ promotions' = promotions
      /\ adverts' = adverts /\ remembered' = remembered /\ left' = left \ {s}
  BY DEF OrderJoin
<1>2. PICK why \in {"join", "joinAt"} : joining' = [joining EXCEPT ![s] = Join(t, why)]
  BY DEF OrderJoin
<1>3. /\ Steady(s, session[s], joining[s], remembered[s])
      /\ session' = [session EXCEPT ![s] = session[s]]
      /\ remembered' = [remembered EXCEPT ![s] = remembered[s]]
  BY <1>1, IsSteady
<1>4. why \in Reasons /\ t \in Ends /\ why # "handback"
  BY <1>2 DEF Reasons, Ends
<1>5. Steady(s, session[s], Join(t, why), remembered[s])
  <2> PICK x, j, home : x = session[s] /\ j = Join(t, why) /\ home = remembered[s]
    OBVIOUS
  <2>1. j \in Joinings /\ j.to = t /\ j.why = why /\ j.answered = FALSE
    BY <1>4, JoinIs
  <2>2. /\ x \in Sessions /\ home \in Ends /\ ~(x.follower /\ x.advertising)
        /\ s \notin {x.rejoin, x.handback, x.standIn, home}
    BY <1>3 DEF Steady
  <2>3. Steady(s, x, j, home)
    BY ONLY <1>1, <1>4, <2>1, <2>2 DEF Steady
  <2> QED BY <2>3
<1>6. up' \subseteq Stations /\ adverts' \subseteq up' /\ left' \subseteq Stations
      /\ promotions' \in [Stations -> Nat]
  BY <1>1 DEF SessionOK
<1> QED BY <1>1, <1>2, <1>3, <1>5, <1>6, OneSteady

LEMMA LeaveSteady ==
    ASSUME SessionOK, NEW s \in Stations, Leave(s)
    PROVE  SessionOK'
<1> PICK x : x = session[s]
  OBVIOUS
<1> PICK z : z = LetGo(x)
  OBVIOUS
<1> PICK y : y = [z EXCEPT !.rejoin = None, !.handback = None]
  OBVIOUS
<1>1. /\ up' = up /\ joining' = joining /\ promotions' = promotions
      /\ adverts' \subseteq adverts /\ left' = left \cup {s}
      /\ remembered' = [remembered EXCEPT ![s] = None] /\ session' = [session EXCEPT ![s] = y]
  BY DEF Leave
<1>2. Steady(s, x, joining[s], remembered[s]) /\ joining' = [joining EXCEPT ![s] = joining[s]]
  BY <1>1, IsSteady
<1>3. z \in Sessions /\ ~z.follower /\ ~z.advertising /\ z.standIn = x.standIn
  BY <1>2 DEF Steady, Sessions, LetGo
<1>4. /\ y \in Sessions /\ ~y.follower /\ ~y.advertising /\ y.rejoin = None /\ y.handback = None
      /\ y.standIn = x.standIn
  BY <1>3 DEF Sessions, Ends
<1>5. Steady(s, y, joining[s], None)
  BY <1>2, <1>4, NoneIsNot DEF Steady, Ends
<1> QED BY <1>1, <1>2, <1>5, OneSteady DEF SessionOK

LEMMA PromotedIs ==
    ASSUME NEW x \in Sessions, NEW home \in Ends
    PROVE  /\ Promoted(x, home) \in Sessions
           /\ ~(x.follower /\ x.advertising)
                 => ~(Promoted(x, home).follower /\ Promoted(x, home).advertising)
           /\ Promoted(x, home).rejoin = x.rejoin /\ Promoted(x, home).standIn = x.standIn
           /\ Promoted(x, home).handback \in {x.handback, home}
BY DEF Sessions, Promoted

LEMMA PromoteSteady ==
    ASSUME SessionOK, NEW s \in Stations, Promote(s)
    PROVE  SessionOK'
<1> PICK y : y = Promoted(session[s], remembered[s])
  OBVIOUS
<1>1. /\ s \in up /\ joining[s] = NotJoining /\ promotions[s] > 0
      /\ promotions' = [promotions EXCEPT ![s] = @ - 1]
      /\ session' = [session EXCEPT ![s] = y] /\ adverts' \subseteq adverts \cup {s}
      /\ up' = up /\ joining' = joining /\ remembered' = remembered /\ left' = left
  BY DEF Promote, Idle, Announced
<1>2. /\ Steady(s, session[s], joining[s], remembered[s])
      /\ joining' = [joining EXCEPT ![s] = joining[s]]
      /\ remembered' = [remembered EXCEPT ![s] = remembered[s]]
  BY <1>1, IsSteady
<1>3. Steady(s, y, joining[s], remembered[s])
  <2>1. /\ session[s] \in Sessions /\ remembered[s] \in Ends
        /\ ~(session[s].follower /\ session[s].advertising)
    BY <1>2 DEF Steady
  <2>2. /\ y \in Sessions /\ ~(y.follower /\ y.advertising) /\ y.rejoin = session[s].rejoin
        /\ y.standIn = session[s].standIn /\ y.handback \in {session[s].handback, remembered[s]}
    BY <2>1, PromotedIs
  <2> QED BY <1>1, <1>2, <2>2, NotJoiningIs DEF Steady
<1>4. promotions' \in [Stations -> Nat]
  BY <1>1 DEF SessionOK
<1>5. up' \subseteq Stations /\ adverts' \subseteq up' /\ left' \subseteq Stations
  BY <1>1 DEF SessionOK
<1> QED BY <1>1, <1>2, <1>3, <1>4, <1>5, OneSteady

LEMMA HandshakeSteady ==
    ASSUME SessionOK, NEW s \in Stations, NEW k, Handshake(s, k)
    PROVE  SessionOK'
<1> PICK x, y : x = joining[s] /\ y = [x EXCEPT !.answered = TRUE]
  OBVIOUS
<1>1. /\ x.to # None /\ joining' = [joining EXCEPT ![s] = y]
      /\ up' = up /\ session' = session /\ remembered' = remembered /\ left' = left
      /\ adverts' = adverts /\ promotions' = promotions
  BY DEF Handshake
<1>2. /\ Steady(s, session[s], x, remembered[s])
      /\ session' = [session EXCEPT ![s] = session[s]]
      /\ remembered' = [remembered EXCEPT ![s] = remembered[s]]
  BY <1>1, IsSteady
<1>3. y \in Joinings /\ y.to = x.to /\ y.why = x.why
  BY <1>2 DEF Steady, Joinings
<1>4. Steady(s, session[s], y, remembered[s])
  BY <1>1, <1>2, <1>3 DEF Steady
<1>5. up' \subseteq Stations /\ adverts' \subseteq up' /\ left' \subseteq Stations
      /\ promotions' \in [Stations -> Nat]
  BY <1>1 DEF SessionOK
<1> QED BY <1>1, <1>2, <1>4, <1>5, OneSteady

LEMMA JoinedSteady ==
    ASSUME SessionOK, NEW s \in Stations, Joined(s)
    PROVE  SessionOK'
<1> PICK x, why, home : x = session[s] /\ why = joining[s].why /\ home = remembered[s]
  OBVIOUS
<1> PICK f : f = [x EXCEPT !.advertising = FALSE, !.follower = TRUE, !.named = TRUE]
  OBVIOUS
<1> PICK y : y = CASE why = "join" -> f
                   [] why = "standIn" -> [f EXCEPT !.standIn = home]
                   [] why = "rejoin" -> [f EXCEPT !.standIn = None, !.rejoin = None]
                   [] why = "handback" -> [f EXCEPT !.standIn = None, !.handback = None]
                   [] OTHER -> [f EXCEPT !.standIn = None]
  OBVIOUS
<1> PICK j : j = IF why \in {"orphan", "standIn"} THEN Homeward ELSE NotJoining
  OBVIOUS
<1> PICK h : h = IF why = "standIn" THEN home ELSE joining[s].to
  OBVIOUS
<1>1. /\ Steady(s, x, joining[s], home)
      /\ remembered = [remembered EXCEPT ![s] = home]
  BY IsSteady
<1>2. session' = [session EXCEPT ![s] = y]
  BY DEF Joined
<1>3. /\ joining' = [joining EXCEPT ![s] = j]
      /\ up' = up /\ left' = left /\ adverts' = adverts /\ promotions' = promotions
  BY DEF Joined
<1>4. remembered' = [remembered EXCEPT ![s] = h]
  BY <1>1 DEF Joined, RemembersJoined
<1>5. /\ x \in Sessions /\ home \in Ends /\ joining[s].to \in Ends
      /\ s \notin {x.rejoin, x.handback, x.standIn, joining[s].to, home}
  BY <1>1 DEF Steady, Joinings
<1>6. /\ f \in Sessions /\ ~f.advertising /\ f.rejoin = x.rejoin /\ f.handback = x.handback
      /\ f.standIn = x.standIn
  BY <1>5 DEF Sessions
<1>7. /\ y \in Sessions /\ ~y.advertising
      /\ y.rejoin \in {None, x.rejoin} /\ y.handback \in {None, x.handback}
      /\ y.standIn \in {None, x.standIn, home}
  <2>1. CASE why = "join"
    BY <1>6, <2>1
  <2>2. CASE why = "standIn"
    BY <1>5, <1>6, <2>2 DEF Sessions
  <2>3. CASE why = "rejoin"
    BY <1>6, <2>3 DEF Sessions, Ends
  <2>4. CASE why = "handback"
    BY <1>6, <2>4 DEF Sessions, Ends
  <2>5. CASE why \notin {"join", "standIn", "rejoin", "handback"}
    BY <1>6, <2>5 DEF Sessions, Ends
  <2> QED BY <2>1, <2>2, <2>3, <2>4, <2>5
<1>8. j \in Joinings /\ j.to = None /\ j.why # "handback" /\ j.answered = FALSE
  BY NotJoiningIs, HomewardIs
<1>9. Steady(s, y, j, h)
  BY <1>5, <1>7, <1>8, NoneIsNot DEF Steady
<1>10. up' \subseteq Stations /\ adverts' \subseteq up' /\ left' \subseteq Stations
       /\ promotions' \in [Stations -> Nat]
  BY <1>3 DEF SessionOK
<1> QED BY <1>2, <1>3, <1>4, <1>9, <1>10, OneSteady

LEMMA NobodyAnswersSteady ==
    ASSUME SessionOK, NEW s \in Stations, NobodyAnswers(s), sync[s].leader \in Stations
    PROVE  SessionOK'
<1> PICK x, why, home : x = session[s] /\ why = joining[s].why /\ home = remembered[s]
  OBVIOUS
<1> PICK tries \in BOOLEAN : tries = (why = "orphan" /\ sync[s].leader # s)
  OBVIOUS
<1> PICK givesUp \in BOOLEAN : givesUp = (why \in {"orphan", "standIn"} /\ ~tries)
  OBVIOUS
<1> PICK j : j = IF tries THEN Join(sync[s].leader, "standIn")
                 ELSE IF givesUp THEN Homeward ELSE NotJoining
  OBVIOUS
<1> PICK y : y = IF why = "handback" THEN Promoted([x EXCEPT !.follower = TRUE], home)
                 ELSE IF givesUp THEN [x EXCEPT !.rejoin = home] ELSE x
  OBVIOUS
<1>1. /\ Steady(s, x, joining[s], home)
      /\ remembered = [remembered EXCEPT ![s] = home]
  BY IsSteady
<1>2. joining' = [joining EXCEPT ![s] = j]
  BY DEF NobodyAnswers
<1>3. session' = [session EXCEPT ![s] = y]
  BY DEF NobodyAnswers
<1>4. /\ remembered' = [remembered EXCEPT ![s] = home] /\ adverts' \subseteq adverts \cup {s}
      /\ up' = up /\ left' = left /\ promotions' = promotions /\ s \in up
  BY <1>1 DEF NobodyAnswers, Announced
<1>5. /\ x \in Sessions /\ home \in Ends /\ (why = "handback" => ~x.advertising)
      /\ ~(x.follower /\ x.advertising)
      /\ s \notin {x.rejoin, x.handback, x.standIn, home}
  BY <1>1 DEF Steady
<1>6. /\ y \in Sessions /\ ~(y.follower /\ y.advertising)
      /\ y.rejoin \in {x.rejoin, home} /\ y.handback \in {x.handback, home}
      /\ y.standIn = x.standIn
  <2>1. CASE why = "handback"
    <3>1. PICK z : z = [x EXCEPT !.follower = TRUE]
      OBVIOUS
    <3>2. /\ z \in Sessions /\ ~z.advertising /\ z.rejoin = x.rejoin
          /\ z.handback = x.handback /\ z.standIn = x.standIn
      BY <1>5, <2>1, <3>1 DEF Sessions
    <3> QED BY <1>5, <2>1, <3>1, <3>2, PromotedIs
  <2>2. CASE why # "handback" /\ givesUp
    BY <1>5, <2>2 DEF Sessions
  <2>3. CASE why # "handback" /\ ~givesUp
    BY <1>5, <2>3
  <2> QED BY <2>1, <2>2, <2>3
<1>7. j \in Joinings /\ j.to # s /\ j.why # "handback" /\ j.answered = FALSE
  <2>1. CASE tries
    <3>1. sync[s].leader \in Ends /\ sync[s].leader # s /\ "standIn" \in Reasons
      BY <2>1 DEF Ends, Reasons
    <3> QED BY <2>1, <3>1, JoinIs
  <2>2. CASE ~tries
    BY <2>2, NotJoiningIs, HomewardIs, NoneIsNot
  <2> QED BY <2>1, <2>2
<1>8. Steady(s, y, j, home)
  BY <1>5, <1>6, <1>7 DEF Steady
<1>9. up' \subseteq Stations /\ adverts' \subseteq up' /\ left' \subseteq Stations
      /\ promotions' \in [Stations -> Nat]
  BY <1>4 DEF SessionOK
<1> QED BY <1>2, <1>3, <1>4, <1>8, <1>9, OneSteady

LEMMA TryRejoinSteady ==
    ASSUME SessionOK, NEW s \in Stations, TryRejoin(s)
    PROVE  SessionOK'
<1> PICK x : x = session[s]
  OBVIOUS
<1>1. /\ joining[s] = NotJoining /\ x.rejoin # None
      /\ up' = up /\ left' = left /\ promotions' = promotions /\ adverts' = adverts
      /\ remembered' = remembered
  BY DEF TryRejoin, Tick, Idle
<1>2. /\ Steady(s, x, joining[s], remembered[s])
      /\ session = [session EXCEPT ![s] = x] /\ joining = [joining EXCEPT ![s] = joining[s]]
      /\ remembered = [remembered EXCEPT ![s] = remembered[s]]
  BY IsSteady
<1>3. up' \subseteq Stations /\ adverts' \subseteq up' /\ left' \subseteq Stations
      /\ promotions' \in [Stations -> Nat]
  BY <1>1 DEF SessionOK
<1>4. CASE x.follower \/ x.advertising
  <2> PICK y : y = [x EXCEPT !.rejoin = None]
    OBVIOUS
  <2>1. session' = [session EXCEPT ![s] = y] /\ joining' = joining
    BY <1>4 DEF TryRejoin
  <2>2. /\ y \in Sessions /\ y.rejoin = None /\ y.handback = x.handback /\ y.standIn = x.standIn
        /\ y.follower = x.follower /\ y.advertising = x.advertising
    BY <1>2 DEF Steady, Sessions, Ends
  <2>3. Steady(s, y, joining[s], remembered[s])
    BY <1>2, <2>2, NoneIsNot DEF Steady
  <2>4. /\ joining' = [joining EXCEPT ![s] = joining[s]]
        /\ remembered' = [remembered EXCEPT ![s] = remembered[s]]
    BY <1>1, <1>2, <2>1
  <2> QED BY <1>3, <2>1, <2>3, <2>4, OneSteady
<1>5. CASE ~(x.follower \/ x.advertising)
  <2> PICK j : j = Join(x.rejoin, "rejoin")
    OBVIOUS
  <2>1. session' = session /\ joining' = [joining EXCEPT ![s] = j]
    BY <1>5 DEF TryRejoin
  <2>2. x.rejoin \in Ends /\ "rejoin" \in Reasons
    BY <1>2 DEF Steady, Sessions, Reasons
  <2>3. j \in Joinings /\ j.to = x.rejoin /\ j.why = "rejoin" /\ j.answered = FALSE
    BY <2>2, JoinIs
  <2>4. Steady(s, x, j, remembered[s])
    BY <1>2, <2>3 DEF Steady
  <2>5. /\ session' = [session EXCEPT ![s] = x]
        /\ remembered' = [remembered EXCEPT ![s] = remembered[s]]
    BY <1>1, <1>2, <2>1
  <2> QED BY <1>3, <2>1, <2>4, <2>5, OneSteady
<1> QED BY <1>4, <1>5

LEMMA CheckOrphanedSteady ==
    ASSUME SessionOK, NEW s \in Stations, CheckOrphaned(s)
    PROVE  SessionOK'
<1> PICK x, home : x = session[s] /\ home = remembered[s]
  OBVIOUS
<1> PICK y : y = LetGo(x)
  OBVIOUS
<1> PICK j : j = Join(home, "orphan")
  OBVIOUS
<1>1. /\ up' = up /\ left' = left /\ promotions' = promotions /\ adverts' = adverts
      /\ remembered' = remembered
      /\ session' = [session EXCEPT ![s] = y] /\ joining' = [joining EXCEPT ![s] = j]
  BY DEF CheckOrphaned
<1>2. /\ Steady(s, x, joining[s], home)
      /\ remembered' = [remembered EXCEPT ![s] = home]
  BY <1>1, IsSteady
<1>3. /\ y \in Sessions /\ ~y.follower /\ ~y.advertising /\ y.rejoin = x.rejoin
      /\ y.handback = x.handback /\ y.standIn = x.standIn
  BY <1>2 DEF Steady, Sessions, LetGo
<1>4. home \in Ends /\ "orphan" \in Reasons
  BY <1>2 DEF Steady, Reasons
<1>5. j \in Joinings /\ j.to = home /\ j.why = "orphan" /\ j.answered = FALSE
  BY <1>4, JoinIs
<1>6. Steady(s, y, j, home)
  BY <1>2, <1>3, <1>5 DEF Steady
<1>7. up' \subseteq Stations /\ adverts' \subseteq up' /\ left' \subseteq Stations
      /\ promotions' \in [Stations -> Nat]
  BY <1>1 DEF SessionOK
<1> QED BY <1>1, <1>2, <1>6, <1>7, OneSteady

LEMMA TryGoingHomeSteady ==
    ASSUME SessionOK, NEW s \in Stations, TryGoingHome(s)
    PROVE  SessionOK'
<1> PICK x, home : x = session[s] /\ home = x.standIn
  OBVIOUS
<1> PICK y : y = IF x.advertising THEN [x EXCEPT !.standIn = None] ELSE x
  OBVIOUS
<1> PICK j : j = IF ~x.advertising /\ home # None /\ home \in up THEN Join(home, "home")
                 ELSE NotJoining
  OBVIOUS
<1>1. /\ up' = up /\ left' = left /\ promotions' = promotions /\ adverts' = adverts
      /\ remembered' = remembered
  BY DEF TryGoingHome
<1>2. /\ Steady(s, x, joining[s], remembered[s])
      /\ session = [session EXCEPT ![s] = x] /\ remembered' = [remembered EXCEPT ![s] = remembered[s]]
  BY <1>1, IsSteady
<1>3. session' = [session EXCEPT ![s] = y]
  BY <1>2 DEF TryGoingHome
<1>4. joining' = [joining EXCEPT ![s] = j]
  BY DEF TryGoingHome
<1>5. /\ y \in Sessions /\ y.rejoin = x.rejoin /\ y.handback = x.handback
      /\ y.standIn \in {None, x.standIn}
      /\ y.follower = x.follower /\ y.advertising = x.advertising
  BY <1>2 DEF Steady, Sessions, Ends
<1>6. home \in Ends /\ "home" \in Reasons
  BY <1>2 DEF Steady, Sessions, Reasons
<1>7. j \in Joinings /\ j.to \in {None, home} /\ j.why # "handback" /\ j.answered = FALSE
  BY <1>6, JoinIs, NotJoiningIs
<1>8. Steady(s, y, j, remembered[s])
  BY <1>2, <1>5, <1>7, NoneIsNot DEF Steady
<1>9. up' \subseteq Stations /\ adverts' \subseteq up' /\ left' \subseteq Stations
      /\ promotions' \in [Stations -> Nat]
  BY <1>1 DEF SessionOK
<1> QED BY <1>2, <1>3, <1>4, <1>8, <1>9, OneSteady

LEMMA TryHandbackSteady ==
    ASSUME SessionOK, NEW s \in Stations, TryHandback(s)
    PROVE  SessionOK'
<1> PICK x : x = session[s]
  OBVIOUS
<1>1. /\ up' = up /\ left' = left /\ promotions' = promotions
      /\ remembered' = remembered /\ joining[s] = NotJoining /\ adverts' \subseteq adverts
  BY DEF TryHandback, Tick, Idle, AdvertsWithout
<1>2. /\ Steady(s, x, joining[s], remembered[s]) /\ joining = [joining EXCEPT ![s] = joining[s]]
      /\ remembered' = [remembered EXCEPT ![s] = remembered[s]]
  BY <1>1, IsSteady
<1>3. up' \subseteq Stations /\ adverts' \subseteq up' /\ left' \subseteq Stations
      /\ promotions' \in [Stations -> Nat]
  BY <1>1 DEF SessionOK
<1>4. CASE ~x.advertising /\ session' = [session EXCEPT ![s].handback = None] /\ joining' = joining
  <2> PICK y : y = [x EXCEPT !.handback = None]
    OBVIOUS
  <2>1. session' = [session EXCEPT ![s] = y]
    BY <1>4
  <2>2. /\ y \in Sessions /\ y.rejoin = x.rejoin /\ y.handback = None /\ y.standIn = x.standIn
        /\ y.follower = x.follower /\ y.advertising = x.advertising
    BY <1>2 DEF Steady, Sessions, Ends
  <2>3. Steady(s, y, joining[s], remembered[s])
    BY <1>2, <2>2, NoneIsNot DEF Steady
  <2>4. joining' = [joining EXCEPT ![s] = joining[s]]
    BY <1>2, <1>4
  <2> QED BY <1>2, <1>3, <2>1, <2>3, <2>4, OneSteady
<1>5. CASE /\ session' = [session EXCEPT ![s].advertising = FALSE]
           /\ joining' = [joining EXCEPT ![s] = Join(x.handback, "handback")]
  <2> PICK y : y = [x EXCEPT !.advertising = FALSE]
    OBVIOUS
  <2> PICK j : j = Join(x.handback, "handback")
    OBVIOUS
  <2>1. session' = [session EXCEPT ![s] = y] /\ joining' = [joining EXCEPT ![s] = j]
    BY <1>5
  <2>2. /\ y \in Sessions /\ y.rejoin = x.rejoin /\ y.handback = x.handback
        /\ y.standIn = x.standIn /\ ~y.advertising
    BY <1>2 DEF Steady, Sessions
  <2>3. x.handback \in Ends /\ "handback" \in Reasons
    BY <1>2 DEF Steady, Sessions, Reasons
  <2>4. j \in Joinings /\ j.to = x.handback /\ j.answered = FALSE
    BY <2>3, JoinIs
  <2>5. Steady(s, y, j, remembered[s])
    BY <1>2, <2>2, <2>4 DEF Steady
  <2> QED BY <1>2, <1>3, <2>1, <2>5, OneSteady
<1> QED BY <1>4, <1>5 DEF TryHandback

LEMMA CrashSteady ==
    ASSUME SessionOK, NEW s \in Stations, Crash(s)
    PROVE  SessionOK'
<1>1. /\ up' = up \ {s} /\ left' = left /\ promotions' = [promotions EXCEPT ![s] = 0]
      /\ remembered' = remembered /\ adverts' = adverts \ {s}
      /\ session' = [session EXCEPT ![s] = Alone] /\ joining' = [joining EXCEPT ![s] = NotJoining]
  BY DEF Crash
<1>2. /\ Steady(s, session[s], joining[s], remembered[s])
      /\ remembered' = [remembered EXCEPT ![s] = remembered[s]]
  BY <1>1, IsSteady
<1>3. /\ Alone \in Sessions /\ ~Alone.follower /\ Alone.rejoin = None /\ Alone.handback = None
      /\ Alone.standIn = None
  BY DEF Alone, Sessions, Ends
<1>4. Steady(s, Alone, NotJoining, remembered[s])
  BY <1>2, <1>3, NotJoiningIs, NoneIsNot DEF Steady
<1>5. up' \subseteq Stations /\ adverts' \subseteq up' /\ left' \subseteq Stations
      /\ promotions' \in [Stations -> Nat]
  BY <1>1 DEF SessionOK
<1> QED BY <1>1, <1>2, <1>4, <1>5, OneSteady

LEMMA RestartSteady ==
    ASSUME SessionOK, NEW s \in Stations, Restart(s)
    PROVE  SessionOK'
<1> PICK x, y : x = session[s] /\ y = [x EXCEPT !.rejoin = remembered[s]]
  OBVIOUS
<1>1. /\ up' = up \cup {s} /\ left' = left /\ promotions' = promotions
      /\ remembered' = remembered /\ adverts' = adverts /\ joining' = joining
      /\ session' = [session EXCEPT ![s] = y]
  BY DEF Restart
<1>2. /\ Steady(s, x, joining[s], remembered[s])
      /\ remembered' = [remembered EXCEPT ![s] = remembered[s]]
      /\ joining' = [joining EXCEPT ![s] = joining[s]]
  BY <1>1, IsSteady
<1>3. /\ y \in Sessions /\ y.rejoin = remembered[s] /\ y.handback = x.handback
      /\ y.standIn = x.standIn /\ y.follower = x.follower /\ y.advertising = x.advertising
  BY <1>2 DEF Steady, Sessions
<1>4. Steady(s, y, joining[s], remembered[s])
  BY <1>2, <1>3 DEF Steady
<1>5. up' \subseteq Stations /\ adverts' \subseteq up' /\ left' \subseteq Stations
      /\ promotions' \in [Stations -> Nat]
  BY <1>1 DEF SessionOK
<1> QED BY <1>1, <1>2, <1>4, <1>5, OneSteady

LEMMA OthersSteady ==
    ASSUME SessionOK, UNCHANGED <<up, session, joining, adverts, remembered, left>>,
           promotions' \in [Stations -> Nat]
    PROVE  SessionOK'
BY DEF SessionOK

-----------------------------------------------------------------------------
(***************************************************************************)
(* Where the stations start together, each link has a place of its own.    *)
(***************************************************************************)
LEMMA PlacesDiffer ==
    ASSUME NEW s \in Stations \ {Home}, NEW t \in Stations \ {Home}, s < t
    PROVE  Place(s) # Place(t)
<1> DEFINE Until(n) == {u \in Stations \ {Home} : u <= n}
<1>1. s \in Nat /\ t \in Nat /\ \A u \in Stations : u \in Nat /\ u # 0
  BY StationsAssumption
<1>2. IsFiniteSet(1..t)
  BY <1>1, FS_Interval
<1>3. Until(t) \subseteq 1..t
  <2> SUFFICES ASSUME NEW u \in Until(t) PROVE u \in 1..t
    OBVIOUS
  <2>1. u \in Stations /\ u <= t
    OBVIOUS
  <2>2. u \in Nat /\ u # 0 /\ t \in Nat
    BY <1>1, <2>1
  <2> QED BY <2>1, <2>2
<1>4. IsFiniteSet(Until(t))
  BY <1>2, <1>3, FS_Subset
<1>5. Until(s) \subseteq Until(t) /\ t \in Until(t) /\ t \notin Until(s)
  <2>1. ASSUME NEW u \in Until(s) PROVE u \in Until(t)
    <3>1. u \in Stations \ {Home} /\ u <= s /\ u \in Nat
      BY <1>1
    <3> QED BY <1>1, <3>1
  <2>2. Until(s) \subseteq Until(t)
    BY ONLY <2>1
  <2>3. t <= t /\ ~(t <= s)
    BY <1>1
  <2> QED BY <2>2, <2>3
<1>6. Cardinality(Until(s)) # Cardinality(Until(t))
  <2> HIDE DEF Until
  <2>1. Until(s) # Until(t)
    BY <1>5
  <2> QED BY <1>4, <1>5, <2>1, FS_Subset
<1> QED BY <1>6 DEF Place

LEMMA OnePlace ==
    ASSUME NEW s \in Stations \ {Home}, NEW t \in Stations \ {Home}, Place(s) = Place(t)
    PROVE  s = t
<1>1. s \in Nat /\ t \in Nat
  BY StationsAssumption
<1>2. ~(s < t) /\ ~(t < s)
  BY PlacesDiffer
<1> QED BY <1>1, <1>2

LEMMA InitSteady == Init => SessionOK
<1> SUFFICES ASSUME Init PROVE SessionOK
  OBVIOUS
<1>1. /\ up = Stations /\ left = {} /\ joining = [s \in Stations |-> NotJoining]
      /\ promotions = [s \in Stations |-> 0]
  BY DEF Init
<1>2. /\ Home \in Stations /\ adverts \subseteq Stations
      /\ \/ /\ session = [s \in Stations |-> InSession(s)]
            /\ remembered = [s \in Stations |-> IF s = Home THEN None ELSE Home]
         \/ /\ session = [s \in Stations |-> Alone]
            /\ remembered = [s \in Stations |-> None]
  BY StationsAssumption DEF Init
<1>3. \A s \in Stations : /\ session[s] \in {InSession(s), Alone}
                          /\ remembered[s] \in {None, Home} \ {s}
  BY <1>2, NoneIsNot
<1>4. ASSUME NEW s \in Stations
      PROVE  /\ session[s] \in Sessions /\ ~(session[s].follower /\ session[s].advertising)
             /\ session[s].rejoin = None /\ session[s].handback = None /\ session[s].standIn = None
  <2>1. /\ Alone \in Sessions /\ ~Alone.follower /\ Alone.rejoin = None
        /\ Alone.handback = None /\ Alone.standIn = None
    BY DEF Alone, Sessions, Ends
  <2>2. /\ InSession(s) \in Sessions /\ ~(InSession(s).follower /\ InSession(s).advertising)
        /\ InSession(s).rejoin = None /\ InSession(s).handback = None
        /\ InSession(s).standIn = None
    BY DEF InSession, Alone, Sessions, Ends
  <2> QED BY <1>3, <2>1, <2>2
<1>5. ASSUME NEW s \in Stations PROVE Steady(s, session[s], joining[s], remembered[s])
  <2>1. joining[s] = NotJoining /\ remembered[s] \in Ends /\ remembered[s] # s
    BY <1>1, <1>2, <1>3 DEF Ends
  <2> QED BY <1>4, <2>1, NotJoiningIs, NoneIsNot DEF Steady
<1>6. session \in [Stations -> Sessions]
  BY <1>2, <1>4
<1>7. joining \in [Stations -> Joinings]
  BY <1>1, NotJoiningIs
<1>8. remembered \in [Stations -> Ends]
  BY <1>2 DEF Ends
<1>9. promotions \in [Stations -> Nat]
  BY <1>1
<1> QED BY <1>1, <1>2, <1>5, <1>6, <1>7, <1>8, <1>9 DEF SessionOK

\* The link of s to Home, where everybody has joined Home.
FirstLink(s) == [NoLink EXCEPT !.from = s, !.to = Home, !.ends = {s, Home}]

LEMMA FirstLinkIs ==
    ASSUME NEW s \in Stations
    PROVE  FirstLink(s) \in Sockets /\ FirstLink(s).from = s /\ FirstLink(s).to = Home
<1>1. NoLink \in Sockets /\ Home \in Stations
  BY EmptyWire, StationsAssumption
<1> QED BY <1>1 DEF FirstLink, Sockets, Ends

LEMMA InitLinks == Init => SyncOK
<1> SUFFICES ASSUME Init PROVE SyncOK
  OBVIOUS
<1> DEFINE Managing == [leader : Stations, members : SUBSET Stations, peers : Tables]
<1>1. Home \in Stations
  BY StationsAssumption
<1>2. asked \in [Stations -> Seq(Commands)] /\ pending \in [Stations -> Seq(Handed)]
      /\ \A s \in Stations : PendingOK(s)
  <2>1. <<>> \in Seq(Commands) /\ <<>> \in Seq(Handed)
    OBVIOUS
  <2>2. asked = [s \in Stations |-> <<>>] /\ pending = [s \in Stations |-> <<>>]
    BY DEF Init
  <2>3. \A s \in Stations : DOMAIN pending[s] = {}
    BY <2>2
  <2> QED BY <2>1, <2>2, <2>3 DEF PendingOK
<1>3. CASE plan.together
  <2>1. sync = [s \in Stations |-> Linked(s)]
    BY <1>3 DEF Init
  <2>2. links = [k \in Links |->
                    IF \E s \in Stations \ {Home} : Place(s) = k
                    THEN FirstLink(CHOOSE x \in Stations \ {Home} : Place(x) = k) ELSE NoLink]
    BY <1>3 DEF Init, FirstLink
  <2>3. ASSUME NEW k \in Links
        PROVE  /\ links[k] \in Sockets
               /\ \A s \in Stations \ {Home} : Place(s) = k => links[k] = FirstLink(s)
    <3>1. CASE \E s \in Stations \ {Home} : Place(s) = k
      <4>1. PICK x : x = CHOOSE y \in Stations \ {Home} : Place(y) = k
        OBVIOUS
      <4>2. x \in Stations \ {Home} /\ Place(x) = k
        BY <3>1, <4>1
      <4>3. links[k] = FirstLink(x)
        BY <2>2, <3>1, <4>1
      <4>4. \A s \in Stations \ {Home} : Place(s) = k => s = x
        BY <4>2, OnePlace
      <4> QED BY <4>2, <4>3, <4>4, FirstLinkIs
    <3>2. CASE ~\E s \in Stations \ {Home} : Place(s) = k
      BY <2>2, <3>2, EmptyWire
    <3> QED BY <3>1, <3>2
  <2>4. links \in [Links -> Sockets]
    BY <2>2, <2>3
  <2>5. ASSUME NEW s \in Stations
        PROVE  /\ Linked(s) \in Managing
               /\ \A t \in Stations :
                     \/ Linked(s).peers[t] = None
                     \/ s = Home /\ t # Home /\ Linked(s).peers[t] = Place(t)
                     \/ s # Home /\ t = Home /\ Linked(s).peers[t] = Place(s)
    <3> PICK ps : ps = [t \in Stations |-> IF s = Home /\ t # Home THEN Place(t)
                                         ELSE IF s # Home /\ t = Home THEN Place(s) ELSE None]
      OBVIOUS
    <3>1. Linked(s) = [leader |-> Home, members |-> Stations, peers |-> ps]
      BY DEF Linked
    <3>2. ps \in Tables
      BY PlacesAssumption DEF Tables
    <3> QED BY <1>1, <3>1, <3>2
  <2>6. ASSUME NEW s \in Stations PROVE Knows(s, Holding(s))
    <3>1. Holding(s).peers = Linked(s).peers /\ Holding(s).links = links
      BY <2>1 DEF Holding
    <3>2. ASSUME NEW t \in Stations, Linked(s).peers[t] # None
          PROVE  Between(links[Linked(s).peers[t]], s, t)
      <4>1. PICK u \in Stations \ {Home} :
               Linked(s).peers[t] = Place(u) /\ {s, t} = {u, Home}
        BY <2>5, <3>2
      <4>2. Place(u) \in Links
        BY PlacesAssumption
      <4>3. links[Place(u)] = FirstLink(u)
        BY <2>3, <4>2
      <4> QED BY <4>1, <4>3, FirstLinkIs DEF Between
    <3> QED BY <3>1, <3>2 DEF Knows
  <2>7. sync \in [Stations -> Managing]
    <3> HIDE DEF Managing
    <3> QED BY <2>1, <2>5
  <2> QED BY <1>2, <2>4, <2>6, <2>7 DEF SyncOK
<1>4. CASE ~plan.together
  <2>1. sync = [s \in Stations |-> Unlinked(s)] /\ links = [k \in Links |-> NoLink]
    BY <1>4 DEF Init
  <2>2. links \in [Links -> Sockets]
    BY <2>1, EmptyWire
  <2>3. ASSUME NEW s \in Stations
        PROVE  Unlinked(s) \in Managing /\ \A t \in Stations : Unlinked(s).peers[t] = None
    BY DEF Unlinked, Tables
  <2>4. sync \in [Stations -> Managing]
    <3> HIDE DEF Managing
    <3> QED BY <2>1, <2>3
  <2>5. ASSUME NEW s \in Stations PROVE Knows(s, Holding(s))
    BY <2>1, <2>3 DEF Holding, Knows
  <2> QED BY <1>2, <2>2, <2>4, <2>5 DEF SyncOK
<1> QED BY <1>3, <1>4

-----------------------------------------------------------------------------
(***************************************************************************)
(* Every step.                                                             *)
(***************************************************************************)
Typed == SessionOK /\ SyncOK

LEMMA NextTyped ==
    ASSUME Typed, [Next]_vars
    PROVE  Typed'
<1>0. SessionOK /\ SyncOK
  BY DEF Typed
<1>1. CASE UNCHANGED vars
  <2>1. /\ UNCHANGED <<up, session, joining, adverts, remembered, left, promotions>>
        /\ UNCHANGED <<sync, pending, links, asked>>
    BY <1>1 DEF vars, sessionVars, syncVars
  <2>2. promotions' \in [Stations -> Nat] /\ asked' \in [Stations -> Seq(Commands)]
    BY <1>0, <2>1 DEF SessionOK, SyncOK
  <2> QED BY <1>0, <2>1, <2>2, OthersSteady, AskedLinks DEF Typed
<1>2. CASE Next
  <2> PICK s \in Stations : Work(s) \/ Turn(s) \/ Order(s) \/ Fault(s) \/ Restart(s)
    BY <1>2 DEF Next
  <2>0. /\ promotions \in [Stations -> Nat] /\ asked \in [Stations -> Seq(Commands)]
        /\ joining[s].to \in (Stations \cup {None}) \ {s} /\ (joining[s].answered => joining[s].to # None)
        /\ sync[s].leader \in Stations
    BY <1>0 DEF SessionOK, SyncOK, Steady, Joinings, Ends
  <2>1. CASE Register(s)
    BY <1>0, <2>0, <2>1, RegisterLinks, OthersSteady DEF Register, sessionVars, Typed
  <2>2. CASE Obey(s)
    BY <1>0, <2>0, <2>2, ObeyLinks, OthersSteady DEF Obey, sessionVars, Typed
  <2>3. CASE Broadcast(s)
    BY <1>0, <2>0, <2>3, BroadcastLinks, OthersSteady DEF Broadcast, sessionVars, Typed
  <2>4. CASE \E k \in Links : Hear(s, k)
    BY <1>0, <2>0, <2>4, HearLinks, OthersSteady DEF Hear, sessionVars, Typed
  <2>5. CASE \E k \in Links : PeerLost(s, k)
    <3> PICK k \in Links : PeerLost(s, k)
      BY <2>5
    <3>1. PICK n : promotions' = [promotions EXCEPT ![s] = n] /\ n \in {promotions[s] + 1, promotions[s]}
      BY DEF PeerLost
    <3>2. promotions' \in [Stations -> Nat]
      BY <2>0, <3>1
    <3> QED BY <1>0, <3>2, PeerLostLinks, OthersSteady DEF PeerLost, Typed
  <2>6. CASE \E k \in Links : Drop(s, k)
    BY <1>0, <2>0, <2>6, DropLinks, OthersSteady DEF Drop, sessionVars, Typed
  <2>7. CASE \E k \in Links : Handshake(s, k)
    BY <1>0, <2>0, <2>7, HandshakeLinks, HandshakeSteady DEF Typed
  <2>8. CASE Joined(s)
    <3> PICK cmd : cmd = [type |-> "leader", node |-> joining[s].to]
      OBVIOUS
    <3>1. /\ joining[s].answered /\ asked' = [asked EXCEPT ![s] = Append(@, cmd)]
          /\ UNCHANGED <<sync, pending, links>>
      BY <2>8 DEF Joined
    <3>2. cmd \in Commands
      BY <2>0, <3>1 DEF Commands
    <3>3. SyncOK'
      BY <1>0, <3>1, <3>2, AskedIs, AskedLinks
    <3> QED BY <1>0, <2>8, <3>3, JoinedSteady DEF Typed
  <2>9. CASE Leave(s)
    <3> PICK cmd : cmd = [type |-> "disconnectAll"]
      OBVIOUS
    <3>1. /\ asked' = asked \/ asked' = [asked EXCEPT ![s] = Append(@, cmd)]
          /\ UNCHANGED <<sync, pending, links>>
      BY <2>9 DEF Leave
    <3>2. cmd \in Commands
      BY DEF Commands
    <3>3. asked' \in [Stations -> Seq(Commands)]
      BY <1>0, <2>0, <3>1, <3>2, AskedIs
    <3> QED BY <1>0, <2>9, <3>1, <3>3, LeaveSteady, AskedLinks DEF Typed
  <2>10. CASE \/ NobodyAnswers(s) \/ Turn(s) \/ Restart(s) \/ Create(s)
              \/ \E t \in Stations : OrderJoin(s, t)
    <3>1. SessionOK'
      BY <1>0, <2>0, <2>10, NobodyAnswersSteady, PromoteSteady, TryRejoinSteady,
         CheckOrphanedSteady, TryGoingHomeSteady, TryHandbackSteady, RestartSteady,
         CreateSteady, OrderJoinSteady DEF Turn
    <3>2. UNCHANGED <<sync, pending, links, asked>>
      BY <2>10 DEF Turn, NobodyAnswers, Promote, TryRejoin, CheckOrphaned, TryGoingHome,
         TryHandback, Restart, Create, OrderJoin, syncVars
    <3> QED BY <1>0, <2>0, <3>1, <3>2, AskedLinks DEF Typed
  <2>11. CASE Crash(s)
    BY <1>0, <2>11, CrashSteady, CrashLinks DEF Typed
  <2> QED BY <2>1, <2>2, <2>3, <2>4, <2>5, <2>6, <2>7, <2>8, <2>9, <2>10, <2>11
          DEF Work, Order, Fault
<1> QED BY <1>1, <1>2

LEMMA TypedIs == Typed => TypeOK
<1> SUFFICES ASSUME Typed PROVE TypeOK
  OBVIOUS
<1>1. SessionOK /\ SyncOK
  BY DEF Typed
<1>2. ASSUME NEW s \in Stations
      PROVE  /\ session[s] \in [follower : BOOLEAN, advertising : BOOLEAN, named : BOOLEAN,
                                rejoin : Stations \cup {None}, handback : Stations \cup {None},
                                standIn : Stations \cup {None}]
             /\ ~(session[s].follower /\ session[s].advertising)
             /\ joining[s].to \in Stations \cup {None} /\ joining[s].answered \in BOOLEAN
             /\ promotions[s] \in Nat
             /\ remembered[s] \in (Stations \cup {None}) \ {s}
  BY <1>1 DEF SessionOK, Steady, Sessions, Joinings, Ends
<1>3. ASSUME NEW s \in Stations
      PROVE  /\ sync[s].leader \in Stations /\ sync[s].members \subseteq Stations
             /\ sync[s].peers \in [Stations -> Links \cup {None}]
  BY <1>1 DEF SyncOK, Tables
<1>4. ASSUME NEW s \in Stations, NEW t \in Stations, Live(s, sync[s].peers[t])
      PROVE  {links[sync[s].peers[t]].from, links[sync[s].peers[t]].to} = {s, t}
  <2>1. Knows(s, Holding(s)) /\ Holding(s).peers = sync[s].peers /\ Holding(s).links = links
    BY <1>1 DEF SyncOK, Holding
  <2> QED BY <1>4, <2>1 DEF Knows, Between, Live
<1>5. up \subseteq Stations /\ adverts \subseteq up /\ left \subseteq Stations
  BY <1>1 DEF SessionOK
<1> QED BY <1>2, <1>3, <1>4, <1>5 DEF TypeOK

(***************************************************************************)
(* For any stations, places, plans and faults: a follower announces no     *)
(* session, nobody remembers or goes back to itself, and a peer a sync     *)
(* manager knows is at the other end of the link it is known by, however   *)
(* late a handshake is registered and however often its place is used      *)
(* again.                                                                  *)
(***************************************************************************)
THEOREM SessionTypes == Spec => []TypeOK
<1>1. Init => Typed
  BY InitSteady, InitLinks DEF Typed
<1>2. Typed /\ [Next]_vars => Typed'
  BY NextTyped
<1> QED BY <1>1, <1>2, TypedIs, PTL DEF Spec

=============================================================================
