-------------------------- MODULE Reconnect_proofs --------------------------
(***************************************************************************)
(* For any ids, paths, bounds, failures and timing of writes: the rule     *)
(* both ends of a link apply apart comes to two halves of one plan, and no *)
(* number is given to two writes, across breaks and restarts.  A leader    *)
(* that stays up never goes back, whatever it is handed; and it is handed  *)
(* what the follower did on its own.                                       *)
(***************************************************************************)
EXTENDS Reconnect, Library_proofs, SequenceTheorems, FiniteSetTheorems

Halves ==
    {<<"Wait", "ReplayThenRequest">>, <<"SendSnapshot", "Replay">>,
     <<"Replay", "SendSnapshot">>, <<"Replay", "ReplayThenRunning">>}

(***************************************************************************)
(* catch_up itself: given the same account of who leads and of who is      *)
(* fresh, the two ends never both send the show, both wait or both ask.    *)
(***************************************************************************)
THEOREM RuleHasTwoHalves ==
    ASSUME NEW leaderFresh \in BOOLEAN, NEW followerFresh \in BOOLEAN,
           NEW lost \in BOOLEAN
    PROVE  <<CatchUp(TRUE, FALSE, leaderFresh, followerFresh, FALSE),
             CatchUp(FALSE, TRUE, followerFresh, leaderFresh, lost)>> \in Halves
<1>1. CASE leaderFresh = followerFresh
  <2>1. CatchUp(TRUE, FALSE, leaderFresh, followerFresh, FALSE) = "Wait"
    BY <1>1 DEF CatchUp
  <2>2. CatchUp(FALSE, TRUE, followerFresh, leaderFresh, lost) = "ReplayThenRequest"
    BY <1>1 DEF CatchUp
  <2> QED BY <2>1, <2>2 DEF Halves
<1>2. CASE leaderFresh /\ ~followerFresh
  <2>1. CatchUp(TRUE, FALSE, leaderFresh, followerFresh, FALSE) = "Replay"
    BY <1>2 DEF CatchUp
  <2>2. CatchUp(FALSE, TRUE, followerFresh, leaderFresh, lost) =
            IF lost THEN "ReplayThenRunning" ELSE "SendSnapshot"
    BY <1>2 DEF CatchUp
  <2> QED BY <2>1, <2>2 DEF Halves
<1>3. CASE ~leaderFresh /\ followerFresh
  <2>1. CatchUp(TRUE, FALSE, leaderFresh, followerFresh, FALSE) = "SendSnapshot"
    BY <1>3 DEF CatchUp
  <2>2. CatchUp(FALSE, TRUE, followerFresh, leaderFresh, lost) = "Replay"
    BY <1>3 DEF CatchUp
  <2> QED BY <2>1, <2>2 DEF Halves
<1> QED BY <1>1, <1>2, <1>3

-----------------------------------------------------------------------------
Stages == {"down", "hello", "greeted", "replayed", "up"}

Types ==
    /\ DOMAIN stage = Stations
    /\ \A s \in Stations : stage[s] \in Stages
    /\ DOMAIN how = Stations
    /\ DOMAIN fresh = Stations /\ \A s \in Stations : fresh[s] \in BOOLEAN
    /\ DOMAIN hello = Stations /\ \A s \in Stations : hello[s].fresh \in BOOLEAN
    /\ lostLeader \in BOOLEAN

\* The leader's end never runs ahead of the dial, and what each end chose is
\* what the rule says of the two accounts given on this link.
LeaderChose ==
    stage[Leader] # "down" =>
        /\ stage[Follower] # "down"
        /\ how[Leader] = CatchUp(TRUE, FALSE, hello[Leader].fresh, hello[Follower].fresh, FALSE)

FollowerChose ==
    stage[Follower] \in {"greeted", "replayed", "up"} =>
        /\ stage[Leader] # "down"
        /\ \E lost \in BOOLEAN :
             how[Follower] = CatchUp(FALSE, TRUE, hello[Follower].fresh, hello[Leader].fresh, lost)

LeaderNeverDials == stage[Leader] # "hello"

Handshake == Types /\ LeaderNeverDials /\ LeaderChose /\ FollowerChose

LEMMA HandshakeInit == Init => Handshake
<1> SUFFICES ASSUME Init PROVE Handshake
  OBVIOUS
<1> USE DEF Init, Stations, Stages
<1>1. Types
  BY DEF Types
<1>2. stage[Leader] = "down" /\ stage[Follower] = "down"
  OBVIOUS
<1> QED BY <1>1, <1>2 DEF Handshake, LeaderNeverDials, LeaderChose, FollowerChose

LEMMA HandshakeStep == Handshake /\ [Next]_vars => Handshake'
<1> SUFFICES ASSUME Handshake, [Next]_vars PROVE Handshake'
  OBVIOUS
<1> USE IdsAssumption DEF Stations, Stages, Types, LeaderNeverDials, LeaderChose, FollowerChose
<1> USE DEF Handshake
<1>a. CASE UNCHANGED <<stage, hello, how>> /\ fresh' = fresh /\ lostLeader' \in BOOLEAN
  BY <1>a
<1>b. CASE /\ stage' = [s \in Stations |-> "down"] /\ UNCHANGED <<hello, how>>
           /\ DOMAIN fresh' = Stations /\ \A s \in Stations : fresh'[s] \in BOOLEAN
           /\ lostLeader' \in BOOLEAN
  BY <1>b
<1>1. CASE \E s \in Stations, p \in Paths : Write(s, p)
  BY <1>1, <1>a DEF Write
<1>2. CASE \E s \in Stations : Broadcast(s)
  BY <1>2, <1>a DEF Broadcast
<1>3. ASSUME NEW s \in Stations, PeerLost(s) PROVE Handshake'
  <2>1. CASE stage[s] = "up" /\ registered[s] = count.links
    BY <1>3, <2>1, <1>b DEF PeerLost, Severed
  <2>2. CASE ~(stage[s] = "up" /\ registered[s] = count.links)
    BY <1>3, <2>2, <1>a DEF PeerLost
  <2> QED BY <2>1, <2>2
<1>4. CASE \E s \in Stations : Register(s)
  BY <1>4, <1>a DEF Register
<1>5. CASE Dial
  BY <1>5 DEF Dial
<1>6. CASE Greet
  BY <1>6 DEF Greet
<1>7. CASE Greeted
  BY <1>7 DEF Greeted
<1>8. ASSUME NEW s \in Stations, Replay(s) PROVE Handshake'
  <2>1. CASE s = Leader BY <1>8, <2>1 DEF Replay
  <2>2. CASE s = Follower BY <1>8, <2>2 DEF Replay
  <2> QED BY <2>1, <2>2
<1>9. ASSUME NEW s \in Stations, SendWhatIsRunning(s) PROVE Handshake'
  <2>1. CASE s = Leader BY <1>9, <2>1 DEF SendWhatIsRunning
  <2>2. CASE s = Follower BY <1>9, <2>2 DEF SendWhatIsRunning
  <2> QED BY <2>1, <2>2
<1>10. CASE \E s \in Stations : Send(s) \/ Read(s) \/ Engine(s)
  BY <1>10, <1>a DEF Send, Read, Engine
<1>11. CASE Drop
  BY <1>11, <1>b DEF Drop, Severed
<1>12. CASE \E s \in Stations : Restart(s)
  BY <1>12, <1>b DEF Restart, Severed
<1>13. ASSUME NEW s \in Stations, GrowsOld(s) PROVE Handshake'
  BY <1>13 DEF GrowsOld
<1>14. CASE UNCHANGED vars
  BY <1>14, <1>a DEF vars
<1> QED BY <1>1, <1>2, <1>3, <1>4, <1>5, <1>6, <1>7, <1>8, <1>9, <1>10, <1>11, <1>12,
           <1>13, <1>14 DEF Next

LEMMA HandshakeGivesOneRule == Handshake => OneRule
<1> SUFFICES ASSUME Handshake, Up
             PROVE  <<how[Leader], how[Follower]>> \in Halves
  BY DEF OneRule, Halves
<1> USE DEF Handshake, Stations, Up, Types
<1>1. how[Leader] = CatchUp(TRUE, FALSE, hello[Leader].fresh, hello[Follower].fresh, FALSE)
  BY DEF LeaderChose
<1>2. PICK lost \in BOOLEAN :
        how[Follower] = CatchUp(FALSE, TRUE, hello[Follower].fresh, hello[Leader].fresh, lost)
  BY DEF FollowerChose
<1>3. hello[Leader].fresh \in BOOLEAN /\ hello[Follower].fresh \in BOOLEAN
  OBVIOUS
<1> QED BY <1>1, <1>2, <1>3, RuleHasTwoHalves

(***************************************************************************)
(* On every link that comes up the two ends have taken the two halves of   *)
(* one plan, whatever restarted, dropped or was written meanwhile (catch_up *)
(* and its two callers, spawn_outbound and handle_inbound).                *)
(***************************************************************************)
THEOREM OneRuleHolds == Spec => []OneRule
<1>1. Init => Handshake BY HandshakeInit
<1>2. Handshake /\ [Next]_vars => Handshake' BY HandshakeStep
<1>3. Handshake => OneRule BY HandshakeGivesOneRule
<1> QED BY <1>1, <1>2, <1>3, PTL DEF Spec
-----------------------------------------------------------------------------
(***************************************************************************)
(* Numbers.  What is on its way was made by somebody, a station keeps what *)
(* it made, and its clock never counts less than it made.                  *)
(***************************************************************************)
Ops == [path : Paths, node : Stations, clock : Clock(Stations)]

Stamps == [node : Stations, clock : Clock(Stations)]

Shows == [Paths -> Stamps]

\* An engine that holds writes of W alone.
Engines(W) == [clock : Clock(Stations), log : SUBSET W, known : Shows, show : Shows]

Writes(W) == [type : {"write"}, op : W]

Frames(W) ==
    Writes(W) \cup [type : {"batch"}, ops : Seq(W)]
        \cup [type : {"snapshot", "running"}, show : Shows] \cup [type : {"request"}]

Commands(W) == Writes(W) \cup [type : {"lost"}]

OnlyWritten ==
    /\ Written \in SUBSET Ops /\ IsFiniteSet(Written)
    /\ engine \in [Stations -> Engines(Written)]
    /\ inbox \in [Stations -> Seq(Frames(Written))]
    /\ wire \in [Stations -> Seq(Frames(Written))]
    /\ outbox \in [Stations -> Seq(Writes(Written))]
    /\ manager \in [Stations -> Seq(Commands(Written))]

Counts == [links : Nat, writes : Nat, restarts : Nat]

NumberOf(op) == <<op.node, Number(op)>>

Numbered ==
    /\ \A op \in Written : /\ op \in engine[op.node].log
                           /\ Number(op) <= engine[op.node].clock[op.node]
    /\ IsFiniteSet({NumberOf(op) : op \in Written})
    /\ count \in Counts
    /\ Cardinality({NumberOf(op) : op \in Written}) = count.writes

\* What an engine may become by taking writes of W: nothing is lost from its
\* log, and nothing it counted is uncounted.
Further(e, W) ==
    {x \in Engines(W) : /\ e.log \subseteq x.log
                        /\ \A n \in Stations : e.clock[n] <= x.clock[n]}

LEMMA ApplyGoesFurther ==
    ASSUME NEW W \in SUBSET Ops, NEW s \in Stations, NEW op \in W,
           NEW e \in Engines(W), NEW x \in Further(e, W)
    PROVE  ApplyPeerOperation(x, s, op) \in Further(e, W)
<1>1. /\ x \in Engines(W) /\ e.log \subseteq x.log /\ x.log \subseteq W
      /\ x.clock \in Clock(Stations) /\ e.clock \in Clock(Stations)
      /\ \A n \in Stations : e.clock[n] <= x.clock[n]
      /\ op.clock \in Clock(Stations) /\ op.path \in Paths /\ Stamp(op) \in Stamps
  BY DEF Further, Engines, Ops, Stamps, Stamp
<1> PICK merged : merged = Merge(x.clock, op.clock)
  OBVIOUS
<1>2. /\ merged \in Clock(Stations) /\ Increment(merged, s) \in Clock(Stations)
      /\ \A n \in Stations : x.clock[n] <= merged[n] /\ merged[n] <= Increment(merged, s)[n]
  <2>1. merged \in Clock(Stations) /\ \A n \in Stations : x.clock[n] <= merged[n]
    BY <1>1, MergeType DEF Merge, Clock
  <2>2. Increment(merged, s) \in Clock(Stations)
    BY <2>1, IncrementType
  <2>3. \A n \in Stations : merged[n] <= Increment(merged, s)[n]
    BY <2>1 DEF Increment, Clock
  <2> QED BY <2>1, <2>2, <2>3
<1>3. /\ \A n \in Stations : e.clock[n] <= merged[n]
      /\ \A n \in Stations : e.clock[n] <= Increment(merged, s)[n]
  <2> SUFFICES ASSUME NEW n \in Stations
               PROVE  e.clock[n] <= merged[n] /\ e.clock[n] <= Increment(merged, s)[n]
    OBVIOUS
  <2>1. /\ e.clock[n] \in Nat /\ x.clock[n] \in Nat /\ merged[n] \in Nat
        /\ Increment(merged, s)[n] \in Nat
    BY <1>1, <1>2 DEF Clock
  <2> QED BY <1>1, <1>2, <2>1
<1>4. CASE Accepts(x.known[op.path], op)
  <2> PICK y : y = Holding(x, op, Increment(merged, s))
    OBVIOUS
  <2>1. ApplyPeerOperation(x, s, op) = y
    BY <1>4 DEF ApplyPeerOperation
  <2>2. /\ y = [clock |-> y.clock, log |-> y.log, known |-> y.known, show |-> y.show]
        /\ y.clock = Increment(merged, s) /\ y.log = x.log \cup {op}
        /\ y.known = [x.known EXCEPT ![op.path] = Stamp(op)]
        /\ y.show = [x.show EXCEPT ![op.path] = Stamp(op)]
    BY DEF Holding
  <2>3. y.known \in Shows /\ y.show \in Shows
    BY <1>1, <2>2 DEF Engines, Shows
  <2>4. y \in Engines(W)
    BY <1>1, <1>2, <2>2, <2>3 DEF Engines
  <2> QED BY <1>1, <1>3, <2>1, <2>2, <2>4 DEF Further
<1>5. CASE ~Accepts(x.known[op.path], op)
  <2> PICK y : y = [x EXCEPT !.clock = merged]
    OBVIOUS
  <2>1. ApplyPeerOperation(x, s, op) = y
    BY <1>5 DEF ApplyPeerOperation
  <2>2. y \in Engines(W) /\ y.clock = merged /\ y.log = x.log
    BY <1>1, <1>2 DEF Engines
  <2> QED BY <1>1, <1>3, <2>1, <2>2 DEF Further
<1> QED BY <1>4, <1>5

(***************************************************************************)
(* A batch, taken write by write, stays where each of its writes stays.    *)
(***************************************************************************)
AppliedAll(e, s, ops) == FoldLeft(LAMBDA x, op : ApplyPeerOperation(x, s, op), e, ops)

LEMMA BatchKeeps ==
    ASSUME NEW V, NEW W, NEW s, NEW ops \in Seq(W), NEW e \in V,
           \A x \in V, op \in W : ApplyPeerOperation(x, s, op) \in V
    PROVE  AppliedAll(e, s, ops) \in V
<1> PICK n : n = Len(ops)
  OBVIOUS
<1>1. n \in Nat /\ DOMAIN ops = 1..n /\ \A i \in 1..n : ops[i] \in W
  BY LenProperties, ElementOfSeq
<1> PICK F : F = [i \in 1..n |-> [x \in V |-> ApplyPeerOperation(x, s, ops[i])]]
  OBVIOUS
<1>2. F \in [1..n -> [V -> V]]
  BY <1>1
<1>3. PICK g \in [SUBSET (1..n) -> V] : Solves(g, F, e, n)
  BY <1>1, <1>2, FoldHasSolution
<1> DEFINE Body(h) == [S \in SUBSET (1..n) |->
                IF S = {} THEN e ELSE ApplyPeerOperation(h[S \ {Max(S)}], s, ops[Max(S)])]
<1>4. g = Body(g)
  <2>1. ASSUME NEW S \in SUBSET (1..n), S # {}
        PROVE  F[Max(S)][g[S \ {Max(S)}]] = ApplyPeerOperation(g[S \ {Max(S)}], s, ops[Max(S)])
    <3>1. S \in SUBSET Nat /\ S # {} /\ \A i \in S : i <= n
      BY <1>1, <2>1
    <3>2. Max(S) \in S
      BY <1>1, <3>1, MaxBounds
    <3>3. Max(S) \in 1..n /\ S \ {Max(S)} \in SUBSET (1..n)
      BY <3>2
    <3> QED BY <3>3
  <2>2. g = [S \in SUBSET (1..n) |-> g[S]]
    OBVIOUS
  <2>3. \A S \in SUBSET (1..n) :
            g[S] = IF S = {} THEN e ELSE F[Max(S)][g[S \ {Max(S)}]]
    BY <1>3 DEF Solves
  <2>4. \A S \in SUBSET (1..n) :
            g[S] = IF S = {} THEN e ELSE ApplyPeerOperation(g[S \ {Max(S)}], s, ops[Max(S)])
    BY <2>1, <2>3
  <2> QED BY <2>2, <2>4
<1> PICK h : h = (CHOOSE f : f = Body(f))
  OBVIOUS
<1>5. h = Body(h)
  BY <1>4
<1>6. AppliedAll(e, s, ops) = h[1..n]
  <2>1. AppliedAll(e, s, ops) =
          (CHOOSE f : f = [S \in SUBSET DOMAIN ops |->
              IF S = {} THEN e
              ELSE ApplyPeerOperation(f[S \ {Max(S)}], s, ops[Max(S)])])[DOMAIN ops]
    BY Zenon DEF AppliedAll, FoldLeft, MapThenFoldSet
  <2> QED BY <1>1, <2>1, Zenon
<1> DEFINE T == {i \in 0..n : h[1..i] \in V}
<1>7. 0 \in T
  <2>1. 1..0 = {} /\ {} \in SUBSET (1..n)
    OBVIOUS
  <2>2. h[{}] = e
    BY <1>5, <2>1
  <2> QED BY <1>1, <2>1, <2>2
<1>8. ASSUME NEW i \in 1..n, i - 1 \in T PROVE i \in T
  <2>1. Max(1..i) = i /\ (1..i) \ {i} = 1..(i - 1)
    <3>1. i \in Nat \ {0}
      OBVIOUS
    <3> QED BY <3>1, MaxUpTo
  <2>2. 1..i \in SUBSET (1..n) /\ 1..i # {} /\ i \in 0..n
    <3>1. i \in 1..i /\ i \in 0..n
      BY <1>1
    <3>2. \A j \in 1..i : j \in 1..n
      BY <1>1
    <3> QED BY <3>1, <3>2
  <2> PICK S : S = 1..i
    OBVIOUS
  <2>3. h[S] = ApplyPeerOperation(h[S \ {Max(S)}], s, ops[Max(S)])
    <3>1. \A R \in SUBSET (1..n) :
              h[R] = IF R = {} THEN e ELSE ApplyPeerOperation(h[R \ {Max(R)}], s, ops[Max(R)])
      BY <1>5
    <3> QED BY <2>2, <3>1
  <2>4. h[1..i] = ApplyPeerOperation(h[1..(i - 1)], s, ops[i])
    BY <2>1, <2>3
  <2> QED BY <1>1, <1>8, <2>2, <2>4
<1>9. 0..n \subseteq T
  <2> HIDE DEF T
  <2> QED BY <1>1, <1>7, <1>8, UpTo
<1>10. n \in T
  <2> HIDE DEF T
  <2> QED BY <1>1, <1>9
<1> QED BY <1>6, <1>10

-----------------------------------------------------------------------------
\* What the rule can answer.
Answers == {"Wait", "SendSnapshot", "Replay", "ReplayThenRequest", "ReplayThenRunning"}

Chosen == how \in [Stations -> Answers]

NumberInv == OnlyWritten /\ Numbered /\ Chosen

\* A step that makes no write: what it puts on the way was on the way.
Carries ==
    /\ engine' \in [Stations -> Engines(Written)]
    /\ \A s \in Stations : engine[s].log \subseteq engine'[s].log
    /\ \A op \in Written : Number(op) <= engine'[op.node].clock[op.node]
    /\ count' \in Counts /\ count'.writes = count.writes
    /\ how' \in [Stations -> Answers]
    /\ inbox' \in [Stations -> Seq(Frames(Written))]
    /\ wire' \in [Stations -> Seq(Frames(Written))]
    /\ outbox' \in [Stations -> Seq(Writes(Written))]
    /\ manager' \in [Stations -> Seq(Commands(Written))]

LEMMA CarriesKeeps ==
    ASSUME NumberInv, Carries
    PROVE  NumberInv'
<1>1. Written' = Written
  <2>1. \A s \in Stations : engine'[s].log \subseteq Written
    BY DEF Carries, Engines
  <2>2. \A s \in Stations : engine[s].log \subseteq engine'[s].log
    BY DEF Carries
  <2> QED BY <2>1, <2>2 DEF Written
<1>2. OnlyWritten'
  BY <1>1 DEF NumberInv, OnlyWritten, Carries
<1>3. Numbered'
  <2>1. \A op \in Written : op.node \in Stations
    BY DEF NumberInv, OnlyWritten, Ops
  <2>2. \A op \in Written : op \in engine'[op.node].log
    BY <2>1 DEF Carries, NumberInv, Numbered
  <2> QED BY <1>1, <2>2 DEF NumberInv, Numbered, Carries
<1> QED BY <1>2, <1>3 DEF NumberInv, Chosen, Carries

\* The engines as they are.
LEMMA EnginesStay ==
    ASSUME NumberInv, engine' = engine
    PROVE  /\ engine' \in [Stations -> Engines(Written)]
           /\ \A s \in Stations : engine[s].log \subseteq engine'[s].log
           /\ \A op \in Written : Number(op) <= engine'[op.node].clock[op.node]
BY DEF NumberInv, OnlyWritten, Numbered

\* Taking one from the front of a queue, and putting one at its end.
LEMMA QueueStep ==
    ASSUME NEW A, NEW f \in [Stations -> Seq(A)], NEW s \in Stations
    PROVE  /\ f[s] # <<>> => Head(f[s]) \in A /\ [f EXCEPT ![s] = Tail(@)] \in [Stations -> Seq(A)]
           /\ \A x \in A : [f EXCEPT ![s] = Append(@, x)] \in [Stations -> Seq(A)]
           /\ \A q \in Seq(A) : [f EXCEPT ![s] = @ \o q] \in [Stations -> Seq(A)]
<1> PICK q : q = f[s]
  OBVIOUS
<1>1. q \in Seq(A)
  OBVIOUS
<1>2. q # <<>> => Head(q) \in A /\ Tail(q) \in Seq(A)
  BY <1>1, HeadTailProperties
<1>3. \A x \in A : Append(q, x) \in Seq(A)
  BY <1>1, AppendProperties
<1>4. \A r \in Seq(A) : q \o r \in Seq(A)
  BY <1>1, ConcatProperties
<1> QED BY <1>2, <1>3, <1>4

LEMMA SeveredKeeps ==
    ASSUME NumberInv, NEW commands \in [Stations -> Seq(Commands(Written))], NEW alive,
           Severed(commands, alive)
    PROVE  /\ wire' \in [Stations -> Seq(Frames(Written))]
           /\ outbox' \in [Stations -> Seq(Writes(Written))]
           /\ manager' \in [Stations -> Seq(Commands(Written))]
<1>1. /\ wire' = [s \in Stations |-> <<>>] /\ outbox' = [s \in Stations |-> <<>>]
      /\ manager' = [s \in Stations |->
            IF s \notin alive THEN <<>>
            ELSE IF stage[s] = "up" THEN Append(commands[s], [type |-> "lost"])
            ELSE commands[s]]
  BY DEF Severed
<1>2. /\ <<>> \in Seq(Frames(Written)) /\ <<>> \in Seq(Writes(Written))
      /\ <<>> \in Seq(Commands(Written))
  BY EmptySeq
<1>3. \A s \in Stations : Append(commands[s], [type |-> "lost"]) \in Seq(Commands(Written))
  <2>1. [type |-> "lost"] \in Commands(Written)
    BY DEF Commands
  <2> QED BY <2>1, AppendProperties
<1> QED BY <1>1, <1>2, <1>3

LEMMA WriteKeepsNumbers ==
    ASSUME NumberInv, NEW s \in Stations, NEW p \in Paths, Write(s, p)
    PROVE  NumberInv'
<1> PICK now : now = Increment(engine[s].clock, s)
  OBVIOUS
<1> PICK op : op = [path |-> p, node |-> s, clock |-> now]
  OBVIOUS
<1> PICK e : e = engine[s]
  OBVIOUS
<1> PICK x : x = Holding(e, op, now)
  OBVIOUS
<1> PICK W : W = Written \cup {op}
  OBVIOUS
<1>1. /\ engine' = [engine EXCEPT ![s] = x] /\ count' = [count EXCEPT !.writes = @ + 1]
      /\ manager' = [manager EXCEPT ![s] = Append(@, [type |-> "write", op |-> op])]
      /\ UNCHANGED <<inbox, outbox, wire>>
  BY DEF Write
<1>2. /\ e \in Engines(Written) /\ e.clock \in Clock(Stations) /\ now \in Clock(Stations)
      /\ op \in Ops /\ Stamp(op) \in Stamps /\ op.path = p /\ op.node = s /\ op.clock = now
      /\ Number(op) = e.clock[s] + 1 /\ e.clock[s] \in Nat
  <2>1. e \in Engines(Written) /\ e.clock \in Clock(Stations)
    BY DEF NumberInv, OnlyWritten, Engines
  <2>2. now \in Clock(Stations)
    BY <2>1, IncrementType
  <2>3. op \in Ops /\ Stamp(op) \in Stamps
    BY <2>2 DEF Ops, Stamps, Stamp
  <2>4. now[s] = e.clock[s] + 1 /\ e.clock[s] \in Nat
    BY <2>1 DEF Increment, Clock
  <2> QED BY <2>1, <2>2, <2>3, <2>4 DEF Number
<1>3. /\ x \in Engines(W) /\ x.log = e.log \cup {op} /\ x.clock = now
  <2>1. /\ x = [clock |-> x.clock, log |-> x.log, known |-> x.known, show |-> x.show]
        /\ x.clock = now /\ x.log = e.log \cup {op}
        /\ x.known = [e.known EXCEPT ![p] = Stamp(op)]
        /\ x.show = [e.show EXCEPT ![p] = Stamp(op)]
    BY <1>2 DEF Holding
  <2>2. x.known \in Shows /\ x.show \in Shows /\ x.log \subseteq W
    BY <1>2, <2>1 DEF Engines, Shows
  <2> QED BY <1>2, <2>1, <2>2 DEF Engines
<1>4. Written \subseteq W /\ W \in SUBSET Ops /\ IsFiniteSet(W)
  BY <1>2, FS_AddElement DEF NumberInv, OnlyWritten
<1>5. \A A, B : A \subseteq B => Seq(A) \subseteq Seq(B)
  BY SeqMonotonic
<1>6. /\ Engines(Written) \subseteq Engines(W) /\ Writes(Written) \subseteq Writes(W)
      /\ Frames(Written) \subseteq Frames(W) /\ Commands(Written) \subseteq Commands(W)
  BY <1>4, <1>5 DEF Engines, Writes, Frames, Commands
<1>7. engine'[s] = x /\ \A t \in Stations : t # s => engine'[t] = engine[t]
  BY <1>1 DEF NumberInv, OnlyWritten
<1>8. Written' = W
  <2>1. \A t \in Stations : engine'[t].log = IF t = s THEN e.log \cup {op} ELSE engine[t].log
    BY <1>3, <1>7
  <2> QED BY <2>1 DEF Written
<1>9. OnlyWritten'
  <2>1. engine' \in [Stations -> Engines(W)]
    BY <1>1, <1>3, <1>6 DEF NumberInv, OnlyWritten
  <2>2. /\ inbox' \in [Stations -> Seq(Frames(W))] /\ wire' \in [Stations -> Seq(Frames(W))]
        /\ outbox' \in [Stations -> Seq(Writes(W))] /\ manager \in [Stations -> Seq(Commands(W))]
    BY <1>1, <1>5, <1>6 DEF NumberInv, OnlyWritten
  <2>3. manager' \in [Stations -> Seq(Commands(W))]
    <3>1. [type |-> "write", op |-> op] \in Commands(W)
      BY DEF Commands, Writes
    <3> QED BY <1>1, <2>2, <3>1, QueueStep
  <2> QED BY <1>4, <1>8, <2>1, <2>2, <2>3 DEF OnlyWritten
<1>10. Numbered'
  <2>1. \A o \in Written : o.node \in Stations /\ Number(o) \in Nat
    BY DEF NumberInv, OnlyWritten, Ops, Clock, Number
  <2>2. ASSUME NEW o \in W
        PROVE  o \in engine'[o.node].log /\ Number(o) <= engine'[o.node].clock[o.node]
    <3>1. CASE o = op
      BY <1>2, <1>3, <1>7, <3>1 DEF Number
    <3>2. CASE o \in Written /\ o.node = s
      <4>1. o \in e.log /\ Number(o) <= e.clock[s]
        BY <3>2 DEF NumberInv, Numbered
      <4>2. x.clock[s] = e.clock[s] + 1
        BY <1>2, <1>3 DEF Number
      <4> QED BY <1>2, <1>3, <1>7, <2>1, <3>2, <4>1, <4>2
    <3>3. CASE o \in Written /\ o.node # s
      BY <1>7, <2>1, <3>3 DEF NumberInv, Numbered
    <3> QED BY <3>1, <3>2, <3>3
  <2> PICK N : N = {NumberOf(o) : o \in Written}
    OBVIOUS
  <2>3. {NumberOf(o) : o \in W} = N \cup {NumberOf(op)}
    OBVIOUS
  <2>4. NumberOf(op) \notin N
    <3> SUFFICES ASSUME NEW o \in Written, NumberOf(o) = NumberOf(op) PROVE FALSE
      OBVIOUS
    <3>1. o.node = s /\ Number(o) = e.clock[s] + 1
      BY <1>2 DEF NumberOf
    <3>2. Number(o) <= e.clock[s]
      BY <3>1 DEF NumberInv, Numbered
    <3> QED BY <1>2, <3>1, <3>2
  <2>5. IsFiniteSet(N) /\ Cardinality(N) = count.writes /\ count.writes \in Nat
    BY DEF NumberInv, Numbered, Counts
  <2>6. /\ IsFiniteSet(N \cup {NumberOf(op)})
        /\ Cardinality(N \cup {NumberOf(op)}) = count.writes + 1
    BY <2>4, <2>5, FS_AddElement
  <2>7. count' \in Counts /\ count'.writes = count.writes + 1
    BY <1>1 DEF NumberInv, Numbered, Counts
  <2> QED BY <1>8, <2>2, <2>3, <2>5, <2>6, <2>7 DEF Numbered
<1>11. Chosen'
  BY DEF NumberInv, Chosen, Write
<1> QED BY <1>9, <1>10, <1>11 DEF NumberInv

\* A step of one engine, which takes nothing from its log and uncounts nothing.
LEMMA EngineGoesFurther ==
    ASSUME NumberInv, NEW s \in Stations, NEW x \in Further(engine[s], Written),
           engine' = [engine EXCEPT ![s] = x]
    PROVE  /\ engine' \in [Stations -> Engines(Written)]
           /\ \A t \in Stations : engine[t].log \subseteq engine'[t].log
           /\ \A op \in Written : Number(op) <= engine'[op.node].clock[op.node]
<1>1. /\ engine \in [Stations -> Engines(Written)] /\ x \in Engines(Written)
      /\ engine[s].log \subseteq x.log /\ \A n \in Stations : engine[s].clock[n] <= x.clock[n]
  BY DEF NumberInv, OnlyWritten, Further
<1>2. engine' \in [Stations -> Engines(Written)]
  BY <1>1
<1>3. \A t \in Stations : engine'[t] = IF t = s THEN x ELSE engine[t]
  BY <1>1
<1>4. \A t \in Stations : engine[t].log \subseteq engine'[t].log
  BY <1>1, <1>3
<1>5. ASSUME NEW op \in Written PROVE Number(op) <= engine'[op.node].clock[op.node]
  <2>1. op.node \in Stations /\ Number(op) \in Nat /\ Number(op) <= engine[op.node].clock[op.node]
    BY DEF NumberInv, OnlyWritten, Numbered, Ops, Clock, Number
  <2>2. engine[op.node].clock[op.node] \in Nat /\ engine'[op.node].clock[op.node] \in Nat
    BY <1>1, <1>2, <2>1 DEF Engines, Clock
  <2>3. engine[op.node].clock[op.node] <= engine'[op.node].clock[op.node]
    <3>1. CASE op.node = s BY <1>1, <1>3, <3>1
    <3>2. CASE op.node # s BY <1>3, <2>1, <2>2, <3>2
    <3> QED BY <3>1, <3>2
  <2> QED BY <2>1, <2>2, <2>3
<1> QED BY <1>2, <1>4, <1>5

\* What a station owes is made of its log and its rows.
LEMMA OwedIsWritten ==
    ASSUME NumberInv, NEW s \in Stations, how[s] \in Answers,
           NEW past, NEW ops \in Oldest(OperationsSince(engine[s], past))
    PROVE  Owed(s, ops) \in Seq(Frames(Written))
<1>1. engine[s] \in Engines(Written) /\ IsFiniteSet(Written)
  BY DEF NumberInv, OnlyWritten
<1> PICK missing : missing = OperationsSince(engine[s], past)
  OBVIOUS
<1>2. missing \subseteq Written /\ IsFiniteSet(missing)
  <2>1. missing \subseteq Written
    BY <1>1 DEF OperationsSince, Engines
  <2> QED BY <1>1, <2>1, FS_Subset
<1>3. ops \in Seq(Written)
  <2>1. Cardinality(missing) \in Nat /\ ops \in [1..Cardinality(missing) -> missing]
    BY <1>2, FS_CardinalityType DEF Oldest, SetToSeqs
  <2> QED BY <1>2, <2>1, SeqDef
<1>4. /\ [type |-> "request"] \in Frames(Written)
      /\ [type |-> "batch", ops |-> ops] \in Frames(Written)
      /\ Snapshot(s) \in Frames(Written)
  BY <1>1, <1>3 DEF Frames, Snapshot, Engines
<1> PICK A : A = Frames(Written)
  OBVIOUS
<1>5. /\ <<>> \in Seq(A) /\ <<[type |-> "request"]>> \in Seq(A)
      /\ <<[type |-> "batch", ops |-> ops]>> \in Seq(A) /\ <<Snapshot(s)>> \in Seq(A)
  BY <1>4
<1>6. \A q, r \in Seq(A) : q \o r \in Seq(A)
  BY ConcatProperties
<1> DEFINE instead == IF s = Leader THEN <<Snapshot(s)>> ELSE <<>>
           replayed == IF CheaperAsShow(engine[s], hello[Other(s)].clock) THEN instead
                       ELSE <<[type |-> "batch", ops |-> ops]>>
<1>7. replayed \in Seq(A)
  BY <1>5
<1>8. Owed(s, ops) = CASE how[s] = "Wait" -> <<>>
          [] how[s] = "SendSnapshot" -> <<Snapshot(s)>>
          [] how[s] = "Replay" -> replayed
          [] how[s] = "ReplayThenRequest" -> replayed \o <<[type |-> "request"]>>
          [] how[s] = "ReplayThenRunning" -> <<[type |-> "batch", ops |-> ops]>>
  BY DEF Owed
<1> HIDE DEF replayed
<1>9. replayed \o <<[type |-> "request"]>> \in Seq(A)
  BY <1>5, <1>6, <1>7
<1> QED BY <1>5, <1>7, <1>8, <1>9 DEF Answers

LEMMA RuleAnswers ==
    ASSUME NEW a, NEW b, NEW c \in BOOLEAN, NEW d \in BOOLEAN, NEW f
    PROVE  CatchUp(a, b, c, d, f) \in Answers
BY DEF CatchUp, Answers

LEMMA StartTypes == Start \in Stamps /\ Unwritten \in Stamps /\ NothingKnown \in Shows
<1>1. Start \in Stamps
  <2>1. Start.clock \in Clock(Stations) /\ Start.node \in Stations
    BY SharedAssumption DEF Start, ZeroClock, Clock, Stations
  <2> QED BY <2>1 DEF Start, Stamps
<1>2. Unwritten \in Stamps
  BY DEF Unwritten, Stamps, ZeroClock, Clock, Stations
<1> QED BY <1>1, <1>2 DEF NothingKnown, Shows

\* A station that starts again counts every write it made.
LEMMA ReopenedCounts ==
    ASSUME NumberInv, NEW s \in Stations
    PROVE  /\ Reopened(engine[s]) \in Engines(Written)
           /\ Reopened(engine[s]).log = engine[s].log
           /\ \A op \in Written : op.node = s => Number(op) <= Reopened(engine[s]).clock[s]
           /\ LeqClock(Start.clock, Reopened(engine[s]).clock)
<1> PICK e : e = engine[s]
  OBVIOUS
<1> DEFINE Numbers(n) == {Start.clock[n]} \cup {Number(op) : op \in {o \in e.log : o.node = n}}
<1>1. /\ e \in Engines(Written) /\ e.log \subseteq Written /\ Written \in SUBSET Ops
      /\ \A n \in Stations : Start.clock[n] \in Nat
  BY StartTypes DEF NumberInv, OnlyWritten, Engines, Stamps, Clock
<1>2. ASSUME NEW n \in Stations
      PROVE  /\ Max(Numbers(n)) \in Nat
             /\ \A i \in Numbers(n) : i <= Max(Numbers(n))
  <2>1. engine[n].clock[n] \in Nat
    BY DEF NumberInv, OnlyWritten, Engines, Clock
  <2> PICK top \in Nat : top = engine[n].clock[n] + Start.clock[n]
    BY <1>1, <2>1
  <2>2. \A op \in e.log : op.node = n => Number(op) \in Nat /\ Number(op) <= engine[n].clock[n]
    BY <1>1 DEF NumberInv, Numbered, Ops, Clock, Number
  <2>3. Numbers(n) \in SUBSET Nat /\ Numbers(n) # {} /\ \A i \in Numbers(n) : i <= top
    BY <1>1, <2>1, <2>2
  <2> HIDE DEF Numbers
  <2> QED BY <2>3, MaxBounds
<1> PICK x : x = Reopened(e)
  OBVIOUS
<1>3. /\ x = [clock |-> x.clock, log |-> x.log, known |-> x.known, show |-> x.show]
      /\ x.clock = [n \in Stations |-> Max(Numbers(n))] /\ x.log = e.log
      /\ x.known = NothingKnown
      /\ x.show = [p \in Paths |-> IF p \in Persisted THEN e.show[p] ELSE Start]
  BY DEF Reopened
<1>4. x.clock \in Clock(Stations)
  <2> HIDE DEF Numbers
  <2> QED BY <1>2, <1>3 DEF Clock
<1>5. x.show \in Shows /\ x.known \in Shows
  BY <1>1, <1>3, StartTypes DEF Engines, Shows
<1>6. x \in Engines(Written)
  BY <1>1, <1>3, <1>4, <1>5 DEF Engines
<1>7. ASSUME NEW op \in Written, op.node = s PROVE Number(op) <= x.clock[s]
  <2>1. op \in e.log
    BY <1>7 DEF NumberInv, Numbered
  <2>2. Number(op) \in Numbers(s)
    BY <1>7, <2>1
  <2> QED BY <1>2, <1>3, <2>2
<1>8. LeqClock(Start.clock, x.clock)
  <2>1. \A n \in Stations : Start.clock[n] <= Max(Numbers(n))
    BY <1>2
  <2>2. DOMAIN Start.clock = Stations
    BY StartTypes DEF Stamps, Clock
  <2> HIDE DEF Numbers
  <2> QED BY <1>3, <2>1, <2>2 DEF LeqClock
<1> QED BY <1>3, <1>6, <1>7, <1>8

-----------------------------------------------------------------------------
\* Init and the steps

LEMMA NumbersInit == Init => NumberInv
<1> SUFFICES ASSUME Init PROVE NumberInv
  OBVIOUS
<1>1. /\ engine = [s \in Stations |-> [clock |-> Start.clock, log |-> {}, known |-> NothingKnown,
                                       show |-> [p \in Paths |-> Start]]]
      /\ \A f \in {inbox, manager, outbox, wire} : f = [s \in Stations |-> <<>>]
      /\ how = [s \in Stations |-> "Wait"] /\ count = [links |-> 0, writes |-> 0, restarts |-> 0]
  BY Zenon DEF Init
<1>2. Written = {}
  BY <1>1 DEF Written
<1>3. engine \in [Stations -> Engines(Written)]
  <2>1. Start.clock \in Clock(Stations) /\ [p \in Paths |-> Start] \in Shows
    BY StartTypes DEF Stamps, Shows
  <2>2. \A s \in Stations : engine[s] \in Engines(Written)
    BY <1>1, <2>1, StartTypes DEF Engines
  <2> QED BY <1>1, <2>2
<1>4. OnlyWritten
  <2>1. \A A : [s \in Stations |-> <<>>] \in [Stations -> Seq(A)]
    OBVIOUS
  <2> QED BY <1>1, <1>2, <1>3, <2>1, FS_EmptySet DEF OnlyWritten
<1>5. Numbered
  BY <1>1, <1>2, FS_EmptySet DEF Numbered, Counts
<1> QED BY <1>1, <1>4, <1>5 DEF NumberInv, Chosen, Answers

\* The engines stay: only queues move.
LEMMA QueuesMove ==
    ASSUME NumberInv, engine' = engine, count' \in Counts, count'.writes = count.writes,
           how' \in [Stations -> Answers],
           inbox' \in [Stations -> Seq(Frames(Written))],
           wire' \in [Stations -> Seq(Frames(Written))],
           outbox' \in [Stations -> Seq(Writes(Written))],
           manager' \in [Stations -> Seq(Commands(Written))]
    PROVE  NumberInv'
BY EnginesStay, CarriesKeeps DEF Carries

LEMMA ManagerKeepsNumbers ==
    ASSUME NumberInv, NEW s \in Stations, Broadcast(s) \/ PeerLost(s) \/ Register(s)
    PROVE  NumberInv'
<1> USE DEF NumberInv, OnlyWritten, Numbered, Chosen
<1>1. /\ engine' = engine /\ count' = count /\ how' = how /\ inbox' = inbox
  BY DEF Broadcast, PeerLost, Register
<1>2. CASE Broadcast(s)
  <2>1. /\ manager[s] # <<>> /\ Head(manager[s]).type = "write" /\ wire' = wire
        /\ manager' = [manager EXCEPT ![s] = Tail(@)]
        /\ outbox' = outbox \/ outbox' = [outbox EXCEPT ![s] = Append(@, Head(manager[s]))]
    BY <1>2 DEF Broadcast
  <2>2. manager' \in [Stations -> Seq(Commands(Written))] /\ Head(manager[s]) \in Commands(Written)
    BY <2>1, QueueStep
  <2>3. Head(manager[s]) \in Writes(Written)
    BY <2>1, <2>2 DEF Commands
  <2>4. [outbox EXCEPT ![s] = Append(@, Head(manager[s]))] \in [Stations -> Seq(Writes(Written))]
    BY <2>3, QueueStep
  <2> QED BY <1>1, <2>1, <2>2, <2>4, QueuesMove
<1>3. CASE PeerLost(s)
  <2>1. manager[s] # <<>>
    BY <1>3 DEF PeerLost
  <2> PICK commands : commands = [manager EXCEPT ![s] = Tail(@)]
    OBVIOUS
  <2>2. commands \in [Stations -> Seq(Commands(Written))]
    BY <2>1, QueueStep
  <2>3. CASE Severed(commands, Stations)
    BY <1>1, <2>2, <2>3, SeveredKeeps, QueuesMove
  <2>4. CASE manager' = commands /\ UNCHANGED <<outbox, wire>>
    BY <1>1, <2>2, <2>4, QueuesMove
  <2> QED BY <1>3, <2>3, <2>4 DEF PeerLost
<1>4. CASE Register(s)
  BY <1>1, <1>4, QueuesMove DEF Register
<1> QED BY <1>2, <1>3, <1>4

LEMMA HandshakeKeepsNumbers ==
    ASSUME NumberInv, Handshake, Dial \/ Greet \/ Greeted
    PROVE  NumberInv'
<1> USE DEF NumberInv, OnlyWritten, Numbered, Chosen
<1>1. UNCHANGED <<engine, inbox, wire, outbox, manager>>
  BY DEF Dial, Greet, Greeted
<1>2. count' \in Counts /\ count'.writes = count.writes
  <2>1. count' = count \/ count' = [count EXCEPT !.links = @ + 1]
    BY DEF Dial, Greet, Greeted
  <2> QED BY <2>1 DEF Counts
<1>3. how' \in [Stations -> Answers]
  <2>1. \A s \in Stations : fresh[s] \in BOOLEAN /\ hello[s].fresh \in BOOLEAN
    BY DEF Handshake, Types
  <2>2. Leader \in Stations /\ Follower \in Stations
    BY DEF Stations
  <2>3. \A a, b, f : \A c, d \in BOOLEAN : CatchUp(a, b, c, d, f) \in Answers
    BY RuleAnswers
  <2>4. CASE Greet
    BY <2>1, <2>2, <2>3, <2>4 DEF Greet
  <2>5. CASE Greeted
    BY <2>1, <2>2, <2>3, <2>5 DEF Greeted
  <2>6. CASE Dial
    BY <2>6 DEF Dial
  <2> QED BY <2>4, <2>5, <2>6
<1> QED BY <1>1, <1>2, <1>3, QueuesMove

LEMMA CatchUpKeepsNumbers ==
    ASSUME NumberInv, NEW s \in Stations, Replay(s) \/ SendWhatIsRunning(s)
    PROVE  NumberInv'
<1> USE DEF NumberInv, OnlyWritten, Numbered, Chosen
<1>1. UNCHANGED <<engine, inbox, outbox, manager, how, count>>
  BY DEF Replay, SendWhatIsRunning
<1>2. CASE Replay(s)
  <2>1. PICK ops \in Oldest(OperationsSince(engine[s], hello[Other(s)].clock)) :
          wire' = Sent(s, Owed(s, ops))
    BY <1>2 DEF Replay
  <2>2. Owed(s, ops) \in Seq(Frames(Written))
    BY OwedIsWritten
  <2>3. wire' \in [Stations -> Seq(Frames(Written))]
    BY <2>1, <2>2, QueueStep DEF Sent
  <2> QED BY <1>1, <2>3, QueuesMove
<1>3. CASE SendWhatIsRunning(s)
  <2> PICK r : r = [type |-> "running", show |-> engine[s].show]
    OBVIOUS
  <2>1. wire' = [wire EXCEPT ![s] = @ \o <<r>>]
    BY <1>3 DEF SendWhatIsRunning, Sent
  <2>2. r \in Frames(Written)
    BY DEF Frames, Engines
  <2>3. <<r>> \in Seq(Frames(Written))
    BY <2>2
  <2>4. wire' \in [Stations -> Seq(Frames(Written))]
    BY <2>1, <2>3, QueueStep
  <2> QED BY <1>1, <2>4, QueuesMove
<1> QED BY <1>2, <1>3

LEMMA LinkKeepsNumbers ==
    ASSUME NumberInv, NEW s \in Stations, Send(s) \/ Read(s)
    PROVE  NumberInv'
<1> USE DEF NumberInv, OnlyWritten, Numbered, Chosen
<1>1. UNCHANGED <<engine, manager, how, count>>
  BY DEF Send, Read
<1>2. CASE Send(s)
  <2> PICK w : w = Head(outbox[s])
    OBVIOUS
  <2>1. /\ outbox[s] # <<>> /\ outbox' = [outbox EXCEPT ![s] = Tail(@)]
        /\ wire' = [wire EXCEPT ![s] = @ \o <<w>>] /\ inbox' = inbox
    BY <1>2 DEF Send, Sent
  <2>2. w \in Writes(Written) /\ outbox' \in [Stations -> Seq(Writes(Written))]
    BY <2>1, QueueStep
  <2>3. <<w>> \in Seq(Frames(Written))
    BY <2>2 DEF Frames
  <2>4. wire' \in [Stations -> Seq(Frames(Written))]
    BY <2>1, <2>3, QueueStep
  <2> QED BY <1>1, <2>1, <2>2, <2>4, QueuesMove
<1>3. CASE Read(s)
  <2>1. Other(s) \in Stations
    BY DEF Other, Stations
  <2> PICK f : f = Head(wire[Other(s)])
    OBVIOUS
  <2>2. /\ wire[Other(s)] # <<>> /\ wire' = [wire EXCEPT ![Other(s)] = Tail(@)]
        /\ inbox' = [inbox EXCEPT ![s] = Append(@, f)] /\ outbox' = outbox
    BY <1>3 DEF Read
  <2>3. f \in Frames(Written) /\ wire' \in [Stations -> Seq(Frames(Written))]
    BY <2>1, <2>2, QueueStep
  <2>4. inbox' \in [Stations -> Seq(Frames(Written))]
    BY <2>2, <2>3, QueueStep
  <2> QED BY <1>1, <2>2, <2>3, <2>4, QueuesMove
<1> QED BY <1>2, <1>3

\* What the engine takes in leaves it an engine that has lost nothing.
LEMMA EngineTakesFurther ==
    ASSUME NumberInv, NEW s \in Stations, NEW cmd \in Frames(Written), NEW x,
           x = CASE cmd.type = "write" -> ApplyPeerOperation(engine[s], s, cmd.op)
                 [] cmd.type = "batch" -> AppliedAll(engine[s], s, cmd.ops)
                 [] cmd.type = "snapshot" -> ApplySnapshot(engine[s], cmd.show)
                 [] cmd.type = "running" -> ApplyRunningState(engine[s], cmd.show)
                 [] cmd.type = "request" -> engine[s]
    PROVE  x \in Further(engine[s], Written)
<1> PICK e : e = engine[s]
  OBVIOUS
<1>1. e \in Engines(Written) /\ Written \in SUBSET Ops
  BY DEF NumberInv, OnlyWritten
<1>2. ASSUME NEW y \in Engines(Written), y.clock = e.clock, y.log = e.log
      PROVE  y \in Further(e, Written)
  <2>1. \A n \in Stations : e.clock[n] \in Nat
    BY <1>1 DEF Engines, Clock
  <2> QED BY <1>2, <2>1 DEF Further
<1>3. e \in Further(e, Written)
  BY <1>1, <1>2
<1>4. CASE cmd.type = "write"
  <2>1. cmd.op \in Written
    BY <1>4 DEF Frames, Writes
  <2> QED BY <1>1, <1>3, <1>4, <2>1, ApplyGoesFurther
<1>5. CASE cmd.type = "batch"
  <2>1. cmd.ops \in Seq(Written)
    BY <1>5 DEF Frames, Writes
  <2> PICK V : V = Further(e, Written)
    OBVIOUS
  <2>2. \A y \in V, op \in Written : ApplyPeerOperation(y, s, op) \in V
    BY <1>1, ApplyGoesFurther
  <2>3. AppliedAll(e, s, cmd.ops) \in V
    BY <1>3, <2>1, <2>2, BatchKeeps
  <2> QED BY <1>5, <2>3
<1>6. CASE cmd.type = "snapshot"
  <2>1. cmd.show \in Shows
    BY <1>6 DEF Frames, Writes
  <2> PICK y : y = ApplySnapshot(e, cmd.show)
    OBVIOUS
  <2>2. y \in Engines(Written) /\ y.clock = e.clock /\ y.log = e.log
    BY <1>1, <2>1, StartTypes DEF ApplySnapshot, Engines
  <2> QED BY <1>2, <1>6, <2>2
<1>7. CASE cmd.type = "running"
  <2>1. cmd.show \in Shows
    BY <1>7 DEF Frames, Writes
  <2> PICK y : y = ApplyRunningState(e, cmd.show)
    OBVIOUS
  <2>2. [p \in Paths |-> IF p \in Synced THEN cmd.show[p] ELSE e.show[p]] \in Shows
    BY <1>1, <2>1 DEF Engines, Shows
  <2>3. y \in Engines(Written) /\ y.clock = e.clock /\ y.log = e.log
    BY <1>1, <2>2, StartTypes DEF ApplyRunningState, Engines
  <2> QED BY <1>2, <1>7, <2>3
<1>8. CASE cmd.type = "request"
  BY <1>3, <1>8
<1>9. cmd.type \in {"write", "batch", "snapshot", "running", "request"}
  BY DEF Frames, Writes
<1> QED BY <1>4, <1>5, <1>6, <1>7, <1>8, <1>9

LEMMA EngineTakes ==
    ASSUME NumberInv, NEW s \in Stations, Engine(s)
    PROVE  /\ inbox[s] # <<>> /\ Head(inbox[s]) \in Frames(Written)
           /\ inbox' = [inbox EXCEPT ![s] = Tail(@)]
           /\ inbox' \in [Stations -> Seq(Frames(Written))]
           /\ \E x \in Further(engine[s], Written) : engine' = [engine EXCEPT ![s] = x]
<1> USE DEF NumberInv, OnlyWritten
<1> PICK cmd : cmd = Head(inbox[s])
  OBVIOUS
<1>1. inbox[s] # <<>> /\ inbox' = [inbox EXCEPT ![s] = Tail(@)]
  BY DEF Engine
<1>2. cmd \in Frames(Written) /\ inbox' \in [Stations -> Seq(Frames(Written))]
  BY <1>1, QueueStep
<1> PICK x : x = CASE cmd.type = "write" -> ApplyPeerOperation(engine[s], s, cmd.op)
                   [] cmd.type = "batch" -> AppliedAll(engine[s], s, cmd.ops)
                   [] cmd.type = "snapshot" -> ApplySnapshot(engine[s], cmd.show)
                   [] cmd.type = "running" -> ApplyRunningState(engine[s], cmd.show)
                   [] cmd.type = "request" -> engine[s]
  OBVIOUS
<1>3. engine' = [engine EXCEPT ![s] = x]
  BY Zenon DEF Engine, AppliedAll
<1>4. x \in Further(engine[s], Written)
  BY <1>2, EngineTakesFurther
<1> QED BY <1>1, <1>2, <1>3, <1>4

LEMMA EngineKeepsNumbers ==
    ASSUME NumberInv, NEW s \in Stations, Engine(s)
    PROVE  NumberInv'
<1> USE DEF NumberInv, OnlyWritten, Numbered, Chosen
<1>1. PICK x \in Further(engine[s], Written) : engine' = [engine EXCEPT ![s] = x]
  BY EngineTakes
<1>2. inbox' \in [Stations -> Seq(Frames(Written))]
  BY EngineTakes
<1>3. wire' \in [Stations -> Seq(Frames(Written))]
  <2>1. Snapshot(s) \in Frames(Written)
    BY DEF Frames, Snapshot, Engines
  <2>2. <<Snapshot(s)>> \in Seq(Frames(Written))
    BY <2>1
  <2>3. Sent(s, <<Snapshot(s)>>) \in [Stations -> Seq(Frames(Written))]
    BY <2>2, QueueStep DEF Sent
  <2> QED BY <2>3 DEF Engine
<1>4. UNCHANGED <<manager, outbox, how, count>>
  BY DEF Engine
<1>5. Carries
  BY <1>1, <1>2, <1>3, <1>4, EngineGoesFurther DEF Carries
<1> QED BY <1>5, CarriesKeeps

LEMMA RestartsCounted ==
    ASSUME NEW c \in Counts
    PROVE  /\ [c EXCEPT !.restarts = @ + 1] \in Counts
           /\ [c EXCEPT !.restarts = @ + 1].writes = c.writes
BY DEF Counts

LEMMA RestartKeepsNumbers ==
    ASSUME NumberInv, NEW s \in Stations, Restart(s)
    PROVE  NumberInv'
<1> USE DEF NumberInv, OnlyWritten, Numbered, Chosen
<1> PICK x : x = Reopened(engine[s])
  OBVIOUS
<1>1. /\ engine' = [engine EXCEPT ![s] = x] /\ how' = how
      /\ inbox' = [inbox EXCEPT ![s] = <<>>]
      /\ count' = [count EXCEPT !.restarts = @ + 1]
      /\ Severed(manager, Stations \ {s})
  BY DEF Restart
<1>2. /\ x \in Engines(Written) /\ x.log = engine[s].log
      /\ \A op \in Written : op.node = s => Number(op) <= x.clock[s]
  BY ReopenedCounts
<1>3. \A t \in Stations : engine'[t] = IF t = s THEN x ELSE engine[t]
  BY <1>1
<1>4. engine' \in [Stations -> Engines(Written)]
  BY <1>1, <1>2
<1>5. \A t \in Stations : engine[t].log \subseteq engine'[t].log
  BY <1>2, <1>3
<1>6. \A op \in Written : Number(op) <= engine'[op.node].clock[op.node]
  <2>1. \A op \in Written : op.node \in Stations
    BY DEF Ops
  <2> QED BY <1>2, <1>3, <2>1
<1>7. count' \in Counts /\ count'.writes = count.writes
  <2>1. count \in Counts /\ count' = [count EXCEPT !.restarts = @ + 1]
    BY <1>1
  <2> QED BY <2>1, RestartsCounted
<1>8. inbox' \in [Stations -> Seq(Frames(Written))]
  BY <1>1
<1>9. Carries
  BY <1>1, <1>4, <1>5, <1>6, <1>7, <1>8, SeveredKeeps DEF Carries
<1> QED BY <1>9, CarriesKeeps

LEMMA NumbersStep == NumberInv /\ Handshake /\ [Next]_vars => NumberInv'
<1> SUFFICES ASSUME NumberInv, Handshake, [Next]_vars PROVE NumberInv'
  OBVIOUS
<1>1. ASSUME NEW s \in Stations, NEW p \in Paths, Write(s, p) PROVE NumberInv'
  BY <1>1, WriteKeepsNumbers
<1>2. ASSUME NEW s \in Stations, Broadcast(s) \/ PeerLost(s) \/ Register(s) PROVE NumberInv'
  BY <1>2, ManagerKeepsNumbers
<1>3. CASE Dial \/ Greet \/ Greeted
  BY <1>3, HandshakeKeepsNumbers
<1>4. ASSUME NEW s \in Stations, Replay(s) \/ SendWhatIsRunning(s) PROVE NumberInv'
  BY <1>4, CatchUpKeepsNumbers
<1>5. ASSUME NEW s \in Stations, Send(s) \/ Read(s) PROVE NumberInv'
  BY <1>5, LinkKeepsNumbers
<1>6. ASSUME NEW s \in Stations, Engine(s) PROVE NumberInv'
  BY <1>6, EngineKeepsNumbers
<1>7. CASE Drop
  <2>1. Severed(manager, Stations) /\ UNCHANGED <<engine, inbox, how, count>>
    BY <1>7 DEF Drop
  <2> QED BY <2>1, SeveredKeeps, QueuesMove DEF NumberInv, OnlyWritten, Numbered, Chosen
<1>8. ASSUME NEW s \in Stations, Restart(s) PROVE NumberInv'
  BY <1>8, RestartKeepsNumbers
<1>9. ASSUME NEW s \in Stations, GrowsOld(s) PROVE NumberInv'
  <2>1. UNCHANGED <<engine, inbox, wire, outbox, manager, how, count>>
    BY <1>9 DEF GrowsOld
  <2> QED BY <2>1, QueuesMove DEF NumberInv, OnlyWritten, Numbered, Chosen
<1>10. CASE UNCHANGED vars
  <2>1. UNCHANGED <<engine, inbox, wire, outbox, manager, how, count>>
    BY <1>10 DEF vars
  <2> QED BY <2>1, QueuesMove DEF NumberInv, OnlyWritten, Numbered, Chosen
<1> QED BY <1>1, <1>2, <1>3, <1>4, <1>5, <1>6, <1>7, <1>8, <1>9, <1>10 DEF Next

(***************************************************************************)
(* However links break, stations restart and work is handed over again, no *)
(* number is given to two writes: a station's own writes stay in its log,  *)
(* and its clock, also the one it starts again with, counts them all       *)
(* (oplog::clock).                                                         *)
(***************************************************************************)
THEOREM NumbersAreUsedOnce == Spec => []NumbersUsedOnce
<1>1. Init => Handshake /\ NumberInv BY HandshakeInit, NumbersInit
<1>2. Handshake /\ NumberInv /\ [Next]_vars => Handshake' /\ NumberInv'
  BY HandshakeStep, NumbersStep
<1>3. NumberInv => NumbersUsedOnce
  BY DEF NumberInv, Numbered, NumberOf, NumbersUsedOnce
<1> QED BY <1>1, <1>2, <1>3, PTL DEF Spec

-----------------------------------------------------------------------------
(***************************************************************************)
(* A leader that does not restart.  The follower asks for its show and     *)
(* never sends one of its own, so all that reaches the leader's engine are *)
(* writes the follower made, and the leader's rows and its path clocks     *)
(* stay together.                                                          *)
(***************************************************************************)
LeaderStaysUp == \A p \in Plans : Leader \notin p.restarting

Theirs(W) == {op \in W : op.node = Follower}

ToLeader(W) ==
    Writes(Theirs(W)) \cup [type : {"batch"}, ops : Seq(Theirs(W))] \cup [type : {"request"}]

ToFollower(W) == {f \in Frames(W) : f.type # "request"}

Words ==
    /\ manager[Follower] \in Seq(Commands(Theirs(Written)))
    /\ outbox[Follower] \in Seq(Writes(Theirs(Written)))
    /\ wire[Follower] \in Seq(ToLeader(Written))
    /\ inbox[Leader] \in Seq(ToLeader(Written))
    /\ wire[Leader] \in Seq(ToFollower(Written))
    /\ inbox[Follower] \in Seq(ToFollower(Written))

\* Until its replay the follower has nothing of the leader's that the leader
\* had not counted when it said hello.
Meeting ==
    /\ Leader \notin plan.restarting
    /\ ~fresh[Leader] /\ ~hello[Leader].fresh /\ hello[Leader].clock[Leader] \in Nat
    /\ stage[Follower] # "replayed"
    /\ stage[Follower] \in {"hello", "greeted"} => inbox[Follower] = <<>>
    /\ stage[Follower] \in {"hello", "greeted"} /\ stage[Leader] # "down" =>
          \A op \in engine[Follower].log :
             op.node = Leader => Number(op) <= hello[Leader].clock[Leader]

\* A row is as it began or shows the write its path clock names, and the
\* engine has counted that write.
RowsKept(e) ==
    \A p \in Paths :
       /\ IF e.known[p] = Unwritten THEN e.show[p] = Start ELSE e.show[p] = e.known[p]
       /\ LeqClock(e.show[p].clock, e.clock)

SinceStart ==
    /\ \A s \in Stations : LeqClock(Start.clock, engine[s].clock)
    /\ \A op \in Written : LeqClock(Start.clock, op.clock)

LeadInv == Words /\ Meeting /\ RowsKept(engine[Leader]) /\ SinceStart

\* Where the follower's writes may take an engine of the leader's: no row goes
\* back to before what it was.
Onward(e, W) ==
    {x \in Further(e, W) :
        /\ RowsKept(x)
        /\ \A p \in Paths :
              \/ x.known[p] = e.known[p] /\ x.show[p] = e.show[p]
              \/ /\ x.known[p].node = Follower
                 /\ ~HappensBefore(x.show[p].clock, e.show[p].clock)}

LEMMA AcceptedIsNotBefore ==
    ASSUME NEW W \in SUBSET Ops, NEW op \in W, op.node = Follower,
           LeqClock(Start.clock, op.clock),
           NEW e \in Engines(W), RowsKept(e), NEW x \in Onward(e, W),
           Accepts(x.known[op.path], op)
    PROVE  ~HappensBefore(op.clock, e.show[op.path].clock)
<1> PICK p \in Paths : p = op.path
  BY DEF Ops
<1> PICK k : k = x.known[p]
  OBVIOUS
<1>1. /\ x \in Engines(W) /\ op.clock \in Clock(Stations) /\ e.show[p].clock \in Clock(Stations)
      /\ k \in Stamps /\ k.clock \in Clock(Stations) /\ x.show[p].clock \in Clock(Stations)
      /\ Start.clock \in Clock(Stations) /\ k.node \in Stations
  BY StartTypes DEF Onward, Further, Engines, Ops, Shows, Stamps
<1>2. /\ IF k = Unwritten THEN x.show[p] = Start ELSE x.show[p] = k
      /\ IF e.known[p] = Unwritten THEN e.show[p] = Start ELSE e.show[p] = e.known[p]
  BY DEF RowsKept, Onward
<1>3. \/ k = e.known[p] /\ x.show[p] = e.show[p]
      \/ k.node = Follower /\ ~HappensBefore(x.show[p].clock, e.show[p].clock)
  BY DEF Onward
<1>4. Unwritten.node # Follower /\ Leader \in Nat /\ Follower \in Nat
  BY IdsAssumption DEF Unwritten
<1>5. CASE k = Unwritten
  <2>1. e.show[p] = Start
    BY <1>2, <1>3, <1>4, <1>5
  <2>2. ~HappensBefore(op.clock, Start.clock)
    <3>1. \A n \in Stations : Start.clock[n] <= op.clock[n] /\ Start.clock[n] \in Nat /\ op.clock[n] \in Nat
      BY <1>1 DEF LeqClock, Clock
    <3> QED BY <1>1, <3>1 DEF HappensBefore, Clock
  <2> QED BY <2>1, <2>2
<1>6. CASE k # Unwritten /\ HappensBefore(k.clock, op.clock)
  <2>1. x.show[p] = k
    BY <1>2, <1>6
  <2>2. ~HappensBefore(op.clock, k.clock)
    BY <1>1, <1>6, HappensBeforeAsymmetric
  <2>3. CASE x.show[p] = e.show[p]
    BY <2>1, <2>2, <2>3
  <2>4. CASE ~HappensBefore(x.show[p].clock, e.show[p].clock)
    BY <1>1, <1>6, <2>1, <2>4, HappensBeforeTransitive
  <2> QED BY <1>3, <2>3, <2>4
<1>7. CASE k # Unwritten /\ Concurrent(k.clock, op.clock) /\ op.node > k.node
  <2>1. k.node # Follower
    BY <1>4, <1>7
  <2>2. e.show[p] = k
    BY <1>2, <1>3, <1>7, <2>1
  <2> QED BY <1>7, <2>2 DEF Concurrent
<1> QED BY <1>5, <1>6, <1>7 DEF Accepts

LEMMA OnwardStep ==
    ASSUME NEW W \in SUBSET Ops, NEW op \in W, op.node = Follower,
           LeqClock(Start.clock, op.clock),
           NEW e \in Engines(W), RowsKept(e), NEW x \in Onward(e, W)
    PROVE  ApplyPeerOperation(x, Leader, op) \in Onward(e, W)
<1> PICK p \in Paths : p = op.path
  BY DEF Ops
<1> PICK y : y = ApplyPeerOperation(x, Leader, op)
  OBVIOUS
<1> PICK merged : merged = Merge(x.clock, op.clock)
  OBVIOUS
<1>1. /\ x \in Further(e, W) /\ x \in Engines(W) /\ Leader \in Stations
      /\ x.clock \in Clock(Stations) /\ op.clock \in Clock(Stations)
      /\ \A q \in Paths : x.show[q].clock \in Clock(Stations)
  BY DEF Onward, Further, Engines, Ops, Shows, Stamps, Stations
<1>2. y \in Further(e, W) /\ y \in Engines(W) /\ y.clock \in Clock(Stations)
  <2>1. y \in Further(e, W)
    BY <1>1, ApplyGoesFurther
  <2> QED BY <2>1 DEF Further, Engines
<1>3. /\ merged \in Clock(Stations) /\ Increment(merged, Leader) \in Clock(Stations)
      /\ LeqClock(x.clock, merged) /\ LeqClock(op.clock, merged)
      /\ LeqClock(x.clock, Increment(merged, Leader))
      /\ LeqClock(op.clock, Increment(merged, Leader))
  <2>1. merged \in Clock(Stations) /\ LeqClock(x.clock, merged) /\ LeqClock(op.clock, merged)
    BY <1>1, MergeType, MergeIsLeastUpperBound
  <2> QED BY <1>1, <2>1, IncrementType, LeqIncrement
<1>4. /\ \A q \in Paths : /\ IF x.known[q] = Unwritten THEN x.show[q] = Start
                             ELSE x.show[q] = x.known[q]
                          /\ LeqClock(x.show[q].clock, x.clock)
      /\ \A q \in Paths : \/ x.known[q] = e.known[q] /\ x.show[q] = e.show[q]
                          \/ /\ x.known[q].node = Follower
                             /\ ~HappensBefore(x.show[q].clock, e.show[q].clock)
  BY DEF Onward, RowsKept
<1>5. CASE ~Accepts(x.known[op.path], op)
  <2>1. y = [x EXCEPT !.clock = merged]
    BY <1>5 DEF ApplyPeerOperation
  <2>2. y.known = x.known /\ y.show = x.show /\ y.clock = merged
    BY <1>1, <2>1 DEF Engines
  <2>3. \A q \in Paths : LeqClock(y.show[q].clock, y.clock)
    BY <1>1, <1>3, <1>4, <2>2, LeqTransitive
  <2> QED BY <1>2, <1>4, <2>2, <2>3 DEF Onward, RowsKept
<1>6. CASE Accepts(x.known[op.path], op)
  <2>1. y = Holding(x, op, Increment(merged, Leader))
    BY <1>6 DEF ApplyPeerOperation
  <2>2. /\ y.clock = Increment(merged, Leader)
        /\ y.known = [x.known EXCEPT ![p] = Stamp(op)]
        /\ y.show = [x.show EXCEPT ![p] = Stamp(op)]
    BY <2>1 DEF Holding
  <2>3. DOMAIN x.known = Paths /\ DOMAIN x.show = Paths
    BY <1>1 DEF Engines, Shows
  <2>4. \A q \in Paths : IF q = p THEN y.known[q] = Stamp(op) /\ y.show[q] = Stamp(op)
                         ELSE y.known[q] = x.known[q] /\ y.show[q] = x.show[q]
    BY <2>2, <2>3
  <2>5. Stamp(op).clock = op.clock /\ Stamp(op).node = Follower
    BY DEF Stamp
  <2>6. \A q \in Paths : LeqClock(y.show[q].clock, y.clock)
    BY <1>1, <1>3, <1>4, <2>2, <2>4, <2>5, LeqTransitive
  <2>7. Stamp(op) # Unwritten
    BY <2>5, IdsAssumption DEF Unwritten
  <2>8. RowsKept(y)
    BY <1>4, <2>4, <2>6, <2>7 DEF RowsKept
  <2>9. ~HappensBefore(op.clock, e.show[p].clock)
    BY <1>6, AcceptedIsNotBefore
  <2>10. \A q \in Paths : \/ y.known[q] = e.known[q] /\ y.show[q] = e.show[q]
                          \/ /\ y.known[q].node = Follower
                             /\ ~HappensBefore(y.show[q].clock, e.show[q].clock)
    BY <1>4, <2>4, <2>5, <2>9
  <2> QED BY <1>2, <2>8, <2>10 DEF Onward
<1> QED BY <1>5, <1>6

\* Steps that leave the engines, and the set of writes, as they were.
LEMMA EngineMovesBy ==
    ASSUME [Next]_vars
    PROVE  \/ engine' = engine
           \/ \E s \in Stations, p \in Paths : Write(s, p)
           \/ \E s \in Stations : Engine(s)
           \/ \E s \in Stations : Restart(s)
BY DEF Next, vars, Broadcast, PeerLost, Register, Dial, Greet, Greeted, Replay,
       SendWhatIsRunning, Send, Read, Drop, GrowsOld

LEMMA WrittenStays ==
    ASSUME NumberInv, [Next]_vars, \A s \in Stations, p \in Paths : ~Write(s, p)
    PROVE  Written' = Written
<1> USE DEF NumberInv, OnlyWritten
<1>1. CASE engine' = engine
  BY <1>1 DEF Written
<1>2. ASSUME \A s \in Stations : engine[s].log \subseteq engine'[s].log,
             \A s \in Stations : engine'[s].log \subseteq Written
      PROVE  Written' = Written
  BY <1>2 DEF Written
<1>3. \A s \in Stations : engine[s].log \subseteq Written
  BY DEF Written
<1>4. ASSUME NEW s \in Stations, Engine(s) PROVE Written' = Written
  <2>1. PICK x \in Further(engine[s], Written) : engine' = [engine EXCEPT ![s] = x]
    BY <1>4, EngineTakes
  <2>2. engine[s].log \subseteq x.log /\ x.log \subseteq Written
    BY DEF Further, Engines
  <2>3. \A t \in Stations : engine'[t] = IF t = s THEN x ELSE engine[t]
    BY <2>1
  <2> QED BY <1>2, <1>3, <2>2, <2>3
<1>5. ASSUME NEW s \in Stations, Restart(s) PROVE Written' = Written
  <2>1. \A t \in Stations : engine'[t].log = engine[t].log
    <3>1. engine' = [engine EXCEPT ![s] = Reopened(engine[s])]
      BY <1>5 DEF Restart
    <3>2. \A t \in Stations : engine'[t] = IF t = s THEN Reopened(engine[s]) ELSE engine[t]
      BY <3>1
    <3> QED BY <3>2, ReopenedCounts
  <2> QED BY <1>2, <1>3, <2>1
<1> QED BY <1>1, <1>4, <1>5, EngineMovesBy

LEMMA SinceStartStep ==
    ASSUME NumberInv, SinceStart, [Next]_vars
    PROVE  SinceStart'
<1> USE DEF NumberInv, OnlyWritten
<1> PICK z \in Clock(Stations) : z = Start.clock
  BY StartTypes DEF Stamps
<1>1. ASSUME NEW s \in Stations, NEW x \in Engines(Written'), LeqClock(z, x.clock),
             engine' = [engine EXCEPT ![s] = x], \A op \in Written' : LeqClock(z, op.clock)
      PROVE  SinceStart'
  <2>1. \A t \in Stations : engine'[t] = IF t = s THEN x ELSE engine[t]
    BY <1>1
  <2> QED BY <1>1, <2>1 DEF SinceStart
<1>2. ASSUME NEW s \in Stations, NEW p \in Paths, Write(s, p) PROVE SinceStart'
  <2> PICK now : now = Increment(engine[s].clock, s)
    OBVIOUS
  <2> PICK op : op = [path |-> p, node |-> s, clock |-> now]
    OBVIOUS
  <2> PICK x : x = Holding(engine[s], op, now)
    OBVIOUS
  <2>1. engine' = [engine EXCEPT ![s] = x] /\ x.clock = now /\ x.log = engine[s].log \cup {op}
    BY <1>2 DEF Write, Holding
  <2>2. LeqClock(z, now)
    BY LeqIncrement DEF SinceStart, Engines
  <2>3. \A t \in Stations : engine'[t] = IF t = s THEN x ELSE engine[t]
    BY <2>1
  <2>4. Written' \subseteq Written \cup {op}
    BY <2>1, <2>3 DEF Written
  <2> QED BY <2>1, <2>2, <2>3, <2>4 DEF SinceStart
<1>3. ASSUME \A s \in Stations, p \in Paths : ~Write(s, p) PROVE SinceStart'
  <2>1. Written' = Written
    BY <1>3, WrittenStays
  <2>2. CASE engine' = engine
    BY <2>1, <2>2 DEF SinceStart
  <2>3. ASSUME NEW s \in Stations, Engine(s) PROVE SinceStart'
    <3>1. PICK x \in Further(engine[s], Written) : engine' = [engine EXCEPT ![s] = x]
      BY <2>3, EngineTakes
    <3>2. x \in Engines(Written) /\ engine[s].clock \in Clock(Stations) /\ x.clock \in Clock(Stations)
      BY DEF Further, Engines
    <3>3. LeqClock(engine[s].clock, x.clock)
      BY <3>2 DEF Further, LeqClock, Clock
    <3>4. LeqClock(z, x.clock)
      BY <3>2, <3>3, LeqTransitive DEF SinceStart
    <3> QED BY <1>1, <2>1, <3>1, <3>2, <3>4 DEF SinceStart
  <2>4. ASSUME NEW s \in Stations, Restart(s) PROVE SinceStart'
    BY <1>1, <2>1, <2>4, ReopenedCounts DEF Restart, SinceStart
  <2> QED BY <1>3, <2>2, <2>3, <2>4, EngineMovesBy
<1> QED BY <1>2, <1>3

NotBack ==
    \A p \in Paths :
       ~HappensBefore(engine'[Leader].show[p].clock, engine[Leader].show[p].clock)

LEMMA StillIsNotBack ==
    ASSUME NumberInv, engine'[Leader] = engine[Leader]
    PROVE  NotBack
<1>1. \A p \in Paths : engine[Leader].show[p].clock \in Clock(Stations)
  BY DEF NumberInv, OnlyWritten, Engines, Shows, Stamps, Stations
<1> QED BY <1>1, HappensBeforeAsymmetric DEF NotBack

\* A leader's own write is after all it has counted.
LEMMA LeaderWrites ==
    ASSUME NumberInv, LeadInv, NEW p \in Paths, Write(Leader, p)
    PROVE  RowsKept(engine'[Leader]) /\ NotBack
<1> PICK e : e = engine[Leader]
  OBVIOUS
<1> PICK now : now = Increment(e.clock, Leader)
  OBVIOUS
<1> PICK op : op = [path |-> p, node |-> Leader, clock |-> now]
  OBVIOUS
<1> PICK x : x = Holding(e, op, now)
  OBVIOUS
<1>1. /\ Leader \in Stations /\ e \in Engines(Written) /\ e.clock \in Clock(Stations)
      /\ DOMAIN e.known = Paths /\ DOMAIN e.show = Paths
      /\ \A q \in Paths : e.show[q].clock \in Clock(Stations)
  BY DEF NumberInv, OnlyWritten, Engines, Shows, Stamps, Stations
<1>2. engine'[Leader] = x
  BY <1>1 DEF Write, NumberInv, OnlyWritten
<1>3. /\ x.clock = now /\ \A q \in Paths : x.known[q] = (IF q = p THEN Stamp(op) ELSE e.known[q])
                                         /\ x.show[q] = (IF q = p THEN Stamp(op) ELSE e.show[q])
  BY <1>1 DEF Holding
<1>4. Stamp(op).clock = now /\ now \in Clock(Stations)
  BY <1>1, IncrementType DEF Stamp
<1>5. /\ \A q \in Paths : IF e.known[q] = Unwritten THEN e.show[q] = Start
                          ELSE e.show[q] = e.known[q]
      /\ \A q \in Paths : LeqClock(e.show[q].clock, e.clock)
  BY DEF LeadInv, RowsKept
<1>6. \A q \in Paths : HappensBefore(e.show[q].clock, now)
  BY <1>1, <1>5, LeqThenIncrement
<1>7. now # ZeroClock(Stations)
  <2>1. e.clock[Leader] \in Nat /\ now[Leader] = e.clock[Leader] + 1
    BY <1>1 DEF Clock, Increment
  <2> QED BY <1>1, <2>1 DEF ZeroClock
<1>8. Stamp(op) # Unwritten
  BY <1>4, <1>7 DEF Unwritten
<1>9. \A q \in Paths : LeqClock(x.show[q].clock, now)
  <2>1. LeqClock(now, now)
    BY <1>4, LeqReflexive
  <2> QED BY <1>3, <1>4, <1>6, <2>1 DEF HappensBefore
<1>10. \A q \in Paths : ~HappensBefore(x.show[q].clock, e.show[q].clock)
  BY <1>1, <1>3, <1>4, <1>6, HappensBeforeAsymmetric
<1> QED BY <1>2, <1>3, <1>5, <1>8, <1>9, <1>10 DEF RowsKept, NotBack

\* What reaches the leader's engine takes it onward.
LEMMA LeaderTakes ==
    ASSUME NumberInv, LeadInv, Engine(Leader)
    PROVE  RowsKept(engine'[Leader]) /\ NotBack
<1> PICK e : e = engine[Leader]
  OBVIOUS
<1> PICK W : W = Written
  OBVIOUS
<1> PICK cmd : cmd = Head(inbox[Leader])
  OBVIOUS
<1> PICK V : V = Onward(e, W)
  OBVIOUS
<1>1. /\ Leader \in Stations /\ e \in Engines(W) /\ W \in SUBSET Ops /\ RowsKept(e)
      /\ \A q \in Paths : e.show[q].clock \in Clock(Stations)
      /\ \A op \in W : LeqClock(Start.clock, op.clock)
  BY DEF NumberInv, OnlyWritten, Engines, Shows, Stamps, Stations, LeadInv, SinceStart
<1>2. cmd \in ToLeader(W)
  <2>1. inbox[Leader] # <<>> /\ inbox[Leader] \in Seq(ToLeader(W))
    BY DEF Engine, LeadInv, Words
  <2> QED BY <2>1, HeadTailProperties
<1>3. e \in V
  <2>1. \A n \in Stations : e.clock[n] \in Nat
    BY <1>1 DEF Engines, Clock
  <2>2. e \in Further(e, W)
    BY <1>1, <2>1 DEF Further
  <2> QED BY <1>1, <2>2 DEF Onward
<1>4. \A x \in V, op \in Theirs(W) : ApplyPeerOperation(x, Leader, op) \in V
  BY <1>1, OnwardStep DEF Theirs
<1> PICK x : x = CASE cmd.type = "write" -> ApplyPeerOperation(e, Leader, cmd.op)
                   [] cmd.type = "batch" -> AppliedAll(e, Leader, cmd.ops)
                   [] cmd.type = "snapshot" -> ApplySnapshot(e, cmd.show)
                   [] cmd.type = "running" -> ApplyRunningState(e, cmd.show)
                   [] cmd.type = "request" -> e
  OBVIOUS
<1>5. engine' = [engine EXCEPT ![Leader] = x]
  BY Zenon DEF Engine, AppliedAll
<1>6. engine'[Leader] = x
  BY <1>1, <1>5 DEF NumberInv, OnlyWritten
<1>7. x \in V
  <2>1. CASE cmd.type = "write"
    <3>1. cmd.op \in Theirs(W)
      BY <1>2, <2>1 DEF ToLeader, Writes
    <3> QED BY <1>3, <1>4, <2>1, <3>1
  <2>2. CASE cmd.type = "batch"
    <3>1. cmd.ops \in Seq(Theirs(W))
      BY <1>2, <2>2 DEF ToLeader, Writes
    <3>2. AppliedAll(e, Leader, cmd.ops) \in V
      BY <1>3, <1>4, <3>1, BatchKeeps
    <3> QED BY <2>2, <3>2
  <2>3. CASE cmd.type = "request"
    BY <1>3, <2>3
  <2>4. cmd.type \in {"write", "batch", "request"}
    BY <1>2 DEF ToLeader, Writes
  <2> QED BY <2>1, <2>2, <2>3, <2>4
<1>8. x \in Onward(e, W)
  BY <1>7
<1>9. \A q \in Paths : ~HappensBefore(x.show[q].clock, e.show[q].clock)
  <2> SUFFICES ASSUME NEW q \in Paths
               PROVE  ~HappensBefore(x.show[q].clock, e.show[q].clock)
    OBVIOUS
  <2>1. ~HappensBefore(e.show[q].clock, e.show[q].clock)
    BY <1>1, HappensBeforeAsymmetric
  <2> QED BY <1>8, <2>1 DEF Onward
<1>10. RowsKept(x)
  BY <1>8 DEF Onward
<1> QED BY <1>6, <1>9, <1>10 DEF NotBack

LEMMA LeaderGoesOn ==
    ASSUME NumberInv, LeadInv, [Next]_vars
    PROVE  RowsKept(engine'[Leader]) /\ NotBack
<1> USE DEF NumberInv, OnlyWritten
<1>1. CASE engine'[Leader] = engine[Leader]
  BY <1>1, StillIsNotBack DEF LeadInv, RowsKept
<1>2. ASSUME NEW s \in Stations, NEW p \in Paths, Write(s, p)
      PROVE  s = Leader \/ engine'[Leader] = engine[Leader]
  <2>1. Leader \in DOMAIN engine
    BY DEF Stations
  <2> QED BY <1>2, <2>1 DEF Write
<1>3. ASSUME NEW s \in Stations, Engine(s)
      PROVE  s = Leader \/ engine'[Leader] = engine[Leader]
  <2>1. PICK x \in Further(engine[s], Written) : engine' = [engine EXCEPT ![s] = x]
    BY <1>3, EngineTakes
  <2>2. Leader \in DOMAIN engine
    BY DEF Stations
  <2> QED BY <2>1, <2>2
<1>4. ASSUME NEW s \in Stations, Restart(s)
      PROVE  engine'[Leader] = engine[Leader]
  <2>1. s # Leader /\ engine' = [engine EXCEPT ![s] = Reopened(engine[s])]
    BY <1>4 DEF Restart, LeadInv, Meeting
  <2>2. Leader \in DOMAIN engine
    BY DEF Stations
  <2> QED BY <2>1, <2>2
<1>5. Leader \in Stations
  BY DEF Stations
<1> QED BY <1>1, <1>2, <1>3, <1>4, <1>5, EngineMovesBy, LeaderWrites, LeaderTakes

\* One queue.
LEMMA OneQueue ==
    ASSUME NEW A, NEW q \in Seq(A)
    PROVE  /\ q # <<>> => Head(q) \in A /\ Tail(q) \in Seq(A)
           /\ \A x \in A : Append(q, x) \in Seq(A) /\ q \o <<x>> \in Seq(A)
           /\ \A r \in Seq(A) : q \o r \in Seq(A)
<1>1. q # <<>> => Head(q) \in A /\ Tail(q) \in Seq(A)
  BY HeadTailProperties
<1>2. \A r \in Seq(A) : q \o r \in Seq(A)
  BY ConcatProperties
<1>3. \A x \in A : Append(q, x) \in Seq(A) /\ <<x>> \in Seq(A)
  BY AppendProperties
<1> QED BY <1>1, <1>2, <1>3

LEMMA QueueDomains ==
    NumberInv => \A f \in {manager, outbox, wire, inbox} : DOMAIN f = Stations
BY DEF NumberInv, OnlyWritten

\* The set of writes stays and the queues between the two stay of their kinds.
LEMMA WordsStay ==
    ASSUME Written' = Written,
           manager'[Follower] \in Seq(Commands(Theirs(Written))),
           outbox'[Follower] \in Seq(Writes(Theirs(Written))),
           wire'[Follower] \in Seq(ToLeader(Written)),
           inbox'[Leader] \in Seq(ToLeader(Written)),
           wire'[Leader] \in Seq(ToFollower(Written)),
           inbox'[Follower] \in Seq(ToFollower(Written))
    PROVE  Words'
BY DEF Words

LEMMA WordsAfterWrite ==
    ASSUME NumberInv, Words, NEW s \in Stations, NEW p \in Paths, Write(s, p)
    PROVE  Words'
<1> USE DEF NumberInv, OnlyWritten
<1> PICK now : now = Increment(engine[s].clock, s)
  OBVIOUS
<1> PICK op : op = [path |-> p, node |-> s, clock |-> now]
  OBVIOUS
<1> PICK x : x = Holding(engine[s], op, now)
  OBVIOUS
<1> PICK W : W = Written'
  OBVIOUS
<1>1. /\ engine' = [engine EXCEPT ![s] = x] /\ x.log = engine[s].log \cup {op}
      /\ manager' = [manager EXCEPT ![s] = Append(@, [type |-> "write", op |-> op])]
      /\ UNCHANGED <<inbox, outbox, wire>>
  BY DEF Write, Holding
<1>2. Written \subseteq W /\ op \in W
  <2>1. \A t \in Stations : engine'[t] = IF t = s THEN x ELSE engine[t]
    BY <1>1
  <2> QED BY <1>1, <2>1 DEF Written
<1>3. \A A, B : A \subseteq B => Seq(A) \subseteq Seq(B)
  BY SeqMonotonic
<1>4. Theirs(Written) \subseteq Theirs(W) /\ Frames(Written) \subseteq Frames(W)
  BY <1>2, <1>3 DEF Theirs, Frames, Writes
<1>5. /\ Commands(Theirs(Written)) \subseteq Commands(Theirs(W))
      /\ Writes(Theirs(Written)) \subseteq Writes(Theirs(W))
      /\ ToLeader(Written) \subseteq ToLeader(W) /\ ToFollower(Written) \subseteq ToFollower(W)
  BY <1>3, <1>4 DEF Commands, Writes, ToLeader, ToFollower
<1>6. manager[Follower] \in Seq(Commands(Theirs(W)))
  BY <1>3, <1>5 DEF Words
<1>7. manager'[Follower] \in Seq(Commands(Theirs(W)))
  <2>1. CASE s = Follower
    <3>1. [type |-> "write", op |-> op] \in Commands(Theirs(W))
      BY <1>2, <2>1 DEF Commands, Writes, Theirs
    <3>2. manager'[Follower] = Append(manager[Follower], [type |-> "write", op |-> op])
      BY <1>1, <2>1
    <3> QED BY <1>6, <3>1, <3>2, OneQueue
  <2>2. CASE s # Follower
    <3>1. manager'[Follower] = manager[Follower]
      BY <1>1, <2>2
    <3> QED BY <1>6, <3>1
  <2> QED BY <2>1, <2>2
<1>8. /\ outbox[Follower] \in Seq(Writes(Theirs(W))) /\ wire[Follower] \in Seq(ToLeader(W))
      /\ inbox[Leader] \in Seq(ToLeader(W)) /\ wire[Leader] \in Seq(ToFollower(W))
      /\ inbox[Follower] \in Seq(ToFollower(W))
  BY <1>3, <1>5 DEF Words
<1> QED BY <1>1, <1>7, <1>8 DEF Words

\* What the follower owes a leader that is not fresh: its own writes, and to
\* ask.
LEMMA FollowerOwes ==
    ASSUME NumberInv, Handshake, Meeting, stage[Follower] = "greeted",
           NEW ops \in Oldest(OperationsSince(engine[Follower], hello[Leader].clock))
    PROVE  Owed(Follower, ops) \in Seq(ToLeader(Written))
<1> PICK missing : missing = OperationsSince(engine[Follower], hello[Leader].clock)
  OBVIOUS
<1> PICK W : W = Written
  OBVIOUS
<1>1. /\ Follower \in Stations /\ Leader \in Stations /\ Leader # Follower
      /\ engine[Follower] \in Engines(W) /\ IsFiniteSet(W) /\ W \in SUBSET Ops
  BY IdsAssumption DEF NumberInv, OnlyWritten, Stations
<1>2. missing \subseteq Theirs(W)
  <2> SUFFICES ASSUME NEW op \in missing PROVE op \in W /\ op.node = Follower
    BY DEF Theirs
  <2>1. op \in engine[Follower].log /\ hello[Leader].clock[op.node] < Number(op)
    BY DEF OperationsSince
  <2>2. op \in W /\ op \in Ops /\ Number(op) \in Nat /\ op.node \in Stations
    BY <1>1, <2>1 DEF Engines, Ops, Clock, Number
  <2>3. stage[Leader] # "down"
    BY DEF Handshake, FollowerChose
  <2>4. op.node = Leader => Number(op) <= hello[Leader].clock[Leader]
    BY <2>1, <2>3 DEF Meeting
  <2>5. hello[Leader].clock[Leader] \in Nat
    BY DEF Meeting
  <2> QED BY <1>1, <2>1, <2>2, <2>4, <2>5 DEF Stations
<1>3. ops \in Seq(Theirs(W))
  <2>1. IsFiniteSet(missing)
    BY <1>1, <1>2, FS_Subset DEF Theirs
  <2>2. Cardinality(missing) \in Nat /\ ops \in [1..Cardinality(missing) -> missing]
    BY <2>1, FS_CardinalityType DEF Oldest, SetToSeqs
  <2> QED BY <1>2, <2>2, SeqDef
<1>4. how[Follower] \in {"Replay", "ReplayThenRequest"}
  <2>1. PICK lost \in BOOLEAN :
          how[Follower] = CatchUp(FALSE, TRUE, hello[Follower].fresh, hello[Leader].fresh, lost)
    BY DEF Handshake, FollowerChose
  <2>2. hello[Follower].fresh \in BOOLEAN /\ hello[Leader].fresh = FALSE
    BY <1>1 DEF Handshake, Types, Meeting
  <2> QED BY <2>1, <2>2 DEF CatchUp
<1> DEFINE batch == [type |-> "batch", ops |-> ops]
           request == [type |-> "request"]
<1>5. batch \in ToLeader(W) /\ request \in ToLeader(W)
  BY <1>3 DEF ToLeader
<1>6. /\ <<>> \in Seq(ToLeader(W)) /\ <<batch>> \in Seq(ToLeader(W))
      /\ <<request>> \in Seq(ToLeader(W)) /\ <<>> \o <<request>> \in Seq(ToLeader(W))
      /\ <<batch>> \o <<request>> \in Seq(ToLeader(W))
  <2> HIDE DEF batch, request
  <2>1. /\ <<>> \in Seq(ToLeader(W)) /\ <<batch>> \in Seq(ToLeader(W))
        /\ <<request>> \in Seq(ToLeader(W))
    BY <1>5
  <2> QED BY <2>1, ConcatProperties
<1> DEFINE replayed == IF CheaperAsShow(engine[Follower], hello[Other(Follower)].clock) THEN <<>>
                       ELSE <<batch>>
<1>7. CASE how[Follower] = "Replay"
  <2>1. Owed(Follower, ops) = replayed
    BY <1>1, <1>7 DEF Owed
  <2> QED BY <1>6, <2>1
<1>8. CASE how[Follower] = "ReplayThenRequest"
  <2>1. Owed(Follower, ops) = replayed \o <<request>>
    BY <1>1, <1>8 DEF Owed
  <2> QED BY <1>6, <2>1
<1> QED BY <1>4, <1>7, <1>8

\* What a leader that is not fresh owes: its show, or nothing.
LEMMA LeaderOwes ==
    ASSUME NumberInv, Handshake, Meeting, stage[Leader] = "greeted", NEW ops
    PROVE  /\ Owed(Leader, ops) \in Seq(ToFollower(Written))
           /\ how[Leader] # "ReplayThenRunning"
<1>1. Leader \in Stations /\ Follower \in Stations
  BY DEF Stations
<1>2. how[Leader] \in {"SendSnapshot", "Wait"}
  <2>1. how[Leader] = CatchUp(TRUE, FALSE, hello[Leader].fresh, hello[Follower].fresh, FALSE)
    BY DEF Handshake, LeaderChose
  <2>2. hello[Follower].fresh \in BOOLEAN /\ hello[Leader].fresh = FALSE
    BY <1>1 DEF Handshake, Types, Meeting
  <2> QED BY <2>1, <2>2 DEF CatchUp
<1>3. Snapshot(Leader) \in ToFollower(Written)
  BY <1>1 DEF Snapshot, ToFollower, Frames, NumberInv, OnlyWritten, Engines
<1>4. <<Snapshot(Leader)>> \in Seq(ToFollower(Written)) /\ <<>> \in Seq(ToFollower(Written))
  BY <1>3
<1>5. Owed(Leader, ops) = IF how[Leader] = "Wait" THEN <<>> ELSE <<Snapshot(Leader)>>
  BY <1>2 DEF Owed
<1> QED BY <1>2, <1>4, <1>5

\* A link cut: what is left is what the managers have still to do.
LEMMA WordsSevered ==
    ASSUME NEW commands, commands[Follower] \in Seq(Commands(Theirs(Written))),
           NEW alive, Severed(commands, alive)
    PROVE  /\ manager'[Follower] \in Seq(Commands(Theirs(Written)))
           /\ outbox'[Follower] \in Seq(Writes(Theirs(Written)))
           /\ wire'[Follower] \in Seq(ToLeader(Written))
           /\ wire'[Leader] \in Seq(ToFollower(Written))
<1>1. Leader \in Stations /\ Follower \in Stations
  BY DEF Stations
<1>2. outbox'[Follower] = <<>> /\ wire'[Follower] = <<>> /\ wire'[Leader] = <<>>
  BY <1>1 DEF Severed
<1>3. manager'[Follower] \in Seq(Commands(Theirs(Written)))
  <2>1. manager'[Follower] = IF Follower \notin alive THEN <<>>
             ELSE IF stage[Follower] = "up" THEN Append(commands[Follower], [type |-> "lost"])
             ELSE commands[Follower]
    BY <1>1 DEF Severed
  <2>2. [type |-> "lost"] \in Commands(Theirs(Written))
    BY DEF Commands
  <2>3. Append(commands[Follower], [type |-> "lost"]) \in Seq(Commands(Theirs(Written)))
    BY <2>2, OneQueue
  <2> QED BY <2>1, <2>3, EmptySeq
<1> QED BY <1>2, <1>3, EmptySeq

LEMMA WordsAfterManager ==
    ASSUME NumberInv, Words, Written' = Written, NEW s \in Stations,
           Broadcast(s) \/ PeerLost(s) \/ Register(s)
    PROVE  Words'
<1> PICK C : C = Commands(Theirs(Written))
  OBVIOUS
<1> PICK B : B = Writes(Theirs(Written))
  OBVIOUS
<1>1. /\ \A f \in {manager, outbox, wire, inbox} : DOMAIN f = Stations
      /\ Follower \in Stations /\ inbox' = inbox
  BY QueueDomains DEF Broadcast, PeerLost, Register, Stations
<1>2. /\ manager[Follower] \in Seq(C) /\ outbox[Follower] \in Seq(B)
      /\ wire[Follower] \in Seq(ToLeader(Written)) /\ inbox[Leader] \in Seq(ToLeader(Written))
      /\ wire[Leader] \in Seq(ToFollower(Written)) /\ inbox[Follower] \in Seq(ToFollower(Written))
  BY DEF Words
<1> PICK commands : commands = [manager EXCEPT ![s] = Tail(@)]
  OBVIOUS
<1>3. ASSUME manager[s] # <<>>
      PROVE  /\ commands[Follower] \in Seq(C)
             /\ s = Follower => Head(manager[Follower]) \in C
  <2>1. CASE s = Follower
    <3>1. commands[Follower] = Tail(manager[Follower])
      BY <1>1, <2>1
    <3> QED BY <1>2, <1>3, <2>1, <3>1, OneQueue
  <2>2. CASE s # Follower
    <3>1. commands[Follower] = manager[Follower]
      BY <1>1, <2>2
    <3> QED BY <1>2, <2>2, <3>1
  <2> QED BY <2>1, <2>2
<1>4. CASE Broadcast(s)
  <2>1. /\ manager[s] # <<>> /\ Head(manager[s]).type = "write" /\ wire' = wire
        /\ manager' = commands
        /\ outbox' = outbox \/ outbox' = [outbox EXCEPT ![s] = Append(@, Head(manager[s]))]
    BY <1>4 DEF Broadcast
  <2>2. s = Follower => Head(manager[Follower]) \in B
    BY <1>3, <2>1 DEF Commands
  <2>3. outbox'[Follower] \in Seq(B)
    <3>1. CASE outbox'[Follower] = outbox[Follower]
      BY <1>2, <3>1
    <3>2. CASE s = Follower /\ outbox' = [outbox EXCEPT ![s] = Append(@, Head(manager[s]))]
      <4>1. outbox'[Follower] = Append(outbox[Follower], Head(manager[Follower]))
        BY <1>1, <3>2
      <4> QED BY <1>2, <2>2, <3>2, <4>1, OneQueue
    <3> QED BY <1>1, <2>1, <3>1, <3>2
  <2> QED BY <1>1, <1>2, <1>3, <2>1, <2>3, WordsStay
<1>5. CASE PeerLost(s)
  <2>1. manager[s] # <<>>
    BY <1>5 DEF PeerLost
  <2>2. CASE Severed(commands, Stations)
    BY <1>1, <1>2, <1>3, <2>1, <2>2, WordsSevered, WordsStay
  <2>3. CASE manager' = commands /\ UNCHANGED <<outbox, wire>>
    BY <1>1, <1>2, <1>3, <2>1, <2>3, WordsStay
  <2> QED BY <1>5, <2>2, <2>3 DEF PeerLost
<1>6. CASE Register(s)
  BY <1>1, <1>2, <1>6, WordsStay DEF Register
<1> QED BY <1>4, <1>5, <1>6

LEMMA WordsAfterSending ==
    ASSUME NumberInv, Handshake, Words, Meeting, Written' = Written, NEW s \in Stations,
           Replay(s) \/ SendWhatIsRunning(s) \/ Send(s)
    PROVE  Words'
<1>1. /\ \A f \in {manager, outbox, wire, inbox} : DOMAIN f = Stations
      /\ Leader \in Stations /\ Follower \in Stations /\ Leader # Follower
      /\ inbox' = inbox /\ manager' = manager
  BY IdsAssumption, QueueDomains DEF Replay, SendWhatIsRunning, Send, Stations
<1>2. /\ manager[Follower] \in Seq(Commands(Theirs(Written)))
      /\ outbox[Follower] \in Seq(Writes(Theirs(Written)))
      /\ wire[Follower] \in Seq(ToLeader(Written)) /\ inbox[Leader] \in Seq(ToLeader(Written))
      /\ wire[Leader] \in Seq(ToFollower(Written)) /\ inbox[Follower] \in Seq(ToFollower(Written))
  BY DEF Words
<1>3. ASSUME NEW msgs \in Seq(ToLeader(Written)), s = Follower, wire' = Sent(s, msgs),
             outbox'[Follower] \in Seq(Writes(Theirs(Written)))
      PROVE  Words'
  <2>1. wire'[Follower] = wire[Follower] \o msgs /\ wire'[Leader] = wire[Leader]
    BY <1>1, <1>3 DEF Sent
  <2>2. wire'[Follower] \in Seq(ToLeader(Written))
    BY <1>2, <2>1, ConcatProperties
  <2> QED BY <1>1, <1>2, <1>3, <2>1, <2>2, WordsStay
<1>4. ASSUME NEW msgs \in Seq(ToFollower(Written)), s = Leader, wire' = Sent(s, msgs),
             outbox'[Follower] = outbox[Follower]
      PROVE  Words'
  <2>1. wire'[Leader] = wire[Leader] \o msgs /\ wire'[Follower] = wire[Follower]
    BY <1>1, <1>4 DEF Sent
  <2>2. wire'[Leader] \in Seq(ToFollower(Written))
    BY <1>2, <2>1, ConcatProperties
  <2> QED BY <1>1, <1>2, <1>4, <2>1, <2>2, WordsStay
<1>5. CASE Replay(s) /\ s = Follower
  <2>1. PICK ops \in Oldest(OperationsSince(engine[Follower], hello[Leader].clock)) :
          wire' = Sent(s, Owed(Follower, ops))
    BY <1>1, <1>5 DEF Replay, Other
  <2>2. stage[Follower] = "greeted" /\ outbox' = outbox
    BY <1>5 DEF Replay
  <2> QED BY <1>2, <1>3, <1>5, <2>1, <2>2, FollowerOwes
<1>6. CASE Replay(s) /\ s = Leader
  <2>1. PICK ops : wire' = Sent(s, Owed(Leader, ops))
    BY <1>6 DEF Replay
  <2>2. stage[Leader] = "greeted" /\ outbox' = outbox
    BY <1>6 DEF Replay
  <2> QED BY <1>4, <1>6, <2>1, <2>2, LeaderOwes
<1>7. CASE SendWhatIsRunning(s)
  <2> PICK r : r = [type |-> "running", show |-> engine[Leader].show]
    OBVIOUS
  <2>1. s = Leader /\ outbox' = outbox
    BY <1>1, <1>7 DEF SendWhatIsRunning, Meeting, Stations
  <2>2. wire' = Sent(s, <<r>>)
    BY <1>7, <2>1 DEF SendWhatIsRunning
  <2>3. r \in ToFollower(Written)
    BY <1>1 DEF ToFollower, Frames, NumberInv, OnlyWritten, Engines
  <2>4. <<r>> \in Seq(ToFollower(Written))
    BY <2>3
  <2> QED BY <1>4, <2>1, <2>2, <2>4
<1>8. CASE Send(s)
  <2> PICK w : w = Head(outbox[s])
    OBVIOUS
  <2>1. outbox[s] # <<>> /\ wire' = Sent(s, <<w>>) /\ outbox' = [outbox EXCEPT ![s] = Tail(@)]
    BY <1>8 DEF Send
  <2>2. CASE s = Follower
    <3>1. w \in Writes(Theirs(Written)) /\ Tail(outbox[Follower]) \in Seq(Writes(Theirs(Written)))
      BY <1>2, <2>1, <2>2, OneQueue
    <3>2. <<w>> \in Seq(ToLeader(Written))
      BY <3>1 DEF ToLeader
    <3>3. outbox'[Follower] = Tail(outbox[Follower])
      BY <1>1, <2>1, <2>2
    <3> QED BY <1>3, <2>1, <2>2, <3>1, <3>2, <3>3
  <2>3. CASE s = Leader
    <3>1. outbox[Leader] \in Seq(Writes(Written))
      BY <1>1 DEF NumberInv, OnlyWritten
    <3>2. w \in Writes(Written)
      BY <2>1, <2>3, <3>1, OneQueue
    <3>3. <<w>> \in Seq(ToFollower(Written))
      BY <3>2 DEF ToFollower, Frames, Writes
    <3>4. outbox'[Follower] = outbox[Follower]
      BY <1>1, <2>1, <2>3
    <3> QED BY <1>4, <2>1, <2>3, <3>3, <3>4
  <2> QED BY <2>2, <2>3 DEF Stations
<1> QED BY <1>5, <1>6, <1>7, <1>8 DEF Stations

LEMMA WordsAfterReading ==
    ASSUME NumberInv, Words, Written' = Written, NEW s \in Stations, Read(s) \/ Engine(s)
    PROVE  Words'
<1>1. /\ \A f \in {manager, outbox, wire, inbox} : DOMAIN f = Stations
      /\ Leader \in Stations /\ Follower \in Stations /\ Leader # Follower
      /\ outbox' = outbox /\ manager' = manager
  BY IdsAssumption, QueueDomains DEF Read, Engine, Stations
<1>2. /\ manager[Follower] \in Seq(Commands(Theirs(Written)))
      /\ outbox[Follower] \in Seq(Writes(Theirs(Written)))
      /\ wire[Follower] \in Seq(ToLeader(Written)) /\ inbox[Leader] \in Seq(ToLeader(Written))
      /\ wire[Leader] \in Seq(ToFollower(Written)) /\ inbox[Follower] \in Seq(ToFollower(Written))
  BY DEF Words
<1>3. CASE Read(s)
  <2> PICK f : f = Head(wire[Other(s)])
    OBVIOUS
  <2>1. /\ wire[Other(s)] # <<>> /\ wire' = [wire EXCEPT ![Other(s)] = Tail(@)]
        /\ inbox' = [inbox EXCEPT ![s] = Append(@, f)]
    BY <1>3 DEF Read
  <2>2. CASE s = Leader
    <3>1. wire[Follower] # <<>> /\ f = Head(wire[Follower])
      BY <1>1, <2>1, <2>2 DEF Other
    <3>2. /\ wire'[Follower] = Tail(wire[Follower]) /\ wire'[Leader] = wire[Leader]
          /\ inbox'[Leader] = Append(inbox[Leader], f) /\ inbox'[Follower] = inbox[Follower]
      BY <1>1, <2>1, <2>2 DEF Other
    <3>3. f \in ToLeader(Written) /\ wire'[Follower] \in Seq(ToLeader(Written))
      BY <1>2, <3>1, <3>2, OneQueue
    <3>4. inbox'[Leader] \in Seq(ToLeader(Written))
      BY <1>2, <3>2, <3>3, OneQueue
    <3> QED BY <1>1, <1>2, <3>2, <3>3, <3>4, WordsStay
  <2>3. CASE s = Follower
    <3>1. wire[Leader] # <<>> /\ f = Head(wire[Leader])
      BY <1>1, <2>1, <2>3 DEF Other
    <3>2. /\ wire'[Leader] = Tail(wire[Leader]) /\ wire'[Follower] = wire[Follower]
          /\ inbox'[Follower] = Append(inbox[Follower], f) /\ inbox'[Leader] = inbox[Leader]
      BY <1>1, <2>1, <2>3 DEF Other
    <3>3. f \in ToFollower(Written) /\ wire'[Leader] \in Seq(ToFollower(Written))
      BY <1>2, <3>1, <3>2, OneQueue
    <3>4. inbox'[Follower] \in Seq(ToFollower(Written))
      BY <1>2, <3>2, <3>3, OneQueue
    <3> QED BY <1>1, <1>2, <3>2, <3>3, <3>4, WordsStay
  <2> QED BY <2>2, <2>3 DEF Stations
<1>4. CASE Engine(s)
  <2> PICK cmd : cmd = Head(inbox[s])
    OBVIOUS
  <2>1. /\ inbox[s] # <<>> /\ inbox' = [inbox EXCEPT ![s] = Tail(@)]
        /\ wire' = IF cmd.type = "request" /\ stage[s] = "up"
                   THEN Sent(s, <<Snapshot(s)>>) ELSE wire
    BY <1>4 DEF Engine
  <2>2. /\ inbox'[Leader] \in Seq(ToLeader(Written))
        /\ inbox'[Follower] \in Seq(ToFollower(Written))
        /\ s = Follower => cmd \in ToFollower(Written)
    <3>1. CASE s = Leader
      <4>1. inbox'[Leader] = Tail(inbox[Leader]) /\ inbox'[Follower] = inbox[Follower]
        BY <1>1, <2>1, <3>1
      <4> QED BY <1>1, <1>2, <2>1, <3>1, <4>1, OneQueue
    <3>2. CASE s = Follower
      <4>1. inbox'[Follower] = Tail(inbox[Follower]) /\ inbox'[Leader] = inbox[Leader]
        BY <1>1, <2>1, <3>2
      <4> QED BY <1>1, <1>2, <2>1, <3>2, <4>1, OneQueue
    <3> QED BY <3>1, <3>2 DEF Stations
  <2>3. wire' = wire \/ (s = Leader /\ wire' = Sent(Leader, <<Snapshot(Leader)>>))
    <3>1. CASE s = Leader
      BY <2>1, <3>1
    <3>2. CASE s = Follower
      <4>1. cmd.type # "request"
        BY <2>2, <3>2 DEF ToFollower
      <4> QED BY <2>1, <4>1
    <3> QED BY <3>1, <3>2 DEF Stations
  <2>4. wire'[Follower] = wire[Follower] /\ wire'[Leader] \in Seq(ToFollower(Written))
    <3>1. CASE wire' = wire
      BY <1>2, <3>1
    <3>2. CASE wire' = Sent(Leader, <<Snapshot(Leader)>>)
      <4>1. /\ wire'[Leader] = wire[Leader] \o <<Snapshot(Leader)>>
            /\ wire'[Follower] = wire[Follower]
        BY <1>1, <3>2 DEF Sent
      <4>2. Snapshot(Leader) \in ToFollower(Written)
        BY <1>1 DEF Snapshot, ToFollower, Frames, NumberInv, OnlyWritten, Engines
      <4> QED BY <1>2, <4>1, <4>2, OneQueue
    <3> QED BY <2>3, <3>1, <3>2
  <2> QED BY <1>1, <1>2, <2>2, <2>4, WordsStay
<1> QED BY <1>3, <1>4

LEMMA WordsStep ==
    ASSUME NumberInv, Handshake, Words, Meeting, [Next]_vars
    PROVE  Words'
<1>1. CASE \E s \in Stations, p \in Paths : Write(s, p)
  BY <1>1, WordsAfterWrite
<1>2. ASSUME \A s \in Stations, p \in Paths : ~Write(s, p) PROVE Words'
  <2>1. Written' = Written
    BY <1>2, WrittenStays
  <2>2. CASE \E s \in Stations : Broadcast(s) \/ PeerLost(s) \/ Register(s)
    BY <2>1, <2>2, WordsAfterManager
  <2>3. CASE \E s \in Stations : Replay(s) \/ SendWhatIsRunning(s) \/ Send(s)
    BY <2>1, <2>3, WordsAfterSending
  <2>4. CASE \E s \in Stations : Read(s) \/ Engine(s)
    BY <2>1, <2>4, WordsAfterReading
  <2>5. CASE UNCHANGED <<inbox, wire, outbox, manager>>
    BY <2>1, <2>5, WordsStay DEF Words
  <2>6. CASE Drop
    <3>1. Severed(manager, Stations) /\ inbox' = inbox
      BY <2>6 DEF Drop
    <3> QED BY <2>1, <3>1, WordsSevered, WordsStay DEF Words
  <2>7. ASSUME NEW s \in Stations, Restart(s) PROVE Words'
    <3>1. Severed(manager, Stations \ {s}) /\ inbox' = [inbox EXCEPT ![s] = <<>>]
      BY <2>7 DEF Restart
    <3>2. /\ inbox'[Leader] = <<>> \/ inbox'[Leader] = inbox[Leader]
          /\ inbox'[Follower] = <<>> \/ inbox'[Follower] = inbox[Follower]
      BY <3>1, QueueDomains DEF Stations
    <3>3. /\ inbox'[Leader] \in Seq(ToLeader(Written))
          /\ inbox'[Follower] \in Seq(ToFollower(Written))
      BY <3>2, EmptySeq DEF Words
    <3> QED BY <2>1, <3>1, <3>3, WordsSevered, WordsStay DEF Words
  <2>8. ASSUME Dial \/ Greet \/ Greeted \/ (\E s \in Stations : GrowsOld(s)) \/ UNCHANGED vars
        PROVE  UNCHANGED <<inbox, wire, outbox, manager>>
    BY <2>8 DEF Dial, Greet, Greeted, GrowsOld, vars
  <2> QED BY <1>2, <2>2, <2>3, <2>4, <2>5, <2>6, <2>7, <2>8 DEF Next
<1> QED BY <1>1, <1>2

\* Outside a link there is nothing to say of how the two meet.
LEMMA MeetingApart ==
    ASSUME Meeting, plan' = plan, hello' = hello, ~fresh'[Leader], stage'[Follower] = "down"
    PROVE  Meeting'
BY DEF Meeting

LEMMA MeetingStays ==
    ASSUME Meeting, UNCHANGED <<plan, hello, stage>>, ~fresh'[Leader],
           inbox'[Follower] = inbox[Follower] \/ stage[Follower] = "up",
           engine'[Follower].log \subseteq engine[Follower].log \/ stage[Follower] = "up" \/
              (\E op : op.node # Leader /\ engine'[Follower].log = engine[Follower].log \cup {op})
    PROVE  Meeting'
BY DEF Meeting

LEMMA MeetingStep ==
    ASSUME NumberInv, Handshake, Meeting, [Next]_vars
    PROVE  Meeting'
<1>1. /\ Leader \in Stations /\ Follower \in Stations /\ Leader # Follower
      /\ DOMAIN stage = Stations /\ DOMAIN fresh = Stations /\ DOMAIN hello = Stations
      /\ DOMAIN engine = Stations /\ DOMAIN inbox = Stations
      /\ ~fresh[Leader]
      /\ stage[Follower] \in {"down", "hello", "greeted", "up"}
  BY IdsAssumption DEF Stations, Handshake, Types, Stages, NumberInv, OnlyWritten, Meeting
<1>2. ASSUME NEW s \in Stations, NEW p \in Paths, Write(s, p) PROVE Meeting'
  <2> PICK now : now = Increment(engine[s].clock, s)
    OBVIOUS
  <2> PICK op : op = [path |-> p, node |-> s, clock |-> now]
    OBVIOUS
  <2>1. /\ engine' = [engine EXCEPT ![s] = Holding(engine[s], op, now)]
        /\ UNCHANGED <<plan, hello, stage, fresh, inbox>>
    BY <1>2 DEF Write
  <2>2. Holding(engine[s], op, now).log = engine[s].log \cup {op} /\ op.node = s
    BY DEF Holding
  <2>3. CASE s = Leader
    <3>1. engine'[Follower] = engine[Follower]
      BY <1>1, <2>1, <2>3
    <3> QED BY <1>1, <2>1, <3>1, MeetingStays
  <2>4. CASE s = Follower
    <3>1. engine'[Follower].log = engine[Follower].log \cup {op} /\ op.node # Leader
      BY <1>1, <2>1, <2>2, <2>4
    <3> QED BY <1>1, <2>1, <3>1, MeetingStays
  <2> QED BY <2>3, <2>4 DEF Stations
<1>3. ASSUME NEW s \in Stations, Broadcast(s) \/ Register(s) \/ Send(s) PROVE Meeting'
  <2>1. UNCHANGED <<plan, hello, stage, fresh, inbox, engine>>
    BY <1>3 DEF Broadcast, Register, Send
  <2> QED BY <1>1, <2>1, MeetingStays
<1>4. ASSUME NEW s \in Stations, PeerLost(s) PROVE Meeting'
  <2>1. UNCHANGED <<plan, hello, fresh, inbox, engine>>
    BY <1>4 DEF PeerLost
  <2>2. CASE stage' = stage
    BY <1>1, <2>1, <2>2, MeetingStays
  <2>3. CASE stage' = [t \in Stations |-> "down"]
    BY <1>1, <2>1, <2>3, MeetingApart
  <2> QED BY <1>4, <2>2, <2>3 DEF PeerLost, Severed
<1>5. CASE Dial
  <2>1. /\ stage[Leader] = "down" /\ inbox[Follower] = <<>>
        /\ stage' = [stage EXCEPT ![Follower] = "hello"]
        /\ hello' = [hello EXCEPT ![Follower] =
                        [clock |-> engine[Follower].clock, fresh |-> fresh[Follower]]]
        /\ UNCHANGED <<plan, fresh, inbox>>
    BY <1>1, <1>5 DEF Dial
  <2>2. /\ stage'[Leader] = "down" /\ stage'[Follower] = "hello" /\ hello'[Leader] = hello[Leader]
    BY <1>1, <2>1
  <2> QED BY <2>1, <2>2 DEF Meeting
<1>6. CASE Greet
  <2>1. /\ stage' = [stage EXCEPT ![Leader] = "greeted"]
        /\ hello' = [hello EXCEPT ![Leader] =
                        [clock |-> engine[Leader].clock, fresh |-> fresh[Leader]]]
        /\ UNCHANGED <<plan, inbox, engine>> /\ ~fresh'[Leader]
    BY <1>1, <1>6 DEF Greet
  <2>2. /\ stage'[Follower] = stage[Follower] /\ hello'[Leader].clock = engine[Leader].clock
        /\ hello'[Leader].fresh = fresh[Leader]
    BY <1>1, <2>1
  <2>3. engine[Leader].clock[Leader] \in Nat
    BY <1>1 DEF NumberInv, OnlyWritten, Engines, Clock
  <2>4. \A op \in engine[Follower].log :
            op.node = Leader => Number(op) <= engine[Leader].clock[Leader]
    <3>1. engine[Follower].log \subseteq Written
      BY <1>1 DEF Written
    <3> QED BY <3>1 DEF NumberInv, Numbered
  <2> QED BY <2>1, <2>2, <2>3, <2>4 DEF Meeting
<1>7. CASE Greeted
  <2>1. /\ stage[Follower] = "hello" /\ stage' = [stage EXCEPT ![Follower] = "greeted"]
        /\ UNCHANGED <<plan, hello, fresh, inbox, engine>>
    BY <1>7 DEF Greeted
  <2>2. stage'[Follower] = "greeted" /\ stage'[Leader] = stage[Leader]
    BY <1>1, <2>1
  <2> QED BY <2>1, <2>2 DEF Meeting
<1>8. ASSUME NEW s \in Stations, Replay(s) \/ SendWhatIsRunning(s) PROVE Meeting'
  <2>1. UNCHANGED <<plan, hello, inbox, engine>> /\ ~fresh'[Leader]
    BY <1>1, <1>8 DEF Replay, SendWhatIsRunning
  <2>2. CASE s = Leader
    <3>1. stage'[Follower] = stage[Follower] /\ stage[Leader] # "down"
      BY <1>1, <1>8, <2>2 DEF Replay, SendWhatIsRunning
    <3> QED BY <2>1, <3>1 DEF Meeting
  <2>3. CASE s = Follower
    <3>1. stage[Follower] = "greeted"
      BY <1>8, <2>3 DEF Replay, SendWhatIsRunning, Meeting
    <3>2. how[Follower] # "ReplayThenRunning"
      <4>1. PICK lost \in BOOLEAN :
              how[Follower] = CatchUp(FALSE, TRUE, hello[Follower].fresh, hello[Leader].fresh, lost)
        BY <3>1 DEF Handshake, FollowerChose
      <4>2. hello[Follower].fresh \in BOOLEAN /\ hello[Leader].fresh \in BOOLEAN
            /\ ~hello[Leader].fresh
        BY <1>1 DEF Handshake, Types, Meeting
      <4> QED BY <4>1, <4>2 DEF CatchUp
    <3>3. stage'[Follower] = "up"
      BY <1>1, <1>8, <2>3, <3>1, <3>2 DEF Replay, SendWhatIsRunning
    <3> QED BY <2>1, <3>3 DEF Meeting
  <2> QED BY <2>2, <2>3 DEF Stations
<1>9. ASSUME NEW s \in Stations, Read(s) PROVE Meeting'
  <2>1. /\ UNCHANGED <<plan, hello, stage, fresh, engine>> /\ stage[s] = "up"
        /\ inbox' = [inbox EXCEPT ![s] = Append(@, Head(wire[Other(s)]))]
    BY <1>9 DEF Read
  <2>2. inbox'[Follower] = inbox[Follower] \/ stage[Follower] = "up"
    BY <1>1, <2>1 DEF Stations
  <2> QED BY <1>1, <2>1, <2>2, MeetingStays
<1>10. ASSUME NEW s \in Stations, Engine(s) PROVE Meeting'
  <2>1. PICK x \in Further(engine[s], Written) : engine' = [engine EXCEPT ![s] = x]
    BY <1>10, EngineTakes
  <2>2. /\ UNCHANGED <<plan, hello, stage, fresh>> /\ inbox[s] # <<>>
        /\ inbox' = [inbox EXCEPT ![s] = Tail(@)]
    BY <1>10 DEF Engine
  <2>3. CASE s = Leader
    <3>1. engine'[Follower] = engine[Follower] /\ inbox'[Follower] = inbox[Follower]
      BY <1>1, <2>1, <2>2, <2>3
    <3> QED BY <1>1, <2>2, <3>1, MeetingStays
  <2>4. CASE s = Follower
    <3>1. stage[Follower] \in {"down", "up"}
      BY <1>1, <2>2, <2>4 DEF Meeting
    <3> QED BY <1>1, <2>2, <3>1 DEF Meeting
  <2> QED BY <2>3, <2>4 DEF Stations
<1>11. CASE Drop
  <2>1. UNCHANGED <<plan, hello, fresh>> /\ stage' = [t \in Stations |-> "down"]
    BY <1>11 DEF Drop, Severed
  <2> QED BY <1>1, <2>1, MeetingApart
<1>12. ASSUME NEW s \in Stations, Restart(s) PROVE Meeting'
  <2>1. /\ UNCHANGED <<plan, hello>> /\ stage' = [t \in Stations |-> "down"] /\ s # Leader
        /\ fresh' = [fresh EXCEPT ![s] = TRUE]
    BY <1>12 DEF Restart, Severed, Meeting
  <2>2. ~fresh'[Leader]
    BY <1>1, <2>1
  <2> QED BY <1>1, <2>1, <2>2, MeetingApart
<1>13. ASSUME NEW s \in Stations, GrowsOld(s) PROVE Meeting'
  <2>1. /\ UNCHANGED <<plan, hello, stage, inbox, engine>>
        /\ fresh' = [fresh EXCEPT ![s] = FALSE]
    BY <1>13 DEF GrowsOld
  <2>2. ~fresh'[Leader]
    BY <1>1, <2>1
  <2> QED BY <2>1, <2>2, MeetingStays
<1>14. CASE UNCHANGED vars
  <2>1. UNCHANGED <<plan, hello, stage, fresh, inbox, engine>>
    BY <1>14 DEF vars
  <2> QED BY <1>1, <2>1, MeetingStays
<1> QED BY <1>2, <1>3, <1>4, <1>5, <1>6, <1>7, <1>8, <1>9, <1>10, <1>11, <1>12, <1>13, <1>14
        DEF Next

LEMMA LeadInit ==
    ASSUME LeaderStaysUp, Init
    PROVE  LeadInv
<1>1. /\ engine = [s \in Stations |-> [clock |-> Start.clock, log |-> {}, known |-> NothingKnown,
                                       show |-> [p \in Paths |-> Start]]]
      /\ \A f \in {inbox, manager, outbox, wire} : f = [s \in Stations |-> <<>>]
      /\ stage = [s \in Stations |-> "down"] /\ fresh = [s \in Stations |-> FALSE]
      /\ hello = [s \in Stations |-> [clock |-> ZeroClock(Stations), fresh |-> FALSE]]
      /\ plan \in Plans
  BY Zenon DEF Init
<1>2. Leader \in Stations /\ Follower \in Stations
  BY DEF Stations
<1>3. Words
  <2>1. /\ manager[Follower] = <<>> /\ outbox[Follower] = <<>> /\ wire[Follower] = <<>>
        /\ inbox[Leader] = <<>> /\ wire[Leader] = <<>> /\ inbox[Follower] = <<>>
    BY <1>1, <1>2
  <2> QED BY <2>1, EmptySeq DEF Words
<1>4. Meeting
  <2>1. ZeroClock(Stations)[Leader] \in Nat
    BY <1>2 DEF ZeroClock
  <2> QED BY <1>1, <1>2, <2>1 DEF Meeting, LeaderStaysUp
<1>5. LeqClock(Start.clock, Start.clock)
  BY StartTypes, LeqReflexive DEF Stamps
<1>6. RowsKept(engine[Leader])
  <2>1. /\ engine[Leader].clock = Start.clock
        /\ \A p \in Paths : engine[Leader].known[p] = Unwritten /\ engine[Leader].show[p] = Start
    BY <1>1, <1>2 DEF NothingKnown
  <2> QED BY <1>5, <2>1 DEF RowsKept
<1>7. SinceStart
  <2>1. Written = {}
    BY <1>1 DEF Written
  <2> QED BY <1>1, <1>5, <2>1 DEF SinceStart
<1> QED BY <1>3, <1>4, <1>6, <1>7 DEF LeadInv

(***************************************************************************)
(* The file of a leader that does not restart never goes back to a write   *)
(* older than the one it held, whatever stale work is handed to it, in     *)
(* batches or one by one, over however many links (apply_synced).  With a  *)
(* leader that restarts this fails (README, "Met on the way").             *)
(***************************************************************************)
THEOREM LeaderNeverGoesBack ==
    ASSUME LeaderStaysUp
    PROVE  Spec => LeaderMovesForward
<1> DEFINE Inv == Handshake /\ NumberInv /\ LeadInv
<1>1. Init => Inv
  BY HandshakeInit, NumbersInit, LeadInit
<1>2. Inv /\ [Next]_vars => Inv'
  <2> SUFFICES ASSUME Inv, [Next]_vars PROVE Inv'
    OBVIOUS
  <2>1. Handshake' /\ NumberInv'
    BY HandshakeStep, NumbersStep
  <2>2. Words' /\ Meeting' /\ SinceStart'
    BY WordsStep, MeetingStep, SinceStartStep DEF LeadInv
  <2>3. RowsKept(engine'[Leader])
    BY LeaderGoesOn
  <2> QED BY <2>1, <2>2, <2>3 DEF LeadInv
<1>3. Inv /\ [Next]_vars =>
        [\A p \in Persisted :
           ~HappensBefore(engine'[Leader].show[p].clock, engine[Leader].show[p].clock)]_vars
  <2> SUFFICES ASSUME Inv, [Next]_vars
               PROVE  \A p \in Persisted :
                        ~HappensBefore(engine'[Leader].show[p].clock, engine[Leader].show[p].clock)
    OBVIOUS
  <2>1. NotBack
    BY LeaderGoesOn
  <2> QED BY <2>1 DEF NotBack, Paths
<1> QED BY <1>1, <1>2, <1>3, PTL DEF Spec, LeaderMovesForward
-----------------------------------------------------------------------------
(***************************************************************************)
(* The follower's work.  What it wrote and the leader has not been handed  *)
(* is on its way there, in the order of its numbers, or is owed on the     *)
(* link being made; what the leader counts it was handed.                  *)
(***************************************************************************)
\* Nothing is written by the follower while a link is made, and not both
\* stations restart.
Parted == <<Follower, "joining">> \notin plan.writing /\ ~(Stations \subseteq plan.restarting)

\* Its log is worth sending.
WorthReplaying ==
    stage[Follower] = "greeted" => ~CheaperAsShow(engine[Follower], hello[Leader].clock)

\* The writes in a frame, as Read counts them as handed over.
Carried(f) ==
    CASE f.type = "write" -> {f.op}
      [] f.type = "batch" -> Range(f.ops)
      [] OTHER -> {}

\* The follower's writes in a frame, and in a queue of them.
Work(f) == Theirs(Carried(f))

WorkIn(q) == UNION {Work(q[i]) : i \in DOMAIN q}

\* Of W, nothing a frame of q follows is missing: it is in S or comes no later.
Ready(q, S, W) ==
    \A i \in DOMAIN q : \A x \in Work(q[i]), op \in W :
        Number(op) <= Number(x) => op \in S \/ \E k \in 1..i : op \in Work(q[k])

\* S was handed over, a is on the wire, b in the outbox, c with the manager,
\* and W is all there is.
OnItsWay(S, a, b, c, W) ==
    /\ Ready(a, S, W)
    /\ Ready(b, S \cup WorkIn(a), W)
    /\ Ready(c, S \cup WorkIn(a) \cup WorkIn(b), W)
    /\ W \subseteq S \cup WorkIn(a) \cup WorkIn(b) \cup WorkIn(c)
    /\ WorkIn(a) \subseteq W /\ WorkIn(b) \subseteq W /\ WorkIn(c) \subseteq W

\* Who counts n of the follower's writes was handed the n-th, or a later one.
Backed(n, H) == n \in Nat /\ (n = 0 \/ \E x \in Theirs(H) : n <= Number(x))

\* Whoever was handed a write was handed those before it.
Closed(H, W) == \A x \in Theirs(H), op \in W : Number(op) <= Number(x) => op \in H

CountsWhatWasHanded ==
    /\ DOMAIN handed = Stations
    /\ handed[Leader] \subseteq Written
    /\ Closed(handed[Leader], Theirs(Written))
    /\ Backed(engine[Leader].clock[Follower], handed[Leader])
    /\ Backed(hello[Leader].clock[Follower], handed[Leader])
    /\ \A op \in Written : IF op.node = Follower THEN Number(op) >= 1
                           ELSE Backed(op.clock[Follower], handed[Leader])
    /\ Theirs(engine[Leader].log) \subseteq handed[Leader]
    /\ WorkIn(inbox[Leader]) \subseteq handed[Leader]

NothingSentBefore ==
    stage[Follower] \in {"down", "hello", "greeted"} =>
        wire[Follower] = <<>> /\ outbox[Follower] = <<>>

NoWorkWhileJoining ==
    stage[Follower] # "down" /\ ~(Up /\ Registered) => WorkIn(manager[Follower]) = {}

AllOnTheWay ==
    stage[Follower] \in {"replayed", "up"} =>
        OnItsWay(handed[Leader], wire[Follower], outbox[Follower], manager[Follower],
                 Theirs(Written))

\* The follower never takes itself for the one with the show.
AnswersWithItsWork ==
    /\ stage[Follower] \in {"greeted", "replayed", "up"} =>
          how[Follower] \in {"Replay", "ReplayThenRequest", "ReplayThenRunning"}
    /\ Follower \notin plan.restarting => lostLeader
    /\ Leader \notin plan.restarting => ~fresh[Leader] /\ ~hello[Leader].fresh

WorkInv ==
    /\ CountsWhatWasHanded /\ NothingSentBefore /\ NoWorkWhileJoining
    /\ AllOnTheWay /\ AnswersWithItsWork

-----------------------------------------------------------------------------
\* Queues.
LEMMA TheirsOf ==
    ASSUME NEW A, NEW B
    PROVE  /\ Theirs(A \cup B) = Theirs(A) \cup Theirs(B)
           /\ Theirs(A) \subseteq A
           /\ A \subseteq B => Theirs(A) \subseteq Theirs(B)
BY DEF Theirs

LEMMA WorkOfFront ==
    ASSUME NEW A, NEW q \in Seq(A), q # <<>>
    PROVE  WorkIn(q) = Work(Head(q)) \cup WorkIn(Tail(q))
<1> PICK n \in Nat : n = Len(q)
  BY LenProperties
<1> PICK t : t = Tail(q)
  OBVIOUS
<1>1. /\ DOMAIN q = 1..n /\ n >= 1 /\ DOMAIN t = 1..(n - 1) /\ Head(q) = q[1]
      /\ \A i \in 1..(n - 1) : t[i] = q[i + 1]
  BY LenProperties
<1>2. ASSUME NEW i \in 1..n PROVE Work(q[i]) \subseteq Work(Head(q)) \cup WorkIn(t)
  <2>1. CASE i = 1 BY <1>1, <2>1
  <2>2. CASE i # 1
    <3>1. i - 1 \in 1..(n - 1) /\ q[(i - 1) + 1] = q[i]
      BY <2>2
    <3> QED BY <1>1, <3>1 DEF WorkIn
  <2> QED BY <2>1, <2>2
<1>3. ASSUME NEW i \in 1..(n - 1) PROVE Work(t[i]) \subseteq WorkIn(q)
  <2>1. i + 1 \in 1..n
    OBVIOUS
  <2> QED BY <1>1, <2>1 DEF WorkIn
<1>4. Work(Head(q)) \subseteq WorkIn(q)
  <2>1. 1 \in 1..n
    BY <1>1
  <2> QED BY <1>1, <2>1 DEF WorkIn
<1>5. WorkIn(q) \subseteq Work(Head(q)) \cup WorkIn(t)
  BY <1>1, <1>2 DEF WorkIn
<1>6. WorkIn(t) \subseteq WorkIn(q)
  <2> PICK R : R = WorkIn(q)
    OBVIOUS
  <2>1. \A i \in 1..(n - 1) : Work(t[i]) \subseteq R
    BY <1>3
  <2>2. WorkIn(t) = UNION {Work(t[i]) : i \in 1..(n - 1)}
    BY <1>1 DEF WorkIn
  <2> QED BY <2>1, <2>2
<1> QED BY <1>4, <1>5, <1>6

LEMMA WorkOfBack ==
    ASSUME NEW A, NEW q \in Seq(A), NEW f
    PROVE  WorkIn(Append(q, f)) = WorkIn(q) \cup Work(f)
<1> PICK n \in Nat : n = Len(q)
  BY LenProperties
<1> PICK t : t = Append(q, f)
  OBVIOUS
<1>1. /\ DOMAIN q = 1..n /\ DOMAIN t = 1..(n + 1) /\ t[n + 1] = f
      /\ \A i \in 1..n : t[i] = q[i]
  BY LenProperties
<1>2. \A i : i \in 1..(n + 1) <=> i \in 1..n \/ i = n + 1
  OBVIOUS
<1>3. \A x : x \in WorkIn(t) <=> \E i \in 1..(n + 1) : x \in Work(t[i])
  BY <1>1 DEF WorkIn
<1>4. \A x : x \in WorkIn(q) <=> \E i \in 1..n : x \in Work(q[i])
  BY <1>1 DEF WorkIn
<1>5. \A x : x \in WorkIn(t) <=> x \in WorkIn(q) \/ x \in Work(f)
  <2>1. ASSUME NEW x, x \in WorkIn(t) PROVE x \in WorkIn(q) \/ x \in Work(f)
    BY <1>1, <1>2, <1>3, <1>4, <2>1
  <2>2. ASSUME NEW x, x \in WorkIn(q) \/ x \in Work(f) PROVE x \in WorkIn(t)
    BY <1>1, <1>2, <1>3, <1>4, <2>2
  <2> QED BY <2>1, <2>2
<1> QED BY <1>5

LEMMA WorkOfNone == WorkIn(<<>>) = {}
BY DEF WorkIn

LEMMA ReadyMeans ==
    ASSUME NEW q, NEW S, NEW W, Ready(q, S, W), NEW i \in DOMAIN q, NEW x \in Work(q[i]),
           NEW op \in W, Number(op) <= Number(x)
    PROVE  op \in S \/ \E k \in 1..i : op \in Work(q[k])
BY DEF Ready

\* More handed over, and no more work.
LEMMA ReadyGrows ==
    ASSUME NEW q, NEW S, NEW T, NEW W, Ready(q, S, W), S \cap W \subseteq T
    PROVE  Ready(q, T, W)
BY DEF Ready

\* The first of a queue is handed over: the rest is ready still.
LEMMA ReadyFront ==
    ASSUME NEW A, NEW q \in Seq(A), q # <<>>, NEW S, NEW W, Ready(q, S, W)
    PROVE  /\ \A x \in Work(Head(q)), op \in W :
                 Number(op) <= Number(x) => op \in S \cup Work(Head(q))
           /\ Ready(Tail(q), S \cup Work(Head(q)), W)
<1> PICK n \in Nat : n = Len(q)
  BY LenProperties
<1> PICK t : t = Tail(q)
  OBVIOUS
<1>1. /\ DOMAIN q = 1..n /\ n >= 1 /\ DOMAIN t = 1..(n - 1) /\ Head(q) = q[1]
      /\ \A i \in 1..(n - 1) : t[i] = q[i + 1]
  BY LenProperties
<1>2. ASSUME NEW x \in Work(Head(q)), NEW op \in W, Number(op) <= Number(x)
      PROVE  op \in S \cup Work(Head(q))
  <2>1. 1 \in DOMAIN q /\ x \in Work(q[1])
    BY <1>1
  <2>2. op \in S \/ \E k \in 1..1 : op \in Work(q[k])
    BY <1>2, <2>1, ReadyMeans
  <2> QED BY <1>1, <2>2
<1>3. ASSUME NEW i \in 1..(n - 1), NEW x \in Work(t[i]), NEW op \in W, Number(op) <= Number(x)
      PROVE  op \in S \cup Work(Head(q)) \/ \E k \in 1..i : op \in Work(t[k])
  <2>1. i + 1 \in DOMAIN q /\ x \in Work(q[i + 1])
    BY <1>1
  <2>2. op \in S \/ \E k \in 1..(i + 1) : op \in Work(q[k])
    BY <1>3, <2>1, ReadyMeans
  <2>3. ASSUME NEW k \in 1..(i + 1), op \in Work(q[k]), k # 1
        PROVE  \E j \in 1..i : op \in Work(t[j])
    <3>1. k - 1 \in 1..i /\ k - 1 \in 1..(n - 1) /\ (k - 1) + 1 = k
      BY <2>3
    <3>2. t[k - 1] = q[k]
      BY <1>1, <3>1
    <3> QED BY <2>3, <3>1, <3>2
  <2> QED BY <1>1, <2>2, <2>3
<1>4. Ready(t, S \cup Work(Head(q)), W)
  <2> PICK T : T = S \cup Work(Head(q))
    OBVIOUS
  <2>1. \A i \in 1..(n - 1) : \A x \in Work(t[i]), op \in W :
          Number(op) <= Number(x) => op \in T \/ \E k \in 1..i : op \in Work(t[k])
    BY <1>3
  <2> QED BY <1>1, <2>1 DEF Ready
<1> QED BY <1>2, <1>4

\* A frame at the end, with all before it ahead.
LEMMA ReadyBack ==
    ASSUME NEW A, NEW q \in Seq(A), NEW f, NEW S, NEW W, Ready(q, S, W),
           \A x \in Work(f), op \in W :
               Number(op) <= Number(x) => op \in S \cup WorkIn(q) \cup Work(f)
    PROVE  Ready(Append(q, f), S, W)
<1> PICK n \in Nat : n = Len(q)
  BY LenProperties
<1> PICK t : t = Append(q, f)
  OBVIOUS
<1>1. /\ DOMAIN q = 1..n /\ DOMAIN t = 1..(n + 1) /\ t[n + 1] = f
      /\ \A i \in 1..n : t[i] = q[i]
  BY LenProperties
<1>2. ASSUME NEW i \in 1..(n + 1), NEW x \in Work(t[i]), NEW op \in W, Number(op) <= Number(x)
      PROVE  op \in S \/ \E k \in 1..i : op \in Work(t[k])
  <2>1. CASE i \in 1..n
    <3>1. i \in DOMAIN q /\ x \in Work(q[i])
      BY <1>1, <2>1
    <3>2. op \in S \/ \E k \in 1..i : op \in Work(q[k])
      BY <1>2, <3>1, ReadyMeans
    <3>3. \A k \in 1..i : k \in 1..n
      BY <2>1
    <3> QED BY <1>1, <3>2, <3>3
  <2>2. CASE i = n + 1
    <3>1. op \in S \cup WorkIn(q) \cup Work(f)
      BY <1>1, <1>2, <2>2
    <3>2. CASE op \in WorkIn(q)
      <4>1. PICK k \in 1..n : op \in Work(q[k])
        BY <1>1, <3>2 DEF WorkIn
      <4>2. k \in 1..i /\ t[k] = q[k]
        BY <1>1, <2>2
      <4> QED BY <4>1, <4>2
    <3>3. CASE op \in Work(f)
      <4>1. n + 1 \in 1..i
        BY <2>2
      <4> QED BY <1>1, <3>3, <4>1
    <3> QED BY <3>1, <3>2, <3>3
  <2> QED BY <2>1, <2>2
<1> QED BY <1>1, <1>2 DEF Ready

LEMMA ReadyForMore ==
    ASSUME NEW q, NEW S, NEW W, NEW new, Ready(q, S, W),
           \A x \in WorkIn(q) : ~(Number(new) <= Number(x))
    PROVE  Ready(q, S, W \cup {new})
<1>1. ASSUME NEW i \in DOMAIN q, NEW x \in Work(q[i]), NEW op \in W \cup {new},
             Number(op) <= Number(x)
      PROVE  op \in S \/ \E k \in 1..i : op \in Work(q[k])
  <2>1. x \in WorkIn(q)
    BY DEF WorkIn
  <2>2. op \in W
    BY <1>1, <2>1
  <2> QED BY <1>1, <2>2, ReadyMeans
<1> QED BY <1>1 DEF Ready

-----------------------------------------------------------------------------
\* What is on its way moves on.
LEMMA WayBroadcast ==
    ASSUME NEW A, NEW B, NEW b \in Seq(A), NEW c \in Seq(B), NEW S, NEW a, NEW W, c # <<>>,
           OnItsWay(S, a, b, c, W)
    PROVE  OnItsWay(S, a, Append(b, Head(c)), Tail(c), W)
<1> PICK U : U = S \cup WorkIn(a)
  OBVIOUS
<1> PICK f : f = Head(c)
  OBVIOUS
<1>1. /\ WorkIn(Append(b, f)) = WorkIn(b) \cup Work(f)
      /\ WorkIn(c) = Work(f) \cup WorkIn(Tail(c))
  BY WorkOfBack, WorkOfFront
<1>2. Ready(b, U, W) /\ Ready(c, U \cup WorkIn(b), W)
  BY DEF OnItsWay
<1>3. /\ \A x \in Work(f), op \in W :
            Number(op) <= Number(x) => op \in (U \cup WorkIn(b)) \cup Work(f)
      /\ Ready(Tail(c), (U \cup WorkIn(b)) \cup Work(f), W)
  BY <1>2, ReadyFront
<1>4. Ready(Append(b, f), U, W)
  BY <1>2, <1>3, ReadyBack
<1>5. Ready(Tail(c), U \cup WorkIn(Append(b, f)), W)
  BY <1>1, <1>3, ReadyGrows
<1> QED BY <1>1, <1>4, <1>5 DEF OnItsWay

LEMMA WaySend ==
    ASSUME NEW A, NEW B, NEW a \in Seq(A), NEW b \in Seq(B), NEW S, NEW c, NEW W, b # <<>>,
           OnItsWay(S, a, b, c, W)
    PROVE  OnItsWay(S, Append(a, Head(b)), Tail(b), c, W)
<1> PICK f : f = Head(b)
  OBVIOUS
<1>1. /\ WorkIn(Append(a, f)) = WorkIn(a) \cup Work(f)
      /\ WorkIn(b) = Work(f) \cup WorkIn(Tail(b))
  BY WorkOfBack, WorkOfFront
<1>2. Ready(a, S, W) /\ Ready(b, S \cup WorkIn(a), W)
  BY DEF OnItsWay
<1>3. /\ \A x \in Work(f), op \in W :
            Number(op) <= Number(x) => op \in (S \cup WorkIn(a)) \cup Work(f)
      /\ Ready(Tail(b), (S \cup WorkIn(a)) \cup Work(f), W)
  BY <1>2, ReadyFront
<1>4. Ready(Append(a, f), S, W)
  BY <1>2, <1>3, ReadyBack
<1>5. Ready(Tail(b), S \cup WorkIn(Append(a, f)), W)
  BY <1>1, <1>3, ReadyGrows
<1>6. Ready(c, S \cup WorkIn(Append(a, f)) \cup WorkIn(Tail(b)), W)
  BY <1>1, ReadyGrows DEF OnItsWay
<1> QED BY <1>1, <1>4, <1>5, <1>6 DEF OnItsWay

LEMMA WayRead ==
    ASSUME NEW A, NEW a \in Seq(A), a # <<>>, NEW S, NEW T, NEW b, NEW c, NEW W,
           OnItsWay(S, a, b, c, W), S \cup Work(Head(a)) \subseteq T
    PROVE  OnItsWay(T, Tail(a), b, c, W)
<1> PICK f : f = Head(a)
  OBVIOUS
<1>1. WorkIn(a) = Work(f) \cup WorkIn(Tail(a))
  BY WorkOfFront
<1>2. Ready(Tail(a), S \cup Work(f), W)
  BY ReadyFront DEF OnItsWay
<1>3. Ready(Tail(a), T, W)
  BY <1>2, ReadyGrows
<1>4. Ready(b, T \cup WorkIn(Tail(a)), W)
  BY <1>1, ReadyGrows DEF OnItsWay
<1>5. Ready(c, T \cup WorkIn(Tail(a)) \cup WorkIn(b), W)
  BY <1>1, ReadyGrows DEF OnItsWay
<1> QED BY <1>1, <1>3, <1>4, <1>5 DEF OnItsWay

LEMMA WayForget ==
    ASSUME NEW B, NEW c \in Seq(B), c # <<>>, Work(Head(c)) = {}, NEW S, NEW a, NEW b, NEW W,
           OnItsWay(S, a, b, c, W)
    PROVE  OnItsWay(S, a, b, Tail(c), W)
<1> PICK U : U = S \cup WorkIn(a) \cup WorkIn(b)
  OBVIOUS
<1>1. WorkIn(c) = WorkIn(Tail(c))
  BY WorkOfFront
<1>2. Ready(Tail(c), U \cup {}, W)
  BY ReadyFront DEF OnItsWay
<1>3. Ready(Tail(c), U, W)
  BY <1>2, ReadyGrows
<1> QED BY <1>1, <1>3 DEF OnItsWay

LEMMA WayAside ==
    ASSUME NEW A, NEW a \in Seq(A), NEW f, Work(f) = {}, NEW S, NEW b, NEW c, NEW W,
           OnItsWay(S, a, b, c, W)
    PROVE  OnItsWay(S, Append(a, f), b, c, W)
<1>1. WorkIn(Append(a, f)) = WorkIn(a)
  BY WorkOfBack
<1>2. Ready(Append(a, f), S, W)
  BY ReadyBack DEF OnItsWay
<1> QED BY <1>1, <1>2 DEF OnItsWay

LEMMA WayWrite ==
    ASSUME NEW B, NEW c \in Seq(B), NEW new, NEW f, Work(f) = {new},
           NEW S, NEW a, NEW b, NEW W, OnItsWay(S, a, b, c, W),
           \A x \in W : ~(Number(new) <= Number(x))
    PROVE  OnItsWay(S, a, b, Append(c, f), W \cup {new})
<1> PICK V : V = W \cup {new}
  OBVIOUS
<1>1. WorkIn(Append(c, f)) = WorkIn(c) \cup {new}
  BY WorkOfBack
<1>2. /\ Ready(a, S, V)
      /\ Ready(b, S \cup WorkIn(a), V)
      /\ Ready(c, S \cup WorkIn(a) \cup WorkIn(b), V)
  BY ReadyForMore DEF OnItsWay
<1>3. V \subseteq S \cup WorkIn(a) \cup WorkIn(b) \cup WorkIn(c) \cup {new}
  BY DEF OnItsWay
<1>4. Ready(Append(c, f), S \cup WorkIn(a) \cup WorkIn(b), V)
  BY <1>2, <1>3, ReadyBack
<1> QED BY <1>1, <1>2, <1>3, <1>4 DEF OnItsWay

LEMMA WayBegins ==
    ASSUME NEW f, NEW c, WorkIn(c) = {}, NEW S, NEW W, W \subseteq S \cup Work(f),
           Work(f) \subseteq W
    PROVE  OnItsWay(S, <<f>>, <<>>, c, W)
<1>1. WorkIn(<<f>>) = Work(f)
  BY DEF WorkIn
<1>2. WorkIn(<<>>) = {}
  BY WorkOfNone
<1>3. Ready(<<f>>, S, W)
  <2>1. ASSUME NEW i \in {1}, NEW op \in W
        PROVE  op \in S \/ \E k \in 1..i : op \in Work(<<f>>[k])
    <3>1. 1 \in 1..i /\ <<f>>[1] = f
      OBVIOUS
    <3>2. op \in S \/ op \in Work(f)
      OBVIOUS
    <3> QED BY <3>1, <3>2
  <2>2. DOMAIN <<f>> = {1}
    OBVIOUS
  <2> QED BY <2>1, <2>2 DEF Ready
<1>4. \A T : Ready(<<>>, T, W)
  BY DEF Ready
<1>5. \A T : Ready(c, T, W)
  BY DEF Ready, WorkIn
<1> QED BY <1>1, <1>2, <1>3, <1>4, <1>5 DEF OnItsWay

LEMMA WayEnds ==
    ASSUME NEW S, NEW W, OnItsWay(S, <<>>, <<>>, <<>>, W)
    PROVE  W \subseteq S
BY WorkOfNone DEF OnItsWay

-----------------------------------------------------------------------------
\* What is counted was handed.
LEMMA BackedByMore ==
    ASSUME NEW n, NEW H, NEW G, Backed(n, H), H \subseteq G
    PROVE  Backed(n, G)
BY DEF Backed, Theirs

\* A write and what it leaves: a new number, above all the writer's others.
Wrote(s, op) ==
    /\ op \in Ops /\ op.node = s /\ op.clock = Increment(engine[s].clock, s)
    /\ Number(op) = engine[s].clock[s] + 1
    /\ \A x \in Written : x.node = s => ~(Number(op) <= Number(x))
    /\ Written' = Written \cup {op}
    /\ engine'[s].log = engine[s].log \cup {op} /\ engine'[s].clock = op.clock
    /\ \A t \in Stations : t # s => engine'[t] = engine[t]
    /\ manager' = [manager EXCEPT ![s] = Append(@, [type |-> "write", op |-> op])]

LEMMA WriteWrote ==
    ASSUME NumberInv, NEW s \in Stations, NEW p \in Paths, Write(s, p)
    PROVE  \E op : Wrote(s, op)
<1> PICK now : now = Increment(engine[s].clock, s)
  OBVIOUS
<1> PICK op : op = [path |-> p, node |-> s, clock |-> now]
  OBVIOUS
<1> PICK x : x = Holding(engine[s], op, now)
  OBVIOUS
<1>1. /\ engine' = [engine EXCEPT ![s] = x]
      /\ manager' = [manager EXCEPT ![s] = Append(@, [type |-> "write", op |-> op])]
  BY DEF Write
<1>2. engine \in [Stations -> Engines(Written)] /\ engine[s].clock \in Clock(Stations)
  BY DEF NumberInv, OnlyWritten, Engines
<1>3. \A t \in Stations : engine'[t] = IF t = s THEN x ELSE engine[t]
  BY <1>1, <1>2
<1>4. x.log = engine[s].log \cup {op} /\ x.clock = now
  BY DEF Holding
<1>5. now \in Clock(Stations) /\ now[s] = engine[s].clock[s] + 1 /\ engine[s].clock[s] \in Nat
  <2>1. now \in Clock(Stations)
    BY <1>2, IncrementType
  <2>2. now[s] = engine[s].clock[s] + 1 /\ engine[s].clock[s] \in Nat
    BY <1>2 DEF Increment, Clock
  <2> QED BY <2>1, <2>2
<1>6. op \in Ops /\ op.node = s /\ op.clock = now /\ Number(op) = engine[s].clock[s] + 1
  BY <1>5 DEF Ops, Number
<1>7. ASSUME NEW y \in Written, y.node = s PROVE ~(Number(op) <= Number(y))
  <2>1. Number(y) <= engine[s].clock[s] /\ Number(y) \in Nat
    BY <1>7 DEF NumberInv, OnlyWritten, Numbered, Ops, Clock, Number
  <2> QED BY <1>5, <1>6, <2>1
<1>8. Written' = Written \cup {op}
  <2>1. \A t \in Stations : engine'[t].log = IF t = s THEN engine[s].log \cup {op} ELSE engine[t].log
    BY <1>3, <1>4
  <2> QED BY <2>1 DEF Written
<1>9. Wrote(s, op)
  BY <1>1, <1>3, <1>4, <1>6, <1>7, <1>8 DEF Wrote
<1> QED BY <1>9

LEMMA TheTwo == Leader \in Stations /\ Follower \in Stations /\ Leader # Follower
BY IdsAssumption DEF Stations

LEMMA CountsStay ==
    ASSUME CountsWhatWasHanded, Written' = Written, engine'[Leader] = engine[Leader],
           hello'[Leader] = hello[Leader], DOMAIN handed' = DOMAIN handed,
           handed'[Leader] = handed[Leader], inbox'[Leader] = inbox[Leader]
    PROVE  CountsWhatWasHanded'
BY DEF CountsWhatWasHanded

\* A write is one more, above what was handed over.
LEMMA CountsAfterWrite ==
    ASSUME NumberInv, CountsWhatWasHanded, NEW s \in Stations, NEW p \in Paths, Write(s, p)
    PROVE  CountsWhatWasHanded'
<1>1. PICK op : Wrote(s, op)
  BY WriteWrote
<1>2. UNCHANGED <<hello, handed, inbox>>
  BY DEF Write
<1> PICK H : H = handed[Leader]
  OBVIOUS
<1>3. /\ H \subseteq Written /\ Closed(H, Theirs(Written))
      /\ Backed(engine[Leader].clock[Follower], H)
      /\ \A x \in Written : IF x.node = Follower THEN Number(x) >= 1
                            ELSE Backed(x.clock[Follower], H)
      /\ Theirs(engine[Leader].log) \subseteq H
  BY DEF CountsWhatWasHanded
<1>4. engine[s].clock \in Clock(Stations) /\ engine[s].clock[s] \in Nat
  BY DEF NumberInv, OnlyWritten, Engines, Clock
<1>5. CASE s = Follower
  <2>1. engine'[Leader] = engine[Leader]
    BY <1>1, <1>5, TheTwo DEF Wrote
  <2>2. Closed(H, Theirs(Written'))
    <3> SUFFICES ASSUME NEW x \in Theirs(H), NEW y \in Theirs(Written \cup {op}), Number(y) <= Number(x)
                 PROVE  y \in H
      BY <1>1 DEF Closed, Wrote
    <3>1. x \in Written /\ x.node = Follower
      BY <1>3 DEF Theirs
    <3>2. y # op
      BY <1>1, <1>5, <3>1 DEF Wrote
    <3>3. y \in Theirs(Written)
      BY <3>2 DEF Theirs
    <3> QED BY <1>3, <3>3 DEF Closed
  <2>3. op.node = Follower /\ Number(op) >= 1
    BY <1>1, <1>4, <1>5 DEF Wrote
  <2>4. \A x \in Written' : IF x.node = Follower THEN Number(x) >= 1
                            ELSE Backed(x.clock[Follower], H)
    BY <1>1, <1>3, <2>3 DEF Wrote
  <2>5. H \subseteq Written'
    BY <1>1, <1>3 DEF Wrote
  <2> QED BY <1>2, <2>1, <2>2, <2>4, <2>5 DEF CountsWhatWasHanded
<1>6. CASE s = Leader
  <2>1. op.clock[Follower] = engine[Leader].clock[Follower] /\ op.node # Follower
    BY <1>1, <1>4, <1>6, TheTwo DEF Wrote, Increment, Clock
  <2>2. Theirs(Written') = Theirs(Written)
    BY <1>1, <2>1 DEF Wrote, Theirs
  <2>3. Theirs(engine'[Leader].log) = Theirs(engine[Leader].log)
    BY <1>1, <1>6, <2>1 DEF Wrote, Theirs
  <2>4. Backed(engine'[Leader].clock[Follower], H) /\ Backed(op.clock[Follower], H)
    BY <1>1, <1>3, <1>6, <2>1 DEF Wrote
  <2>5. \A x \in Written' : IF x.node = Follower THEN Number(x) >= 1
                            ELSE Backed(x.clock[Follower], H)
    BY <1>1, <1>3, <2>1, <2>4 DEF Wrote
  <2>6. H \subseteq Written'
    BY <1>1, <1>3 DEF Wrote
  <2> QED BY <1>2, <2>2, <2>3, <2>4, <2>5, <2>6 DEF CountsWhatWasHanded
<1> QED BY <1>5, <1>6 DEF Stations

\* What a frame carries.
LEMMA WorkOfFrame ==
    ASSUME NEW W, NEW f \in Frames(W)
    PROVE  /\ Carried(f) \subseteq W /\ Work(f) \subseteq Carried(f)
           /\ f.type \in {"snapshot", "running", "request"} => Work(f) = {}
           /\ f.type \in {"write", "batch", "snapshot", "running", "request"}
<1>1. Theirs({}) = {}
  BY DEF Theirs
<1>2. CASE f.type = "write"
  <2>1. f.op \in W
    BY <1>2 DEF Frames, Writes
  <2>2. Carried(f) = {f.op}
    BY <1>2 DEF Carried
  <2> QED BY <1>2, <2>1, <2>2 DEF Work, Theirs
<1>3. CASE f.type = "batch"
  <2>1. f.ops \in Seq(W)
    BY <1>3 DEF Frames, Writes
  <2>2. Carried(f) = Range(f.ops)
    BY <1>3 DEF Carried
  <2>3. Range(f.ops) \subseteq W
    <3>1. DOMAIN f.ops = 1..Len(f.ops) /\ \A i \in 1..Len(f.ops) : f.ops[i] \in W
      BY <2>1, LenProperties, ElementOfSeq
    <3> QED BY <3>1 DEF Range
  <2> QED BY <1>3, <2>2, <2>3 DEF Work, Theirs
<1>4. CASE f.type \in {"snapshot", "running", "request"}
  <2>1. Carried(f) = {}
    BY <1>4 DEF Carried
  <2> QED BY <1>1, <1>4, <2>1 DEF Work
<1>5. f.type \in {"write", "batch", "snapshot", "running", "request"}
  BY DEF Frames, Writes
<1> QED BY <1>2, <1>3, <1>4, <1>5

\* What is read is handed over, and nothing before it is missing.
LEMMA CountsAfterRead ==
    ASSUME NumberInv, CountsWhatWasHanded, NothingSentBefore, AllOnTheWay, Handshake,
           NEW s \in Stations, Read(s)
    PROVE  CountsWhatWasHanded'
<1> USE DEF NumberInv, OnlyWritten
<1> PICK f : f = Head(wire[Other(s)])
  OBVIOUS
<1> PICK C : C = Carried(f)
  OBVIOUS
<1>1. UNCHANGED <<engine, hello>> /\ Written' = Written
  BY DEF Read, Written
<1>2. /\ handed' = [handed EXCEPT ![s] = handed[s] \cup C]
      /\ inbox' = [inbox EXCEPT ![s] = Append(inbox[s], f)]
      /\ wire[Other(s)] # <<>>
  BY DEF Read, Carried
<1>3. CASE s = Follower
  <2>1. /\ handed'[Leader] = handed[Leader] /\ inbox'[Leader] = inbox[Leader]
        /\ DOMAIN handed' = DOMAIN handed
    BY <1>2, <1>3, TheTwo
  <2> QED BY <1>1, <2>1, CountsStay
<1>4. CASE s = Leader
  <2>1. Other(s) = Follower
    BY <1>4, TheTwo DEF Other
  <2>2. f \in Frames(Written) /\ wire[Follower] \in Seq(Frames(Written)) /\ wire[Follower] # <<>>
    BY <1>2, <2>1, TheTwo, QueueStep
  <2>3. C \subseteq Written /\ Theirs(C) = Work(f)
    BY <2>2, WorkOfFrame DEF Work
  <2> PICK H, G : H = handed[Leader] /\ G = handed'[Leader]
    OBVIOUS
  <2>4. G = H \cup C /\ inbox'[Leader] = Append(inbox[Leader], f)
    BY <1>2, <1>4, TheTwo DEF CountsWhatWasHanded
  <2>5. Theirs(G) = Theirs(H) \cup Work(f)
    <3>1. Theirs(H \cup C) = Theirs(H) \cup Theirs(C)
      BY TheirsOf
    <3> QED BY <2>3, <2>4, <3>1
  <2>6. stage[Follower] \in {"replayed", "up"}
    BY <2>2, TheTwo DEF NothingSentBefore, Handshake, Types, Stages
  <2>7. OnItsWay(H, wire[Follower], outbox[Follower], manager[Follower], Theirs(Written))
    BY <2>6 DEF AllOnTheWay
  <2>8. \A x \in Work(f), op \in Theirs(Written) :
            Number(op) <= Number(x) => op \in H \cup Work(f)
    <3>1. Ready(wire[Follower], H, Theirs(Written))
      BY <2>7 DEF OnItsWay
    <3> QED BY <2>1, <2>2, <3>1, ReadyFront
  <2>9. Work(f) \subseteq G
    BY <2>3, <2>4 DEF Theirs
  <2>10. Closed(G, Theirs(Written))
    BY <2>4, <2>5, <2>8, <2>9 DEF Closed, CountsWhatWasHanded
  <2>11. WorkIn(inbox'[Leader]) \subseteq G
    <3>1. inbox[Leader] \in Seq(Frames(Written))
      BY TheTwo
    <3>2. WorkIn(inbox'[Leader]) = WorkIn(inbox[Leader]) \cup Work(f)
      BY <2>4, <3>1, WorkOfBack
    <3> QED BY <2>4, <2>9, <3>2 DEF CountsWhatWasHanded
  <2>12. G \subseteq Written /\ H \subseteq G
    BY <2>3, <2>4 DEF CountsWhatWasHanded
  <2>13. \A n : Backed(n, H) => Backed(n, G)
    BY <2>12, BackedByMore
  <2>14. DOMAIN handed' = Stations
    BY <1>2 DEF CountsWhatWasHanded
  <2>15. /\ Backed(engine[Leader].clock[Follower], G)
         /\ Backed(hello[Leader].clock[Follower], G)
         /\ \A op \in Written : IF op.node = Follower THEN Number(op) >= 1
                                ELSE Backed(op.clock[Follower], G)
         /\ Theirs(engine[Leader].log) \subseteq G
    BY <2>12, <2>13 DEF CountsWhatWasHanded
  <2> QED BY <1>1, <2>10, <2>11, <2>12, <2>14, <2>15 DEF CountsWhatWasHanded
<1> QED BY <1>3, <1>4 DEF Stations

\* A write the leader may be given: where the follower made it, it was handed over.
LEMMA LeaderTakesWork ==
    ASSUME CountsWhatWasHanded, NEW W, W \in SUBSET Ops, W = Written,
           NEW H, H = handed[Leader],
           NEW op \in W, op.node = Follower => op \in H,
           NEW x \in Engines(W), Backed(x.clock[Follower], H), Theirs(x.log) \subseteq H,
           NEW y, y = ApplyPeerOperation(x, Leader, op)
    PROVE  y \in Engines(W) /\ Backed(y.clock[Follower], H) /\ Theirs(y.log) \subseteq H
<1> PICK merged : merged = Merge(x.clock, op.clock)
  OBVIOUS
<1>1. /\ x.clock \in Clock(Stations) /\ op.clock \in Clock(Stations)
      /\ op.node \in Stations /\ x.log \subseteq W
  BY DEF Engines, Ops
<1>2. y \in Engines(W)
  <2>1. x \in Further(x, W)
    BY <1>1 DEF Further, Clock
  <2>2. y \in Further(x, W)
    BY <2>1, TheTwo, ApplyGoesFurther
  <2> QED BY <2>2 DEF Further
<1>3. merged[Follower] \in {x.clock[Follower], op.clock[Follower]}
  BY <1>1, TheTwo DEF Merge, Clock
<1>4. Backed(op.clock[Follower], H)
  <2>1. CASE op.node = Follower
    <3>1. /\ op \in Theirs(H) /\ op.clock[Follower] <= Number(op)
          /\ op.clock[Follower] \in Nat
      BY <1>1, <2>1, TheTwo DEF Theirs, Number, Clock
    <3> QED BY <3>1 DEF Backed
  <2>2. CASE op.node # Follower
    BY <2>2 DEF CountsWhatWasHanded
  <2> QED BY <2>1, <2>2
<1>5. Backed(merged[Follower], H)
  BY <1>3, <1>4
<1>6. merged \in Clock(Stations)
  BY <1>1, MergeType DEF Merge, Clock
<1>7. Increment(merged, Leader)[Follower] = merged[Follower]
  BY <1>6, TheTwo DEF Increment, Clock
<1>8. CASE Accepts(x.known[op.path], op)
  <2>1. y = Holding(x, op, Increment(merged, Leader))
    BY <1>8 DEF ApplyPeerOperation
  <2>2. y.clock = Increment(merged, Leader) /\ y.log = x.log \cup {op}
    BY <2>1 DEF Holding
  <2> QED BY <1>2, <1>5, <1>7, <2>2 DEF Theirs
<1>9. CASE ~Accepts(x.known[op.path], op)
  <2>1. y = [x EXCEPT !.clock = merged]
    BY <1>9 DEF ApplyPeerOperation
  <2>2. y.clock = merged /\ y.log = x.log
    BY <2>1 DEF Engines
  <2> QED BY <1>2, <1>5, <2>2
<1> QED BY <1>8, <1>9

\* And what the leader takes off its inbox it was handed.
LEMMA LeaderTakesFrame ==
    ASSUME NumberInv, CountsWhatWasHanded, NEW cmd \in Frames(Written),
           Work(cmd) \subseteq handed[Leader], NEW x,
           x = CASE cmd.type = "write" -> ApplyPeerOperation(engine[Leader], Leader, cmd.op)
                 [] cmd.type = "batch" -> AppliedAll(engine[Leader], Leader, cmd.ops)
                 [] cmd.type = "snapshot" -> ApplySnapshot(engine[Leader], cmd.show)
                 [] cmd.type = "running" -> ApplyRunningState(engine[Leader], cmd.show)
                 [] cmd.type = "request" -> engine[Leader]
    PROVE  Backed(x.clock[Follower], handed[Leader]) /\ Theirs(x.log) \subseteq handed[Leader]
<1> PICK e : e = engine[Leader]
  OBVIOUS
<1> PICK W : W = Written
  OBVIOUS
<1> PICK H : H = handed[Leader]
  OBVIOUS
<1>1. e \in Engines(W) /\ W \in SUBSET Ops
  BY TheTwo DEF NumberInv, OnlyWritten
<1>2. Backed(e.clock[Follower], H) /\ Theirs(e.log) \subseteq H
  BY DEF CountsWhatWasHanded
<1>3. CASE cmd.type = "write"
  <2>1. Carried(cmd) = {cmd.op} /\ Carried(cmd) \subseteq W
    BY <1>3, WorkOfFrame DEF Carried
  <2>2. cmd.op \in W /\ (cmd.op.node = Follower => cmd.op \in H)
    BY <2>1 DEF Work, Theirs
  <2>3. x = ApplyPeerOperation(e, Leader, cmd.op)
    BY <1>3
  <2> QED BY <1>1, <1>2, <2>1, <2>2, <2>3, LeaderTakesWork
<1>4. CASE cmd.type = "batch"
  <2> PICK G : G = {op \in W : op.node = Follower => op \in H}
    OBVIOUS
  <2> PICK V : V = {z \in Engines(W) : Backed(z.clock[Follower], H) /\ Theirs(z.log) \subseteq H}
    OBVIOUS
  <2>1. cmd.ops \in Seq(W) /\ Carried(cmd) = Range(cmd.ops)
    BY <1>4 DEF Carried, Frames, Writes
  <2>2. cmd.ops \in Seq(G)
    <3>1. cmd.ops \in [1..Len(cmd.ops) -> W] /\ Len(cmd.ops) \in Nat
      BY <2>1, LenProperties
    <3>2. ASSUME NEW i \in 1..Len(cmd.ops) PROVE cmd.ops[i] \in G
      <4>1. cmd.ops[i] \in W /\ cmd.ops[i] \in Range(cmd.ops)
        BY <3>1 DEF Range
      <4> QED BY <2>1, <4>1 DEF Work, Theirs
    <3>3. cmd.ops \in [1..Len(cmd.ops) -> G]
      BY <3>1, <3>2
    <3> QED BY <3>1, <3>3, SeqDef
  <2>3. \A z \in V, op \in G : ApplyPeerOperation(z, Leader, op) \in V
    BY <1>1, LeaderTakesWork
  <2>4. e \in V
    BY <1>1, <1>2
  <2>5. AppliedAll(e, Leader, cmd.ops) \in V
    BY <2>2, <2>3, <2>4, BatchKeeps
  <2>6. x = AppliedAll(e, Leader, cmd.ops)
    BY <1>4
  <2> QED BY <2>5, <2>6
<1>5. CASE cmd.type = "snapshot"
  <2>1. x = ApplySnapshot(e, cmd.show)
    BY <1>5
  <2>2. x.clock = e.clock /\ x.log = e.log
    BY <1>1, <2>1 DEF ApplySnapshot, Engines
  <2> QED BY <1>2, <2>2
<1>6. CASE cmd.type = "running"
  <2>1. x = ApplyRunningState(e, cmd.show)
    BY <1>6
  <2>2. x.clock = e.clock /\ x.log = e.log
    BY <1>1, <2>1 DEF ApplyRunningState, Engines
  <2> QED BY <1>2, <2>2
<1>7. CASE cmd.type = "request"
  BY <1>2, <1>7
<1> QED BY <1>3, <1>4, <1>5, <1>6, <1>7, WorkOfFrame

LEMMA CountsAfterEngine ==
    ASSUME NumberInv, CountsWhatWasHanded, NEW s \in Stations, Engine(s), Written' = Written
    PROVE  CountsWhatWasHanded'
<1> USE DEF NumberInv, OnlyWritten
<1> PICK cmd : cmd = Head(inbox[s])
  OBVIOUS
<1> PICK x : x = CASE cmd.type = "write" -> ApplyPeerOperation(engine[s], s, cmd.op)
                   [] cmd.type = "batch" -> AppliedAll(engine[s], s, cmd.ops)
                   [] cmd.type = "snapshot" -> ApplySnapshot(engine[s], cmd.show)
                   [] cmd.type = "running" -> ApplyRunningState(engine[s], cmd.show)
                   [] cmd.type = "request" -> engine[s]
  OBVIOUS
<1>1. engine' = [engine EXCEPT ![s] = x]
  BY Zenon DEF Engine, AppliedAll
<1>2. /\ UNCHANGED <<hello, handed>> /\ inbox[s] # <<>>
      /\ inbox' = [inbox EXCEPT ![s] = Tail(inbox[s])]
  BY DEF Engine
<1>3. CASE s = Follower
  <2>1. engine'[Leader] = engine[Leader] /\ inbox'[Leader] = inbox[Leader]
    BY <1>1, <1>2, <1>3, TheTwo
  <2> QED BY <1>2, <2>1, CountsStay
<1>4. CASE s = Leader
  <2>1. engine'[Leader] = x /\ inbox'[Leader] = Tail(inbox[Leader])
    BY <1>1, <1>2, <1>4, TheTwo
  <2>2. cmd \in Frames(Written) /\ inbox[Leader] \in Seq(Frames(Written)) /\ inbox[Leader] # <<>>
    BY <1>2, <1>4, TheTwo, QueueStep
  <2>3. WorkIn(inbox[Leader]) = Work(cmd) \cup WorkIn(Tail(inbox[Leader]))
    BY <1>4, <2>2, WorkOfFront
  <2>4. Work(cmd) \subseteq handed[Leader] /\ WorkIn(inbox'[Leader]) \subseteq handed[Leader]
    BY <2>1, <2>3 DEF CountsWhatWasHanded
  <2>5. Backed(x.clock[Follower], handed[Leader]) /\ Theirs(x.log) \subseteq handed[Leader]
    BY <1>4, <2>2, <2>4, LeaderTakesFrame
  <2> QED BY <1>2, <2>1, <2>4, <2>5 DEF CountsWhatWasHanded
<1> QED BY <1>3, <1>4 DEF Stations

\* A leader that starts again counts what its log has.
LEMMA CountsAfterRestart ==
    ASSUME NumberInv, CountsWhatWasHanded, NEW s \in Stations, Restart(s), Written' = Written
    PROVE  CountsWhatWasHanded'
<1> USE DEF NumberInv, OnlyWritten
<1> PICK x : x = Reopened(engine[s])
  OBVIOUS
<1>1. /\ engine' = [engine EXCEPT ![s] = x] /\ inbox' = [inbox EXCEPT ![s] = <<>>]
      /\ UNCHANGED <<hello, handed>>
  BY DEF Restart
<1>2. CASE s = Follower
  <2>1. engine'[Leader] = engine[Leader] /\ inbox'[Leader] = inbox[Leader]
    BY <1>1, <1>2, TheTwo
  <2> QED BY <1>1, <2>1, CountsStay
<1>3. CASE s = Leader
  <2>1. engine'[Leader] = x /\ inbox'[Leader] = <<>>
    BY <1>1, <1>3, TheTwo
  <2> PICK e : e = engine[Leader]
    OBVIOUS
  <2> DEFINE Numbers == {Start.clock[Follower]}
                          \cup {Number(op) : op \in {o \in e.log : o.node = Follower}}
  <2>2. x.clock[Follower] = Max(Numbers) /\ x.log = e.log
    BY <1>3, TheTwo DEF Reopened
  <2>3. Start.clock[Follower] = 0
    BY TheTwo DEF Start, ZeroClock
  <2>4. \A op \in e.log : op \in Ops
    BY TheTwo DEF Engines
  <2>5. Max(Numbers) \in Numbers /\ Max(Numbers) \in Nat
    <3> PICK top \in Nat : top = engine[Follower].clock[Follower]
      BY TheTwo DEF Engines, Clock
    <3>1. \A op \in e.log : op.node = Follower => Number(op) \in Nat /\ Number(op) <= top
      <4>1. \A op \in e.log : op \in Written
        BY TheTwo DEF Engines
      <4> QED BY <2>4, <4>1, TheTwo DEF Numbered, Ops, Clock, Number
    <3>2. Numbers \in SUBSET Nat /\ Numbers # {} /\ \A i \in Numbers : i <= top
      BY <2>3, <3>1
    <3> HIDE DEF Numbers
    <3> QED BY <3>2, MaxBounds
  <2>6. Theirs(e.log) \subseteq handed[Leader]
    BY DEF CountsWhatWasHanded
  <2>7. \A op \in e.log : op.node = Follower => Number(op) <= Number(op)
    BY <2>4, TheTwo DEF Ops, Clock, Number
  <2>8. Backed(x.clock[Follower], handed[Leader])
    BY <2>2, <2>3, <2>5, <2>6, <2>7 DEF Backed, Theirs
  <2>9. WorkIn(<<>>) = {}
    BY WorkOfNone
  <2> QED BY <1>1, <2>1, <2>2, <2>6, <2>8, <2>9 DEF CountsWhatWasHanded
<1> QED BY <1>2, <1>3 DEF Stations

LEMMA CountsAfterHandshake ==
    ASSUME Handshake, CountsWhatWasHanded, Dial \/ Greet \/ Greeted
    PROVE  CountsWhatWasHanded'
<1>1. UNCHANGED <<engine, inbox, handed>> /\ Written' = Written
  <2>1. UNCHANGED <<engine, inbox, handed>>
    BY DEF Dial, Greet, Greeted
  <2> QED BY <2>1 DEF Written
<1>2. CASE Dial \/ Greeted
  <2>1. hello'[Leader] = hello[Leader]
    BY <1>2, TheTwo DEF Dial, Greeted, Handshake, Types
  <2> QED BY <1>1, <2>1, CountsStay
<1>3. CASE Greet
  <2>1. hello'[Leader].clock = engine[Leader].clock
    BY <1>3, TheTwo DEF Greet, Handshake, Types
  <2>2. Backed(hello'[Leader].clock[Follower], handed[Leader])
    BY <2>1 DEF CountsWhatWasHanded
  <2> QED BY <1>1, <2>2 DEF CountsWhatWasHanded
<1> QED BY <1>2, <1>3

LEMMA CountsStep ==
    ASSUME NumberInv, Handshake, WorkInv, [Next]_vars
    PROVE  CountsWhatWasHanded'
<1> USE DEF WorkInv
<1>1. ASSUME NEW s \in Stations, NEW p \in Paths, Write(s, p) PROVE CountsWhatWasHanded'
  BY <1>1, CountsAfterWrite
<1>2. CASE \A s \in Stations, p \in Paths : ~Write(s, p)
  <2>1. Written' = Written
    BY <1>2, WrittenStays
  <2>2. CASE UNCHANGED <<engine, hello, handed, inbox>>
    BY <2>1, <2>2, CountsStay
  <2>3. CASE \E s \in Stations : Broadcast(s) \/ PeerLost(s) \/ Register(s)
    BY <2>2, <2>3 DEF Broadcast, PeerLost, Register
  <2>4. CASE Dial \/ Greet \/ Greeted
    BY <2>4, CountsAfterHandshake
  <2>5. CASE \E s \in Stations : Replay(s) \/ SendWhatIsRunning(s) \/ Send(s)
    BY <2>2, <2>5 DEF Replay, SendWhatIsRunning, Send
  <2>6. ASSUME NEW s \in Stations, Read(s) PROVE CountsWhatWasHanded'
    BY <2>6, CountsAfterRead
  <2>7. ASSUME NEW s \in Stations, Engine(s) PROVE CountsWhatWasHanded'
    BY <2>1, <2>7, CountsAfterEngine
  <2>8. CASE Drop \/ \E s \in Stations : GrowsOld(s)
    BY <2>2, <2>8 DEF Drop, GrowsOld
  <2>9. ASSUME NEW s \in Stations, Restart(s) PROVE CountsWhatWasHanded'
    BY <2>1, <2>9, CountsAfterRestart
  <2>10. CASE UNCHANGED vars
    BY <2>2, <2>10 DEF vars
  <2> QED BY <1>2, <2>3, <2>4, <2>5, <2>6, <2>7, <2>8, <2>9, <2>10 DEF Next
<1> QED BY <1>1, <1>2

-----------------------------------------------------------------------------
\* What the follower answers.
LEMMA AnswersStep ==
    ASSUME Handshake, Parted, AnswersWithItsWork, [Next]_vars
    PROVE  AnswersWithItsWork'
<1> USE TheTwo DEF Handshake, Types
<1> DEFINE Open == {"greeted", "replayed", "up"}
           Work3 == {"Replay", "ReplayThenRequest", "ReplayThenRunning"}
<1>1. /\ stage[Follower] \in Open => how[Follower] \in Work3
      /\ Follower \notin plan.restarting => lostLeader
      /\ Leader \notin plan.restarting => ~fresh[Leader] /\ ~hello[Leader].fresh
  BY DEF AnswersWithItsWork
<1>2. ASSUME UNCHANGED <<plan, how>>, stage'[Follower] \in Open => stage[Follower] \in Open,
             Follower \notin plan.restarting => lostLeader',
             Leader \notin plan.restarting => ~fresh'[Leader] /\ ~hello'[Leader].fresh
      PROVE  AnswersWithItsWork'
  BY <1>1, <1>2 DEF AnswersWithItsWork
<1>3. CASE UNCHANGED <<plan, how, stage, lostLeader, fresh, hello>>
  BY <1>1, <1>2, <1>3
<1>4. CASE \E s \in Stations, p \in Paths : Write(s, p)
  BY <1>3, <1>4 DEF Write
<1>5. CASE \E s \in Stations : Broadcast(s) \/ Register(s) \/ Send(s) \/ Read(s) \/ Engine(s)
  BY <1>3, <1>5 DEF Broadcast, Register, Send, Read, Engine
<1>6. ASSUME NEW s \in Stations, PeerLost(s) PROVE AnswersWithItsWork'
  <2>1. UNCHANGED <<plan, how, fresh, hello>> /\ lostLeader' = (lostLeader \/ s = Follower)
    BY <1>6 DEF PeerLost
  <2>2. stage' = [t \in Stations |-> "down"] \/ stage' = stage
    BY <1>6 DEF PeerLost, Severed
  <2> QED BY <1>1, <1>2, <2>1, <2>2
<1>7. CASE Dial
  <2>1. /\ UNCHANGED <<plan, how, lostLeader, fresh>> /\ hello'[Leader] = hello[Leader]
        /\ stage'[Follower] = "hello"
    BY <1>7 DEF Dial
  <2> QED BY <1>1, <1>2, <2>1
<1>8. CASE Greet
  <2>1. /\ UNCHANGED <<plan, lostLeader>> /\ hello'[Leader].fresh = fresh[Leader]
        /\ stage'[Follower] = stage[Follower] /\ stage[Follower] = "hello"
        /\ fresh'[Leader] => fresh[Leader]
    BY <1>8 DEF Greet
  <2> QED BY <1>1, <2>1 DEF AnswersWithItsWork
<1>9. CASE Greeted
  <2>1. /\ UNCHANGED <<plan, lostLeader, fresh, hello>>
        /\ how'[Follower] = CatchUp(FALSE, TRUE, hello[Follower].fresh, hello[Leader].fresh, lostLeader)
    BY <1>9 DEF Greeted
  <2>2. hello[Leader].fresh \in BOOLEAN /\ hello[Follower].fresh \in BOOLEAN /\ lostLeader \in BOOLEAN
    OBVIOUS
  <2>3. hello[Leader].fresh => lostLeader
    BY <1>1 DEF Parted, Stations
  <2>4. how'[Follower] \in Work3
    <3>1. CASE hello[Leader].fresh = hello[Follower].fresh
      BY <2>1, <2>2, <3>1 DEF CatchUp
    <3>2. CASE hello[Leader].fresh /\ ~hello[Follower].fresh
      BY <2>1, <2>2, <2>3, <3>2 DEF CatchUp
    <3>3. CASE ~hello[Leader].fresh /\ hello[Follower].fresh
      BY <2>1, <2>2, <3>3 DEF CatchUp
    <3> QED BY <2>2, <3>1, <3>2, <3>3
  <2> QED BY <1>1, <2>1, <2>4 DEF AnswersWithItsWork
<1>10. ASSUME NEW s \in Stations, Replay(s) \/ SendWhatIsRunning(s) PROVE AnswersWithItsWork'
  <2>1. UNCHANGED <<plan, how, lostLeader, hello>>
    BY <1>10 DEF Replay, SendWhatIsRunning
  <2>2. fresh' = fresh \/ fresh' = [fresh EXCEPT ![s] = FALSE]
    BY <1>10 DEF Replay, SendWhatIsRunning
  <2>3. stage[s] \in Open /\ \E x \in Open : stage' = [stage EXCEPT ![s] = x]
    BY <1>10 DEF Replay, SendWhatIsRunning
  <2>4. stage'[Follower] \in Open => stage[Follower] \in Open
    BY <2>3
  <2>5. fresh'[Leader] => fresh[Leader]
    BY <2>2
  <2> QED BY <1>1, <1>2, <2>1, <2>4, <2>5
<1>11. CASE Drop
  <2>1. UNCHANGED <<plan, how, lostLeader, fresh, hello>> /\ stage'[Follower] = "down"
    BY <1>11 DEF Drop, Severed
  <2> QED BY <1>1, <1>2, <2>1
<1>12. ASSUME NEW s \in Stations, Restart(s) PROVE AnswersWithItsWork'
  <2>1. /\ UNCHANGED <<plan, how, hello>> /\ stage'[Follower] = "down" /\ s \in plan.restarting
        /\ lostLeader' = (lostLeader /\ s # Follower) /\ fresh' = [fresh EXCEPT ![s] = TRUE]
    BY <1>12 DEF Restart, Severed
  <2>2. s # Leader => fresh'[Leader] = fresh[Leader]
    BY <2>1
  <2> QED BY <1>1, <1>2, <2>1, <2>2
<1>13. ASSUME NEW s \in Stations, GrowsOld(s) PROVE AnswersWithItsWork'
  <2>1. /\ UNCHANGED <<plan, how, stage, lostLeader, hello>> /\ fresh' = [fresh EXCEPT ![s] = FALSE]
    BY <1>13 DEF GrowsOld
  <2>2. fresh'[Leader] => fresh[Leader]
    BY <2>1
  <2> QED BY <1>1, <1>2, <2>1, <2>2
<1>14. CASE UNCHANGED vars
  BY <1>3, <1>14 DEF vars
<1> QED BY <1>4, <1>5, <1>6, <1>7, <1>8, <1>9, <1>10, <1>11, <1>12, <1>13, <1>14 DEF Next

-----------------------------------------------------------------------------
\* What waits while a link is made.
LEMMA NothingWaitsApart ==
    ASSUME stage'[Follower] = "down", wire'[Follower] = <<>>, outbox'[Follower] = <<>>
    PROVE  NothingSentBefore' /\ NoWorkWhileJoining'
BY DEF NothingSentBefore, NoWorkWhileJoining

LEMMA SeveredMeans ==
    ASSUME NEW commands, NEW alive, Severed(commands, alive)
    PROVE  stage'[Follower] = "down" /\ wire'[Follower] = <<>> /\ outbox'[Follower] = <<>>
BY TheTwo DEF Severed

LEMMA NothingWaitsStays ==
    ASSUME NothingSentBefore, NoWorkWhileJoining, stage' = stage,
           \/ stage[Follower] \in {"replayed", "up"}
           \/ wire'[Follower] = wire[Follower] /\ outbox'[Follower] = outbox[Follower],
           Up /\ Registered => Registered',
           \/ WorkIn(manager'[Follower]) \subseteq WorkIn(manager[Follower])
           \/ stage[Follower] = "down"
           \/ Up /\ Registered
    PROVE  NothingSentBefore' /\ NoWorkWhileJoining'
<1>1. Up' = Up
  BY DEF Up
<1>2. NothingSentBefore'
  BY DEF NothingSentBefore
<1>3. NoWorkWhileJoining'
  BY <1>1 DEF NoWorkWhileJoining
<1> QED BY <1>2, <1>3

\* A write is made while the link is down or registered, so what the manager
\* has during the handshake is no work.
LEMMA WaitingAfterManager ==
    ASSUME NumberInv, NothingSentBefore, NoWorkWhileJoining,
           NEW s \in Stations, Broadcast(s) \/ PeerLost(s) \/ Register(s)
    PROVE  NothingSentBefore' /\ NoWorkWhileJoining'
<1> USE TheTwo DEF NumberInv, OnlyWritten
<1>1. count' = count
  BY DEF Broadcast, PeerLost, Register
<1>2. ASSUME manager[s] # <<>>, manager' = [manager EXCEPT ![s] = Tail(@)]
      PROVE  WorkIn(manager'[Follower]) \subseteq WorkIn(manager[Follower])
  <2>1. manager[s] \in Seq(Commands(Written))
    OBVIOUS
  <2>2. WorkIn(manager[s]) = Work(Head(manager[s])) \cup WorkIn(Tail(manager[s]))
    BY <1>2, <2>1, WorkOfFront
  <2>3. manager'[Follower] = IF s = Follower THEN Tail(manager[s]) ELSE manager[Follower]
    BY <1>2
  <2> QED BY <2>2, <2>3
<1>3. CASE Broadcast(s)
  <2>1. /\ manager[s] # <<>> /\ manager' = [manager EXCEPT ![s] = Tail(@)]
        /\ UNCHANGED <<pending, stage, wire>>
    BY <1>3 DEF Broadcast
  <2>2. Up /\ Registered => stage[s] = "up" /\ registered[s] = count.links
    BY DEF Up, Registered
  <2>3. Up /\ Registered => Registered'
    <3>1. Up /\ Registered => registered' = registered
      BY <1>3, <2>2 DEF Broadcast
    <3> QED BY <1>1, <2>1, <3>1 DEF Registered
  <2>4. stage[Follower] \in {"replayed", "up"} \/ outbox'[Follower] = outbox[Follower]
    BY <1>3 DEF Broadcast
  <2> QED BY <1>2, <2>1, <2>3, <2>4, NothingWaitsStays
<1>4. CASE PeerLost(s)
  <2>1. CASE stage[s] = "up" /\ registered[s] = count.links
    <3>1. Severed([manager EXCEPT ![s] = Tail(@)], Stations)
      BY <1>4, <2>1 DEF PeerLost
    <3> QED BY <3>1, SeveredMeans, NothingWaitsApart
  <2>2. CASE ~(stage[s] = "up" /\ registered[s] = count.links)
    <3>1. /\ manager[s] # <<>> /\ manager' = [manager EXCEPT ![s] = Tail(@)]
          /\ UNCHANGED <<stage, wire, outbox>>
      BY <1>4, <2>2 DEF PeerLost
    <3>2. ~(Up /\ Registered)
      BY <2>2 DEF Up, Registered
    <3> QED BY <1>2, <3>1, <3>2, NothingWaitsStays
  <2> QED BY <2>1, <2>2
<1>5. CASE Register(s)
  <2>1. UNCHANGED <<manager, stage, wire, outbox>> /\ pending[s] # <<>>
    BY <1>5 DEF Register
  <2>2. ~(Up /\ Registered)
    BY <2>1 DEF Registered
  <2> QED BY <2>1, <2>2, NothingWaitsStays
<1> QED BY <1>3, <1>4, <1>5

LEMMA WaitingStep ==
    ASSUME NumberInv, Handshake, Parted, NothingSentBefore, NoWorkWhileJoining, [Next]_vars
    PROVE  NothingSentBefore' /\ NoWorkWhileJoining'
<1> USE TheTwo DEF Handshake, Types
<1> DEFINE P == NothingSentBefore' /\ NoWorkWhileJoining'
<1>0. /\ wire \in [Stations -> Seq(Frames(Written))] /\ outbox \in [Stations -> Seq(Writes(Written))]
      /\ manager \in [Stations -> Seq(Commands(Written))] /\ count \in Counts
  BY DEF NumberInv, OnlyWritten, Numbered
<1>1. ASSUME UNCHANGED <<registered, pending>>, count'.links = count.links PROVE Registered' = Registered
  BY <1>1 DEF Registered
<1>2. ASSUME NEW s \in Stations, NEW p \in Paths, Write(s, p) PROVE P
  <2>1. /\ UNCHANGED <<stage, wire, outbox, registered, pending>>
        /\ count' = [count EXCEPT !.writes = @ + 1] /\ <<s, Moment>> \in plan.writing
        /\ \E f : manager' = [manager EXCEPT ![s] = Append(@, f)]
    BY <1>2 DEF Write
  <2>2. Registered' = Registered
    <3>1. count'.links = count.links
      BY <1>0, <2>1 DEF Counts
    <3> QED BY <1>1, <2>1, <3>1
  <2>3. CASE s = Leader
    <3>1. manager'[Follower] = manager[Follower]
      BY <1>0, <2>1, <2>3
    <3> QED BY <2>1, <2>2, <3>1, NothingWaitsStays
  <2>4. CASE s = Follower
    <3>1. Moment # "joining"
      BY <2>1, <2>4 DEF Parted
    <3>2. stage[Follower] = "down" \/ (Up /\ Registered)
      <4>1. CASE Up /\ Registered
        BY <4>1
      <4>2. CASE CaughtUp /\ \A t \in Stations : stage[t] = "down"
        BY <4>2
      <4>3. CASE ~(Up /\ Registered) /\ ~(CaughtUp /\ \A t \in Stations : stage[t] = "down")
        BY <3>1, <4>3 DEF Moment
      <4> QED BY <4>1, <4>2, <4>3
    <3> QED BY <2>1, <2>2, <3>2, NothingWaitsStays
  <2> QED BY <2>3, <2>4 DEF Stations
<1>3. ASSUME NEW s \in Stations, Broadcast(s) \/ PeerLost(s) \/ Register(s) PROVE P
  BY <1>3, WaitingAfterManager
<1>4. CASE Dial
  <2>1. /\ UNCHANGED <<manager, wire, outbox>> /\ manager[Follower] = <<>>
        /\ stage[Follower] = "down"
    BY <1>4 DEF Dial
  <2> QED BY <2>1, WorkOfNone DEF NothingSentBefore, NoWorkWhileJoining
<1>5. CASE Greet \/ Greeted
  <2>1. /\ UNCHANGED <<manager, wire, outbox>> /\ stage[Follower] = "hello" /\ ~Up
    BY <1>5 DEF Greet, Greeted, Up
  <2> QED BY <2>1 DEF NothingSentBefore, NoWorkWhileJoining
<1>6. ASSUME NEW s \in Stations, Replay(s) \/ SendWhatIsRunning(s) PROVE P
  <2>1. UNCHANGED <<manager, outbox>> /\ stage[s] \in {"greeted", "replayed"}
    BY <1>6 DEF Replay, SendWhatIsRunning
  <2>2. ~Up
    BY <2>1 DEF Up
  <2>3. \E x \in {"replayed", "up"} : stage' = [stage EXCEPT ![s] = x]
    BY <1>6 DEF Replay, SendWhatIsRunning
  <2>4. \E x : wire' = [wire EXCEPT ![s] = x]
    BY <1>6 DEF Replay, SendWhatIsRunning, Sent
  <2>5. CASE s = Leader
    <3>1. stage'[Follower] = stage[Follower] /\ wire'[Follower] = wire[Follower]
      BY <1>0, <2>3, <2>4, <2>5
    <3> QED BY <2>1, <2>2, <3>1 DEF NothingSentBefore, NoWorkWhileJoining
  <2>6. CASE s = Follower
    <3>1. stage'[Follower] \in {"replayed", "up"} /\ stage[Follower] # "down"
      BY <2>1, <2>3, <2>6
    <3> QED BY <2>1, <2>2, <3>1 DEF NothingSentBefore, NoWorkWhileJoining
  <2> QED BY <2>5, <2>6 DEF Stations
<1>7. ASSUME NEW s \in Stations, Send(s) PROVE P
  <2>1. /\ UNCHANGED <<manager, stage, registered, pending, count>> /\ stage[s] = "up"
        /\ \E x, y : wire' = [wire EXCEPT ![s] = x] /\ outbox' = [outbox EXCEPT ![s] = y]
    BY <1>7 DEF Send, Sent
  <2>2. \/ stage[Follower] = "up"
        \/ wire'[Follower] = wire[Follower] /\ outbox'[Follower] = outbox[Follower]
    BY <1>0, <2>1 DEF Stations
  <2> QED BY <1>1, <2>1, <2>2, NothingWaitsStays
<1>8. ASSUME NEW s \in Stations, Read(s) PROVE P
  <2>1. /\ UNCHANGED <<manager, outbox, stage, registered, pending, count>>
        /\ wire[Other(s)] # <<>> /\ wire' = [wire EXCEPT ![Other(s)] = Tail(@)]
    BY <1>8 DEF Read
  <2>2. stage[Follower] \in {"replayed", "up"} \/ wire'[Follower] = wire[Follower]
    <3>1. CASE Other(s) = Follower
      BY <2>1, <3>1 DEF NothingSentBefore, Stages
    <3>2. CASE Other(s) # Follower
      BY <1>0, <2>1, <3>2
    <3> QED BY <3>1, <3>2
  <2> QED BY <1>1, <2>1, <2>2, NothingWaitsStays
<1>9. ASSUME NEW s \in Stations, Engine(s) PROVE P
  <2>1. /\ UNCHANGED <<manager, outbox, stage, registered, pending, count>>
        /\ wire' = wire \/ (stage[s] = "up" /\ \E x : wire' = [wire EXCEPT ![s] = x])
    BY <1>9 DEF Engine, Sent
  <2>2. stage[Follower] = "up" \/ wire'[Follower] = wire[Follower]
    BY <1>0, <2>1 DEF Stations
  <2> QED BY <1>1, <2>1, <2>2, NothingWaitsStays
<1>10. CASE Drop \/ \E s \in Stations : Restart(s)
  <2>1. \E commands, alive : Severed(commands, alive)
    BY <1>10 DEF Drop, Restart
  <2> QED BY <2>1, SeveredMeans, NothingWaitsApart
<1>11. CASE (\E s \in Stations : GrowsOld(s)) \/ UNCHANGED vars
  <2>1. UNCHANGED <<manager, outbox, wire, stage, registered, pending, count>>
    BY <1>11 DEF GrowsOld, vars
  <2> QED BY <1>1, <2>1, NothingWaitsStays
<1> QED BY <1>2, <1>3, <1>4, <1>5, <1>6, <1>7, <1>8, <1>9, <1>10, <1>11 DEF Next

-----------------------------------------------------------------------------
\* What is on its way gets there.
LEMMA AllOnTheWayApart ==
    ASSUME stage'[Follower] \notin {"replayed", "up"}
    PROVE  AllOnTheWay'
BY DEF AllOnTheWay

LEMMA AllOnTheWayStays ==
    ASSUME AllOnTheWay, stage'[Follower] = stage[Follower], wire'[Follower] = wire[Follower],
           outbox'[Follower] = outbox[Follower], manager'[Follower] = manager[Follower],
           handed'[Leader] = handed[Leader], Theirs(Written') = Theirs(Written)
    PROVE  AllOnTheWay'
BY DEF AllOnTheWay

\* More letters than boxes: two letters share one.
LEMMA TwoInOneHole ==
    ASSUME NEW D, IsFiniteSet(D), NEW T, IsFiniteSet(T), Cardinality(T) < Cardinality(D),
           NEW ops, ops \in [D -> T]
    PROVE  \E i, j \in D : i # j /\ ops[i] = ops[j]
BY ONLY FS_PigeonHole, IsFiniteSet(D), IsFiniteSet(T), Cardinality(T) < Cardinality(D),
        ops \in [D -> T], Zenon

\* A batch holds all that is owed.
LEMMA BatchHoldsAll ==
    ASSUME NEW missing, IsFiniteSet(missing), NEW ops \in Oldest(missing)
    PROVE  Range(ops) = missing
<1> PICK n : n = Cardinality(missing)
  OBVIOUS
<1>1. /\ n \in Nat /\ ops \in [1..n -> missing]
      /\ \A i, j \in 1..n : i # j => ops[i] # ops[j]
  BY FS_CardinalityType DEF Oldest, SetToSeqs
<1>2. ASSUME NEW x \in missing, \A i \in 1..n : ops[i] # x PROVE FALSE
  <2> PICK T : T = missing \ {x}
    OBVIOUS
  <2>1. IsFiniteSet(T) /\ Cardinality(T) = n - 1
    BY <1>2, FS_RemoveElement
  <2> PICK D : D = 1..n
    OBVIOUS
  <2>2. IsFiniteSet(D) /\ Cardinality(D) = n
    BY <1>1, FS_Interval
  <2>3. ops \in [D -> T]
    BY <1>1, <1>2
  <2>4. Cardinality(T) < Cardinality(D)
    BY <1>1, <2>1, <2>2
  <2>5. \E i, j \in D : i # j /\ ops[i] = ops[j]
    BY ONLY <2>1, <2>2, <2>3, <2>4, TwoInOneHole
  <2> QED BY <1>1, <2>5
<1> QED BY <1>1, <1>2 DEF Range

\* The batch: the writes the leader does not count, and it counts what it was
\* handed, so all the rest, each once and in order.
LEMMA FollowerSendsItsWork ==
    ASSUME NumberInv, WorkInv, WorthReplaying, Replay(Follower)
    PROVE  AllOnTheWay'
<1> USE TheTwo
<1> PICK past : past = hello[Leader].clock
  OBVIOUS
<1> PICK e : e = engine[Follower]
  OBVIOUS
<1> PICK H : H = handed[Leader]
  OBVIOUS
<1> PICK W : W = Theirs(Written)
  OBVIOUS
<1> PICK missing : missing = OperationsSince(e, past)
  OBVIOUS
<1>1. /\ e \in Engines(Written) /\ IsFiniteSet(Written) /\ Written \in SUBSET Ops
      /\ wire \in [Stations -> Seq(Frames(Written))]
  BY DEF NumberInv, OnlyWritten
<1>2. PICK ops \in Oldest(missing) : wire' = Sent(Follower, Owed(Follower, ops))
  BY DEF Replay, Other
<1> PICK batch : batch = [type |-> "batch", ops |-> ops]
  OBVIOUS
<1> PICK request : request = [type |-> "request"]
  OBVIOUS
<1>3. /\ stage[Follower] = "greeted" /\ UNCHANGED <<engine, manager, outbox, handed>>
      /\ Written' = Written
  BY DEF Replay, Written
<1>4. missing \subseteq e.log /\ missing \subseteq Written /\ IsFiniteSet(missing)
  <2>1. missing \subseteq e.log /\ missing \subseteq Written
    BY <1>1 DEF OperationsSince, Engines
  <2> QED BY <1>1, <2>1, FS_Subset
<1>5. Work(batch) = Theirs(missing)
  <2>1. Range(ops) = missing
    BY <1>4, BatchHoldsAll
  <2> QED BY <2>1 DEF Work, Carried
<1>6. Work(request) = {}
  BY DEF Work, Carried, Theirs
<1>7. W \subseteq H \cup Work(batch)
  <2> SUFFICES ASSUME NEW op \in W, op \notin missing PROVE op \in H
    BY <1>5 DEF Theirs
  <2>1. op \in Written /\ op.node = Follower /\ op \in e.log /\ Number(op) \in Nat
    BY <1>1 DEF NumberInv, Numbered, Theirs, Ops, Clock, Number
  <2>2. ~(past[Follower] < Number(op))
    BY <2>1 DEF OperationsSince
  <2>3. Backed(past[Follower], H) /\ Number(op) >= 1 /\ Closed(H, W) /\ H \subseteq Written
    BY <2>1 DEF WorkInv, CountsWhatWasHanded
  <2>4. past[Follower] \in Nat /\ past[Follower] # 0
    BY <2>1, <2>2, <2>3 DEF Backed
  <2>5. PICK x \in Theirs(H) : past[Follower] <= Number(x)
    BY <2>3, <2>4 DEF Backed
  <2>6. Number(x) \in Nat
    BY <1>1, <2>3, <2>5 DEF Theirs, Ops, Clock, Number
  <2>7. Number(op) <= Number(x)
    BY <2>1, <2>2, <2>4, <2>5, <2>6
  <2> QED BY <2>3, <2>5, <2>7 DEF Closed
<1>8. Work(batch) \subseteq W
  BY <1>4, <1>5, TheirsOf
<1>9. wire[Follower] = <<>> /\ outbox[Follower] = <<>> /\ WorkIn(manager[Follower]) = {}
  <2>1. ~Up
    BY <1>3 DEF Up
  <2> QED BY <1>3, <2>1 DEF WorkInv, NothingSentBefore, NoWorkWhileJoining
<1>10. OnItsWay(H, <<batch>>, <<>>, manager[Follower], W)
  BY <1>7, <1>8, <1>9, WayBegins
<1>11. OnItsWay(H, Append(<<batch>>, request), <<>>, manager[Follower], W)
  <2>1. <<batch>> \in Seq({batch})
    OBVIOUS
  <2> QED BY <1>6, <1>10, <2>1, WayAside
<1>12. Owed(Follower, ops) \in {<<batch>>, Append(<<batch>>, request)}
  <2>1. /\ how[Follower] \in {"Replay", "ReplayThenRequest", "ReplayThenRunning"}
        /\ ~CheaperAsShow(engine[Follower], hello[Other(Follower)].clock)
    BY <1>3 DEF WorkInv, AnswersWithItsWork, WorthReplaying, Other
  <2>2. CASE how[Follower] = "Replay"
    BY <2>1, <2>2 DEF Owed
  <2>3. CASE how[Follower] = "ReplayThenRequest"
    <3>1. Owed(Follower, ops) = <<batch>> \o <<request>>
      BY <2>1, <2>3 DEF Owed
    <3>2. <<batch>> \o <<request>> = Append(<<batch>>, request)
      <4>1. <<batch>> \in Seq({batch, request})
        OBVIOUS
      <4> QED BY <4>1, AppendIsConcat
    <3> QED BY <3>1, <3>2
  <2>4. CASE how[Follower] = "ReplayThenRunning"
    BY <2>4 DEF Owed
  <2> QED BY <2>1, <2>2, <2>3, <2>4
<1>13. wire'[Follower] = Owed(Follower, ops)
  <2>1. wire'[Follower] = wire[Follower] \o Owed(Follower, ops)
    BY <1>1, <1>2 DEF Sent
  <2>2. /\ <<batch>> \in Seq({batch, request}) /\ Append(<<batch>>, request) \in Seq({batch, request})
    OBVIOUS
  <2>3. Owed(Follower, ops) \in Seq({batch, request})
    BY <1>12, <2>2
  <2> QED BY <1>9, <2>1, <2>3, ConcatEmptySeq
<1>14. OnItsWay(H, wire'[Follower], <<>>, manager[Follower], W)
  BY <1>10, <1>11, <1>12, <1>13
<1> QED BY <1>3, <1>9, <1>14 DEF AllOnTheWay

\* The manager broadcasts to a link that is registered, and forgets a write
\* where there is none; then the batch is still to come.
LEMMA WayAfterManager ==
    ASSUME NumberInv, WorkInv, NEW s \in Stations, Broadcast(s) \/ PeerLost(s) \/ Register(s)
    PROVE  AllOnTheWay'
<1> USE TheTwo DEF WorkInv
<1>1. /\ manager \in [Stations -> Seq(Commands(Written))]
      /\ outbox \in [Stations -> Seq(Writes(Written))]
  BY DEF NumberInv, OnlyWritten
<1>2. engine' = engine /\ Written' = Written /\ handed' = handed
  BY DEF Broadcast, PeerLost, Register, Written
<1>3. CASE Register(s)
  BY <1>2, <1>3, AllOnTheWayStays DEF Register
<1>4. CASE stage'[Follower] \notin {"replayed", "up"}
  BY <1>4, AllOnTheWayApart
<1> PICK a, b, c, H, W : /\ a = wire[Follower] /\ b = outbox[Follower]
                         /\ c = manager[Follower] /\ H = handed[Leader]
                         /\ W = Theirs(Written)
  OBVIOUS
<1>5. b \in Seq(Writes(Written)) /\ c \in Seq(Commands(Written))
  BY <1>1
<1>6. stage[Follower] \in {"replayed", "up"} => OnItsWay(H, a, b, c, W)
  BY DEF AllOnTheWay
<1>7. CASE Broadcast(s)
  <2>1. /\ manager' = [manager EXCEPT ![s] = Tail(@)] /\ UNCHANGED <<stage, wire>>
        /\ manager[s] # <<>>
    BY <1>7 DEF Broadcast
  <2>2. CASE s = Leader
    <3>1. manager'[Follower] = manager[Follower] /\ outbox'[Follower] = outbox[Follower]
      BY <1>1, <1>7, <2>1, <2>2 DEF Broadcast
    <3> QED BY <1>2, <2>1, <3>1, AllOnTheWayStays
  <2>3. CASE s = Follower /\ stage[s] = "up" /\ registered[s] = count.links
    <3>1. /\ outbox'[Follower] = Append(b, Head(c)) /\ manager'[Follower] = Tail(c) /\ c # <<>>
      BY <1>1, <1>7, <2>1, <2>3 DEF Broadcast
    <3>2. OnItsWay(H, a, Append(b, Head(c)), Tail(c), W)
      BY <1>5, <1>6, <2>3, <3>1, WayBroadcast
    <3> QED BY <1>2, <2>1, <3>1, <3>2 DEF AllOnTheWay
  <2>4. CASE s = Follower /\ stage[s] \in {"replayed", "up"}
             /\ ~(stage[s] = "up" /\ registered[s] = count.links)
    <3>1. /\ outbox'[Follower] = b /\ manager'[Follower] = Tail(c) /\ c # <<>>
      BY <1>1, <1>7, <2>1, <2>4 DEF Broadcast
    <3>2. ~(Up /\ Registered)
      BY <2>4 DEF Up, Registered
    <3>3. WorkIn(c) = {}
      BY <2>4, <3>2 DEF NoWorkWhileJoining
    <3>4. Work(Head(c)) = {}
      BY <1>5, <3>1, <3>3, WorkOfFront
    <3>5. OnItsWay(H, a, b, Tail(c), W)
      BY <1>5, <1>6, <2>4, <3>1, <3>4, WayForget
    <3> QED BY <1>2, <2>1, <3>1, <3>5 DEF AllOnTheWay
  <2>5. stage'[Follower] = stage[Follower]
    BY <2>1
  <2> QED BY <1>4, <2>2, <2>3, <2>4, <2>5 DEF Stations
<1>8. CASE PeerLost(s)
  <2>1. CASE stage[s] = "up" /\ registered[s] = count.links
    <3>1. Severed([manager EXCEPT ![s] = Tail(@)], Stations)
      BY <1>8, <2>1 DEF PeerLost
    <3> QED BY <1>4, <3>1, SeveredMeans
  <2>2. CASE ~(stage[s] = "up" /\ registered[s] = count.links)
    <3>1. /\ manager[s] # <<>> /\ manager' = [manager EXCEPT ![s] = Tail(@)]
          /\ UNCHANGED <<stage, wire, outbox>> /\ Head(manager[s]).type = "lost"
      BY <1>8, <2>2 DEF PeerLost
    <3>2. CASE s = Leader
      <4>1. manager'[Follower] = manager[Follower]
        BY <1>1, <3>1, <3>2
      <4> QED BY <1>2, <3>1, <4>1, AllOnTheWayStays
    <3>3. CASE s = Follower
      <4>1. manager'[Follower] = Tail(c) /\ c # <<>> /\ Head(c).type = "lost"
        BY <1>1, <3>1, <3>3
      <4>2. Work(Head(c)) = {}
        BY <4>1 DEF Work, Carried, Theirs
      <4>3. stage[Follower] \in {"replayed", "up"} => OnItsWay(H, a, b, Tail(c), W)
        BY <1>5, <1>6, <4>1, <4>2, WayForget
      <4> QED BY <1>2, <3>1, <4>1, <4>3 DEF AllOnTheWay
    <3> QED BY <3>2, <3>3 DEF Stations
  <2> QED BY <2>1, <2>2
<1> QED BY <1>3, <1>7, <1>8

LEMMA WayAfterWrite ==
    ASSUME NumberInv, WorkInv, NEW s \in Stations, NEW p \in Paths, Write(s, p)
    PROVE  AllOnTheWay'
<1> USE TheTwo DEF WorkInv
<1>1. PICK op : Wrote(s, op)
  BY WriteWrote
<1>2. UNCHANGED <<stage, wire, outbox, handed>>
  BY DEF Write
<1>3. manager \in [Stations -> Seq(Commands(Written))]
  BY DEF NumberInv, OnlyWritten
<1> PICK f : f = [type |-> "write", op |-> op]
  OBVIOUS
<1>4. /\ op.node = s /\ Written' = Written \cup {op}
      /\ manager' = [manager EXCEPT ![s] = Append(@, f)]
  BY <1>1 DEF Wrote
<1>5. CASE s = Leader
  <2>1. Theirs(Written') = Theirs(Written)
    BY <1>4, <1>5 DEF Theirs
  <2>2. manager'[Follower] = manager[Follower]
    BY <1>3, <1>4, <1>5
  <2> QED BY <1>2, <2>1, <2>2, AllOnTheWayStays
<1>6. CASE s = Follower
  <2> PICK a, b, c, H, W : /\ a = wire[Follower] /\ b = outbox[Follower]
                           /\ c = manager[Follower] /\ H = handed[Leader]
                           /\ W = Theirs(Written)
    OBVIOUS
  <2>1. c \in Seq(Commands(Written)) /\ manager'[Follower] = Append(c, f)
    BY <1>3, <1>4, <1>6
  <2>2. Work(f) = {op}
    BY <1>4, <1>6 DEF Work, Carried, Theirs
  <2>3. Theirs(Written') = W \cup {op}
    BY <1>4, <1>6 DEF Theirs
  <2>4. \A x \in W : ~(Number(op) <= Number(x))
    BY <1>1, <1>6 DEF Wrote, Theirs
  <2>5. OnItsWay(H, a, b, c, W) => OnItsWay(H, a, b, Append(c, f), W \cup {op})
    BY <2>1, <2>2, <2>4, WayWrite
  <2> QED BY <1>2, <2>1, <2>3, <2>5 DEF AllOnTheWay
<1> QED BY <1>5, <1>6 DEF Stations

\* On a link: into a frame, off the wire, or past it.
LEMMA WayAfterLink ==
    ASSUME NumberInv, Handshake, WorkInv, NEW s \in Stations,
           Send(s) \/ Read(s) \/ Engine(s) \/ SendWhatIsRunning(s),
           Written' = Written
    PROVE  AllOnTheWay'
<1> USE TheTwo DEF WorkInv, Handshake, Types
<1>1. /\ wire \in [Stations -> Seq(Frames(Written))]
      /\ outbox \in [Stations -> Seq(Writes(Written))]
      /\ inbox \in [Stations -> Seq(Frames(Written))]
  BY DEF NumberInv, OnlyWritten
<1> PICK a, b, c, H, W : /\ a = wire[Follower] /\ b = outbox[Follower]
                         /\ c = manager[Follower] /\ H = handed[Leader]
                         /\ W = Theirs(Written)
  OBVIOUS
<1>2. a \in Seq(Frames(Written)) /\ b \in Seq(Writes(Written))
  BY <1>1
<1>3. stage[Follower] \in {"replayed", "up"} => OnItsWay(H, a, b, c, W)
  BY DEF AllOnTheWay
<1>4. manager' = manager
  BY DEF Send, Read, Engine, SendWhatIsRunning
<1>5. ASSUME NEW f, Work(f) = {}, wire'[Follower] = Append(a, f),
             outbox'[Follower] = b, handed' = handed, stage[Follower] \in {"replayed", "up"}
      PROVE  AllOnTheWay'
  <2>1. OnItsWay(H, Append(a, f), b, c, W)
    BY <1>2, <1>3, <1>5, WayAside
  <2> QED BY <1>4, <1>5, <2>1 DEF AllOnTheWay
<1>6. CASE Send(s)
  <2>1. /\ UNCHANGED <<stage, handed>> /\ stage[s] = "up" /\ outbox[s] # <<>>
        /\ wire' = [wire EXCEPT ![s] = @ \o <<Head(outbox[s])>>]
        /\ outbox' = [outbox EXCEPT ![s] = Tail(@)]
    BY <1>6 DEF Send, Sent
  <2>2. CASE s = Leader
    <3>1. wire'[Follower] = wire[Follower] /\ outbox'[Follower] = outbox[Follower]
      BY <1>1, <2>1, <2>2
    <3> QED BY <1>4, <2>1, <3>1, AllOnTheWayStays
  <2>3. CASE s = Follower
    <3>1. wire'[Follower] = a \o <<Head(b)>> /\ outbox'[Follower] = Tail(b) /\ b # <<>>
      BY <1>1, <2>1, <2>3
    <3>2. Head(b) \in Frames(Written)
      <4>1. Head(b) \in Writes(Written)
        BY <1>2, <3>1, HeadTailProperties
      <4> QED BY <4>1 DEF Frames
    <3>3. a \o <<Head(b)>> = Append(a, Head(b))
      BY <1>2, <3>2, AppendIsConcat
    <3>4. OnItsWay(H, Append(a, Head(b)), Tail(b), c, W)
      BY <1>2, <1>3, <2>1, <2>3, <3>1, WaySend
    <3> QED BY <1>4, <2>1, <3>1, <3>3, <3>4 DEF AllOnTheWay
  <2> QED BY <2>2, <2>3 DEF Stations
<1>7. CASE Read(s)
  <2>1. /\ UNCHANGED <<stage, outbox>> /\ wire[Other(s)] # <<>>
        /\ wire' = [wire EXCEPT ![Other(s)] = Tail(@)]
    BY <1>7 DEF Read
  <2>2. CASE s = Follower
    <3>1. wire'[Follower] = wire[Follower]
      BY <1>1, <2>1, <2>2 DEF Other
    <3>2. handed'[Leader] = handed[Leader]
      BY <1>7, <2>2 DEF Read, CountsWhatWasHanded
    <3> QED BY <1>4, <2>1, <3>1, <3>2, AllOnTheWayStays
  <2>3. CASE s = Leader
    <3>1. Other(s) = Follower
      BY <2>3 DEF Other
    <3>2. wire'[Follower] = Tail(a) /\ a # <<>>
      BY <1>1, <2>1, <3>1
    <3> PICK f : f = Head(a)
      OBVIOUS
    <3>3. f \in Frames(Written)
      BY <1>2, <3>2, HeadTailProperties
    <3>4. handed'[Leader] = H \cup Carried(f)
      BY <1>7, <2>3, <3>1 DEF Read, Carried, CountsWhatWasHanded
    <3>5. Work(f) \subseteq Carried(f)
      BY <3>3, WorkOfFrame
    <3>6. H \cup Work(f) \subseteq handed'[Leader]
      BY <3>4, <3>5
    <3>7. stage[Follower] \in {"replayed", "up"} => OnItsWay(handed'[Leader], Tail(a), b, c, W)
      BY <1>2, <1>3, <3>2, <3>6, WayRead
    <3> QED BY <1>4, <2>1, <3>2, <3>7 DEF AllOnTheWay
  <2> QED BY <2>2, <2>3 DEF Stations
<1>8. CASE Engine(s)
  <2>1. /\ UNCHANGED <<stage, outbox, handed>>
        /\ \/ wire' = wire
           \/ stage[s] = "up" /\ wire' = [wire EXCEPT ![s] = @ \o <<Snapshot(s)>>]
    BY <1>8 DEF Engine, Sent
  <2>2. CASE wire'[Follower] = wire[Follower]
    BY <1>4, <2>1, <2>2, AllOnTheWayStays
  <2>3. CASE s = Follower /\ stage[s] = "up" /\ wire' = [wire EXCEPT ![s] = @ \o <<Snapshot(s)>>]
    <3> PICK f : f = Snapshot(s)
      OBVIOUS
    <3>1. f \in Frames(Written) /\ f.type = "snapshot"
      BY DEF Frames, Snapshot, NumberInv, OnlyWritten, Engines
    <3>2. Work(f) = {}
      BY <3>1, WorkOfFrame
    <3>3. wire'[Follower] = a \o <<f>>
      BY <1>1, <2>3
    <3>4. wire'[Follower] = Append(a, f)
      BY <1>2, <3>1, <3>3, AppendIsConcat
    <3> QED BY <1>5, <2>1, <2>3, <3>2, <3>4
  <2>4. CASE s = Leader
    <3>1. wire'[Follower] = wire[Follower]
      BY <1>1, <2>1, <2>4
    <3> QED BY <2>2, <3>1
  <2> QED BY <2>1, <2>2, <2>3, <2>4 DEF Stations
<1>9. CASE SendWhatIsRunning(s)
  <2> PICK f : f = [type |-> "running", show |-> engine[s].show]
    OBVIOUS
  <2>1. /\ UNCHANGED <<outbox, handed>> /\ wire' = [wire EXCEPT ![s] = @ \o <<f>>]
        /\ stage[s] = "replayed" /\ stage' = [stage EXCEPT ![s] = "up"]
    BY <1>9 DEF SendWhatIsRunning, Sent
  <2>2. CASE s = Leader
    <3>1. wire'[Follower] = wire[Follower] /\ stage'[Follower] = stage[Follower]
      BY <1>1, <2>1, <2>2
    <3> QED BY <1>4, <2>1, <3>1, AllOnTheWayStays
  <2>3. CASE s = Follower
    <3>1. f \in Frames(Written) /\ f.type = "running"
      BY DEF Frames, NumberInv, OnlyWritten, Engines
    <3>2. Work(f) = {}
      BY <3>1, WorkOfFrame
    <3>3. wire'[Follower] = a \o <<f>>
      BY <1>1, <2>1, <2>3
    <3>4. wire'[Follower] = Append(a, f)
      BY <1>2, <3>1, <3>3, AppendIsConcat
    <3> QED BY <1>5, <2>1, <2>3, <3>2, <3>4
  <2> QED BY <2>2, <2>3 DEF Stations
<1> QED BY <1>6, <1>7, <1>8, <1>9

LEMMA WayStep ==
    ASSUME NumberInv, Handshake, WorkInv, WorthReplaying, [Next]_vars
    PROVE  AllOnTheWay'
<1> USE TheTwo DEF Handshake, Types
<1>1. ASSUME NEW s \in Stations, NEW p \in Paths, Write(s, p) PROVE AllOnTheWay'
  BY <1>1, WayAfterWrite
<1>2. CASE \A s \in Stations, p \in Paths : ~Write(s, p)
  <2>1. Written' = Written
    BY <1>2, WrittenStays
  <2>2. AllOnTheWay
    BY DEF WorkInv
  <2>3. ASSUME NEW s \in Stations, Broadcast(s) \/ PeerLost(s) \/ Register(s) PROVE AllOnTheWay'
    BY <2>3, WayAfterManager
  <2>4. CASE Dial \/ Greeted
    <3>1. stage'[Follower] \in {"hello", "greeted"}
      BY <2>4 DEF Dial, Greeted
    <3> QED BY <3>1, AllOnTheWayApart
  <2>5. CASE Greet
    <3>1. stage'[Follower] = "hello"
      BY <2>5 DEF Greet
    <3> QED BY <3>1, AllOnTheWayApart
  <2>6. CASE Replay(Follower)
    BY <2>6, FollowerSendsItsWork
  <2>7. CASE Replay(Leader)
    <3>1. /\ UNCHANGED <<outbox, manager, handed>>
          /\ \E x : stage' = [stage EXCEPT ![Leader] = x]
          /\ \E x : wire' = [wire EXCEPT ![Leader] = x]
      BY <2>7 DEF Replay, Sent
    <3>2. stage'[Follower] = stage[Follower] /\ wire'[Follower] = wire[Follower]
      BY <3>1 DEF NumberInv, OnlyWritten
    <3> QED BY <2>1, <2>2, <3>1, <3>2, AllOnTheWayStays
  <2>8. ASSUME NEW s \in Stations, Send(s) \/ Read(s) \/ Engine(s) \/ SendWhatIsRunning(s)
        PROVE  AllOnTheWay'
    BY <2>1, <2>8, WayAfterLink
  <2>9. CASE Drop \/ \E s \in Stations : Restart(s)
    <3>1. \E commands, alive : Severed(commands, alive)
      BY <2>9 DEF Drop, Restart
    <3> QED BY <3>1, SeveredMeans, AllOnTheWayApart
  <2>10. CASE (\E s \in Stations : GrowsOld(s)) \/ UNCHANGED vars
    <3>1. UNCHANGED <<stage, wire, outbox, manager, handed>>
      BY <2>10 DEF GrowsOld, vars
    <3> QED BY <2>1, <2>2, <3>1, AllOnTheWayStays
  <2>11. \A s \in Stations : Replay(s) => Replay(Leader) \/ Replay(Follower)
    BY DEF Stations
  <2> QED BY <1>2, <2>3, <2>4, <2>5, <2>6, <2>7, <2>8, <2>9, <2>10, <2>11 DEF Next
<1> QED BY <1>1, <1>2

LEMMA WorkInit == Init => WorkInv
<1> SUFFICES ASSUME Init PROVE WorkInv
  OBVIOUS
<1> USE TheTwo
<1>1. /\ engine = [s \in Stations |-> [clock |-> Start.clock, log |-> {}, known |-> NothingKnown,
                                       show |-> [p \in Paths |-> Start]]]
      /\ \A f \in {inbox, manager, outbox, wire} : f = [s \in Stations |-> <<>>]
      /\ stage = [s \in Stations |-> "down"] /\ fresh = [s \in Stations |-> FALSE]
      /\ hello = [s \in Stations |-> [clock |-> ZeroClock(Stations), fresh |-> FALSE]]
      /\ handed = [s \in Stations |-> {}] /\ lostLeader = TRUE
  BY Zenon DEF Init
<1>2. Written = {} /\ Theirs({}) = {}
  BY <1>1 DEF Written, Theirs
<1>3. Start.clock[Follower] = 0 /\ ZeroClock(Stations)[Follower] = 0
  BY DEF Start, ZeroClock
<1>4. /\ engine[Leader].clock = Start.clock /\ engine[Leader].log = {}
      /\ hello[Leader].clock = ZeroClock(Stations) /\ ~hello[Leader].fresh /\ ~fresh[Leader]
      /\ handed[Leader] = {} /\ DOMAIN handed = Stations /\ inbox[Leader] = <<>>
      /\ wire[Follower] = <<>> /\ outbox[Follower] = <<>> /\ stage[Follower] = "down"
      /\ lostLeader
  BY <1>1
<1>5. CountsWhatWasHanded
  BY <1>2, <1>3, <1>4, WorkOfNone DEF CountsWhatWasHanded, Closed, Backed
<1>6. NothingSentBefore /\ NoWorkWhileJoining /\ AllOnTheWay /\ AnswersWithItsWork
  BY <1>4 DEF NothingSentBefore, NoWorkWhileJoining, AllOnTheWay, AnswersWithItsWork
<1> QED BY <1>5, <1>6 DEF WorkInv

LEMMA PlanStays == [Next]_vars => plan' = plan
BY DEF Next, vars, Write, Broadcast, PeerLost, Register, Dial, Greet, Greeted, Replay,
       SendWhatIsRunning, Send, Read, Engine, Drop, Restart, GrowsOld

\* A settled link has empty queues: what there is was handed over.
LEMMA WorkIsWithTheLeader ==
    ASSUME NumberInv, WorkInv
    PROVE  WorkHandedOver
<1> SUFFICES ASSUME Settled, NEW op \in engine[Follower].log, op.node = Follower
             PROVE  op \in handed[Leader]
  BY DEF WorkHandedOver
<1> USE TheTwo
<1>1. /\ stage[Follower] = "up" /\ manager[Follower] = <<>> /\ outbox[Follower] = <<>>
      /\ wire[Follower] = <<>>
  BY DEF Settled, Up
<1>2. Theirs(Written) \subseteq handed[Leader]
  BY <1>1, WayEnds DEF WorkInv, AllOnTheWay
<1>3. op \in Written
  BY DEF Written
<1> QED BY <1>2, <1>3 DEF Theirs

(***************************************************************************)
(* Whatever the follower did on its own, over however many links and       *)
(* restarts, has been given to the leader by the time a link is settled:   *)
(* in the batch it owes, or one by one behind it.  That needs its log to   *)
(* be worth sending on every link (operations_since gives None otherwise,  *)
(* README, "Met on the way"), and that it writes nothing while a link is   *)
(* made: such a write is broadcast to nobody (finding of                   *)
(* reconnect_lost_broadcast).                                              *)
(***************************************************************************)
THEOREM WorkIsHandedOver == Spec /\ []WorthReplaying => [](Parted => WorkHandedOver)
<1> DEFINE Inv == Handshake /\ NumberInv /\ (Parted => WorkInv)
<1>1. Init => Inv
  BY HandshakeInit, NumbersInit, WorkInit
<1>2. Inv /\ WorthReplaying /\ [Next]_vars => Inv'
  <2> SUFFICES ASSUME Inv, WorthReplaying, [Next]_vars PROVE Inv'
    OBVIOUS
  <2>1. Handshake' /\ NumberInv'
    BY HandshakeStep, NumbersStep
  <2>2. ASSUME Parted' PROVE WorkInv'
    <3>1. Parted
      BY <2>2, PlanStays DEF Parted
    <3>2. WorkInv
      BY <3>1
    <3>3. CountsWhatWasHanded'
      BY <3>2, CountsStep
    <3>4. NothingSentBefore' /\ NoWorkWhileJoining'
      BY <3>1, <3>2, WaitingStep DEF WorkInv
    <3>5. AllOnTheWay'
      BY <3>2, WayStep
    <3>6. AnswersWithItsWork'
      BY <3>1, <3>2, AnswersStep DEF WorkInv
    <3> QED BY <3>3, <3>4, <3>5, <3>6 DEF WorkInv
  <2> QED BY <2>1, <2>2
<1>3. Inv => (Parted => WorkHandedOver)
  BY WorkIsWithTheLeader
<1> HIDE DEF Inv
<1> QED BY <1>1, <1>2, <1>3, PTL DEF Spec
=============================================================================
