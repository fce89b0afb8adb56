------------------------------- MODULE Playback -------------------------------
(***************************************************************************)
(* What drives every parameter of the rig on one station, worked out from  *)
(* the sequences and the cues: model/playback.rs, the commands of          *)
(* pult-schema/src/types/sequence.rs, and Engine::playback_pass.           *)
(*                                                                         *)
(* A command changes the show and nothing else; a pass runs once the       *)
(* engine has nothing left to read, so it may find several commands at     *)
(* once, and works from what each sequence is on now and was on at the     *)
(* last pass. Times, levels between two values, the programmer above and   *)
(* the publishing below are left out: a driver is the cue that put it      *)
(* there and what it heads to.                                             *)
(***************************************************************************)
EXTENDS Integers, Sequences, Sublists

CONSTANTS
    List,        \* the sequences' ids, in the order the collection is read
    CuesOf,      \* the cues of each, in order; a cue is in one sequence
    Keys,        \* one parameter of one fixture each
    Intensity,   \* those of them a sequence can share
    Levels,      \* values a capture can name
    Htp,         \* the sequences that keep what others play beside them
    Wraps,       \* the sequences that go around
    Follows,     \* the cues that go on by themselves
    Stored,      \* what each cue captures of each key to begin with
    Edits,       \* the records [cue, key, says] an operator may store
    Flowed,      \* the keys flows set and takes record
    Leads,       \* whether the station leads: a follower's follows do not fire
    Burst        \* bound: commands between two passes

Ids == Range(List)
Cues == UNION {Range(CuesOf[s]) : s \in Ids}

\* A capture is a level, or an effect with the level beneath it.
Captures == [to : Levels, fx : BOOLEAN]
NoCapture == [to |-> "nothing", fx |-> FALSE]
Nobody == "nobody"

ASSUME PlaybackAssumption ==
    /\ List \in Seq(Ids) /\ IsInjective(List)
    \* A cue is in one sequence, and once.
    /\ \A s \in Ids : CuesOf[s] \in Seq(Cues) /\ IsInjective(CuesOf[s])
    /\ \A s, t \in Ids : s # t => Range(CuesOf[s]) \cap Range(CuesOf[t]) = {}
    /\ Intensity \subseteq Keys /\ Flowed \subseteq Keys
    /\ Stored \in [Cues -> [Keys -> Captures \cup {NoCapture}]]
    /\ Edits \subseteq [cue : Cues, key : Keys, says : Captures \cup {NoCapture}]
    /\ Burst \in Nat \ {0}
    /\ Nobody \notin Cues \cup Ids /\ "nothing" \notin Levels

VARIABLES
    rows,        \* the sequences the show has
    on,          \* active_cue_index of each, counted from 1, or 0
    recent,      \* the sequences that are on, by went_at, the latest last
    captures,    \* what each cue captures
    owed,        \* commands since the last pass
    edited,      \* whether cues have moved since the last pass
    playing,     \* the cue each sequence was on at the last pass
    stage,       \* what drives each key, and what plays beside it
    armed,       \* the sequences with a follow due
    stopped      \* the keys a stopped take was holding

show == <<rows, on, recent, captures>>
own == <<playing, stage, armed, stopped>>
vars == <<show, owed, edited, own>>

\* A fade or an effect: whose cue it is, and the level a fade heads to.
Driver(c, to) == [cue |-> c, to |-> to]
Undriven == Driver(Nobody, "nothing")
\* A release or a parked value: no cue claims it.
Unclaimed == Driver(Nobody, "parked")
\* A value a flow set, or what a take that stopped has on its way to what is
\* beneath it: no cue claims it either.
SetOutright == Driver(Nobody, "set")

-----------------------------------------------------------------------------
(* The show as a pass sees it.                                             *)

IsOn(s) == s \in rows /\ on[s] > 0
ActiveCue(s) == IF IsOn(s) THEN CuesOf[s][on[s]] ELSE Nobody

SequenceOf(c) ==
    IF \E s \in rows : c \in Range(CuesOf[s])
    THEN CHOOSE s \in rows : c \in Range(CuesOf[s]) ELSE Nobody

Captures_(c, k) == captures[c][k] # NoCapture

\* The keys any cue of a sequence captures: what it could drive.
CouldDrive(s, k) == \E c \in Range(CuesOf[s]) : Captures_(c, k)

\* The cue a sequence that is on tracks a key from: the latest one over its
\* stack up to the cue it is on.
TrackedFrom(s, k) ==
    LET having == {i \in 1..on[s] : Captures_(CuesOf[s][i], k)}
    IN IF ~IsOn(s) \/ having = {} THEN Nobody
       ELSE CuesOf[s][CHOOSE i \in having : \A j \in having : j <= i]

Tracks(s, k) == TrackedFrom(s, k) # Nobody

\* The cue that should drive a key: of the sequences that are on and track
\* it, the one that went last.
Wanted(k, except) ==
    LET those == {i \in DOMAIN recent : recent[i] # except /\ Tracks(recent[i], k)}
    IN IF those = {} THEN Nobody
       ELSE TrackedFrom(recent[CHOOSE i \in those : \A j \in those : j <= i], k)

-----------------------------------------------------------------------------
(* One key: `at` is its driver and, in order, what is beside it.           *)

\* Whose the driver is: a sequence, or Nobody for one no sequence put there.
PrimaryOwner(at) == SequenceOf(at.driver.cue)

Without(beside, s) == Among({layer \in Range(beside) : layer.of # s}, beside)

\* Fault: whatever is on the key is taken off it.
StartCaptureAlone(at, c, k) ==
    [driver |-> Driver(c, IF captures[c][k].fx THEN "effect" ELSE captures[c][k].to),
     beside |-> <<>>]

\* Fault: the sequence's own earlier layer is left beside the new one.
StartCaptureAgain(at, c, k) ==
    LET other == PrimaryOwner(at)
    IN [driver |-> Driver(c, IF captures[c][k].fx THEN "effect" ELSE captures[c][k].to),
        beside |-> IF SequenceOf(c) \in Htp /\ k \in Intensity
                   THEN IF other \notin {Nobody, SequenceOf(c)} /\ IsOn(other)
                        THEN Append(at.beside, [of |-> other, driver |-> at.driver])
                        ELSE at.beside
                   ELSE <<>>]

\* A capture begins. Under HTP a sequence that is on and playing the key
\* stays beside it; otherwise the key is taken from all of them.
StartCapture(at, c, k) ==
    LET s == SequenceOf(c)
        other == PrimaryOwner(at)
        kept == Without(at.beside, s)
        joins == other # Nobody /\ other # s /\ IsOn(other)
    IN [driver |-> Driver(c, IF captures[c][k].fx THEN "effect" ELSE captures[c][k].to),
        beside |-> IF s \in Htp /\ k \in Intensity
                   THEN IF joins THEN Append(kept, [of |-> other, driver |-> at.driver])
                        ELSE kept
                   ELSE <<>>]

\* The key goes home; a key that is there already keeps no fade.
ReleaseKey(at, atHome) ==
    [at EXCEPT !.driver = IF atHome \/ @ = Undriven THEN Undriven ELSE Unclaimed]

\* Fault: what is beside the driver is left to go with it.
LetGoOfAll(at, s, k, atHome) ==
    IF PrimaryOwner(at) \notin {Nobody, s} /\ IsOn(PrimaryOwner(at)) THEN at
    ELSE ReleaseKey(at, atHome)

\* A sequence taken off, or gone back past the cue that set the key, lets it
\* go: to whom it belongs now, to the latest beside it, to another sequence
\* that captures it, or home.
LetGo(at, s, k, atHome) ==
    LET left == [at EXCEPT !.beside = Without(@, s)]
        owner == PrimaryOwner(at)
        driven == \E t \in rows \ {s} : IsOn(t) /\ CouldDrive(t, k)
        next == Wanted(k, s)
    IN IF owner \notin {Nobody, s} /\ IsOn(owner) THEN left
       ELSE IF left.beside # <<>>
       THEN [driver |-> Last(left.beside).driver, beside |-> Front(left.beside)]
       ELSE IF driven
       THEN IF at.driver = Undriven \/ next = Nobody THEN left ELSE StartCapture(left, next, k)
       ELSE ReleaseKey(left, atHome)

\* The effects of a cue that is no longer up are frozen where they are; one
\* that was beside the driver stays its cue's.
ParkEffects(at, c) ==
    [driver |-> IF at.driver = Driver(c, "effect") THEN Unclaimed ELSE at.driver,
     beside |-> [i \in DOMAIN at.beside |->
                    IF at.beside[i].driver = Driver(c, "effect")
                    THEN [at.beside[i] EXCEPT !.driver.to = "parked"] ELSE at.beside[i]]]

\* Fault: only what the cue itself captures is taken, as in a stack that
\* does not track.
TakeCueAlone(at, s, k, atHome) ==
    IF Captures_(ActiveCue(s), k) THEN StartCapture(at, ActiveCue(s), k) ELSE at

\* The stack up to the cue being taken. Its own captures start; one tracked
\* in from an earlier cue starts unless it plays already; what only later
\* cues capture is let go.
TakeCue(at, s, k, atHome) ==
    LET from == TrackedFrom(s, k)
        plays == \/ at.driver.cue = from
                 \/ \E i \in DOMAIN at.beside : at.beside[i].driver.cue = from
    IN IF from = Nobody
       THEN IF CouldDrive(s, k) THEN LetGo(at, s, k, atHome) ELSE at
       ELSE IF from # ActiveCue(s) /\ plays THEN at
       ELSE StartCapture(at, from, k)

Moved(s) == ActiveCue(s) # playing[s]

\* One sequence of track_cue_changes, for one key.
TrackChange(at, s, k, atHome) ==
    LET parked == IF playing[s] = Nobody THEN at ELSE ParkEffects(at, playing[s])
    IN IF ~Moved(s) \/ s \notin rows THEN at
       ELSE IF ~IsOn(s) THEN IF CouldDrive(s, k) THEN LetGo(parked, s, k, atHome) ELSE parked
       ELSE TakeCue(parked, s, k, atHome)

-----------------------------------------------------------------------------
(* An edit of the cues, as the next pass finds it.                         *)

\* Fault: only what the pass was given to begin with moves.
RepointNothing(at, k) == at

\* A standing fade goes to what its cue says now.
Repoint(at, k) ==
    IF at.driver.cue # Nobody /\ at.driver.to # "effect" /\ Captures_(at.driver.cue, k)
    THEN [at EXCEPT !.driver.to = captures[at.driver.cue][k].to] ELSE at

\* A key whose cue lost its capture goes to the sequence that should have it,
\* unless that is the same one, or home.
ReleaseDropped(at, k, atHome) ==
    LET w == Wanted(k, Nobody)
    IN IF at.driver.cue = Nobody \/ Captures_(at.driver.cue, k) THEN at
       ELSE IF w = Nobody THEN ReleaseKey(at, atHome)
       ELSE IF at.driver.cue \in Range(CuesOf[SequenceOf(w)]) THEN at
       ELSE StartCapture(at, w, k)

\* A capture a standing cue gained is started where nothing is on the key, or
\* an earlier cue of the same sequence is.
StartNew(at, k) ==
    LET w == Wanted(k, Nobody)
        earlier == at.driver.cue # w /\ at.driver.cue \in Range(CuesOf[SequenceOf(w)])
        there == /\ at.driver.to # "effect" /\ ~captures[w][k].fx
                 /\ at.driver.to = captures[w][k].to
    IN IF w # Nobody /\ (at.driver = Undriven \/ (earlier /\ ~there))
       THEN StartCapture(at, w, k) ELSE at

\* A take that stopped leaves its key on the way to what is beneath it.
StopTrack(at, k, there) ==
    IF k \in stopped /\ at.driver.to # "effect" /\ ~there
    THEN [at EXCEPT !.driver = SetOutright] ELSE at

-----------------------------------------------------------------------------
(* The pass.                                                               *)

\* Every key after a pass; `there` are the keys that are already where
\* letting go of them would take them.
StageAfter(there) ==
    [k \in Keys |->
        LET now == stage[k]
            mended == IF edited THEN StartNew(ReleaseDropped(Repoint(now, k), k, k \in there), k)
                      ELSE now
        IN FoldLeft(LAMBDA at, s : TrackChange(at, s, k, k \in there),
                    StopTrack(mended, k, k \in there), List)]

\* Fault: a follow is kept when its sequence moves on.
ArmedAfterKept == armed \cup {s \in rows : Moved(s) /\ ActiveCue(s) \in Follows}

\* A sequence that moved has a follow due if the cue it is on follows.
ArmedAfter ==
    {s \in armed : s \notin rows \/ ~Moved(s)}
        \cup {s \in rows : Moved(s) /\ ActiveCue(s) \in Follows}

\* Fault: there is always one more.
NextCuePastTheLast(s) == on[s] + 1

\* There is a cue to go to: the next, or the first of a sequence that goes around.
GoesOn(s) == on[s] < Len(CuesOf[s]) \/ (s \in Wraps /\ CuesOf[s] # <<>>)

NextCue(s) == IF on[s] < Len(CuesOf[s]) THEN on[s] + 1 ELSE IF s \in Wraps THEN 1 ELSE on[s]

\* The follows of `due` go on, where this station leads.
GoOn(due) ==
    LET going == {s \in due \cap rows : Leads /\ GoesOn(s)}
    IN /\ on' = [s \in Ids |-> IF s \in going THEN NextCue(s) ELSE on[s]]
       /\ recent' = Among(Ids \ going, recent) \o Among(going, List)
       /\ owed' = IF going = {} THEN 0 ELSE 1

\* A pass finds the show moved, or a follow due.
Pass(due, there) ==
    /\ owed > 0 \/ due # {}
    /\ due \subseteq ArmedAfter
    /\ stage' = StageAfter(there)
    /\ playing' = [s \in Ids |-> ActiveCue(s)]
    /\ armed' = ArmedAfter \ due
    /\ stopped' = {}
    /\ edited' = FALSE
    /\ GoOn(due)
    /\ UNCHANGED <<rows, captures>>

-----------------------------------------------------------------------------
(* What happens between two passes.                                        *)

\* A command of a sequence says what it is on and when it went there.
Go(s, i) ==
    /\ s \in rows /\ owed < Burst
    /\ on' = [on EXCEPT ![s] = i]
    /\ recent' = LET rest == Among(Ids \ {s}, recent)
                 IN IF i = 0 THEN rest ELSE Append(rest, s)
    /\ owed' = owed + 1
    /\ UNCHANGED <<rows, captures, edited, own>>

GoNext(s) == GoesOn(s) /\ Go(s, NextCue(s))

GoBack(s) ==
    \/ on[s] > 1 /\ Go(s, on[s] - 1)
    \/ on[s] = 1 /\ s \in Wraps /\ Go(s, Len(CuesOf[s]))

\* A cue the sequence does not hold takes it off.
GoToCue(s, c) ==
    Go(s, IF c \in Range(CuesOf[s]) THEN CHOOSE i \in DOMAIN CuesOf[s] : CuesOf[s][i] = c ELSE 0)

Off(s) == on[s] > 0 /\ Go(s, 0)

DeleteSequence(s) ==
    /\ s \in rows /\ owed < Burst
    /\ rows' = rows \ {s}
    /\ on' = [on EXCEPT ![s] = 0]
    /\ recent' = Among(Ids \ {s}, recent)
    /\ owed' = owed + 1
    /\ UNCHANGED <<captures, edited, own>>

\* A cue is stored into.
Edit(e) ==
    /\ owed < Burst /\ captures[e.cue][e.key] # e.says
    /\ captures' = [captures EXCEPT ![e.cue][e.key] = e.says]
    /\ edited' = TRUE /\ owed' = owed + 1
    /\ UNCHANGED <<rows, on, recent, own>>

\* A flow drives a parameter outright.
SetParameter(k) ==
    /\ owed < Burst
    /\ stage' = [stage EXCEPT ![k].driver = SetOutright]
    /\ owed' = owed + 1
    /\ UNCHANGED <<show, edited, playing, armed, stopped>>

\* A take that was playing over a key stops.
ReleaseTrack(k) ==
    /\ owed < Burst
    /\ stopped' = stopped \cup {k}
    /\ owed' = owed + 1
    /\ UNCHANGED <<show, edited, playing, stage, armed>>

\* The station starts again, or another joins: it is handed the show and
\* what is on, and has watched none of it.
Restart ==
    /\ playing' = [s \in Ids |-> Nobody]
    /\ stage' = [k \in Keys |-> [driver |-> Undriven, beside |-> <<>>]]
    /\ armed' = {} /\ stopped' = {}
    /\ edited' = TRUE /\ owed' = Burst
    /\ UNCHANGED show

Init ==
    /\ rows = Ids
    /\ on = [s \in Ids |-> 0]
    /\ recent = <<>>
    /\ captures = Stored
    /\ owed = 0 /\ edited = FALSE
    /\ playing = [s \in Ids |-> Nobody]
    /\ stage = [k \in Keys |-> [driver |-> Undriven, beside |-> <<>>]]
    /\ armed = {} /\ stopped = {}

Command(s) ==
    GoNext(s) \/ GoBack(s) \/ Off(s) \/ DeleteSequence(s) \/ \E c \in Cues : GoToCue(s, c)

Next ==
    \/ \E s \in Ids : Command(s)
    \/ \E e \in Edits : Edit(e)
    \/ \E k \in Flowed : SetParameter(k) \/ ReleaseTrack(k)
    \/ Restart
    \* No key's driver depends on another's, so all of them are there or none.
    \/ \E due \in SUBSET Ids, there \in {{}, Keys} : Pass(due, there)

Spec == Init /\ [][Next]_vars

-----------------------------------------------------------------------------
(* Properties.                                                             *)

Drivers ==
    [cue : Cues, to : Levels \cup {"effect", "parked"}] \cup {Undriven, Unclaimed, SetOutright}

\* Every variable has its type.
TypeOK ==
    /\ rows \subseteq Ids /\ on \in [Ids -> Nat]
    /\ \A s \in Ids : on[s] <= Len(CuesOf[s]) /\ (s \notin rows => on[s] = 0)
    /\ recent \in Seq(Ids) /\ IsInjective(recent) /\ Range(recent) = {s \in Ids : on[s] > 0}
    /\ captures \in [Cues -> [Keys -> Captures \cup {NoCapture}]]
    /\ owed \in 0..Burst /\ edited \in BOOLEAN
    /\ playing \in [Ids -> Cues \cup {Nobody}] /\ armed \subseteq Ids /\ stopped \subseteq Keys
    /\ stage \in [Keys -> [driver : Drivers, beside : Seq([of : Ids, driver : Drivers])]]

Settled == owed = 0

\* The keys an edit gives to a cue that does not capture them, or takes from one.
Recapturing ==
    {e.key : e \in {f \in Edits : f.says = NoCapture \/ Stored[f.cue][f.key] = NoCapture}}

\* A sequence deleted while it is on leaves what it drove where it is.
LeftBehind(k) == stage[k].driver.cue # Nobody /\ SequenceOf(stage[k].driver.cue) = Nobody

\* release_sequence and take_cue: once a pass has run, what drives a key or
\* plays beside it belongs to a sequence that is on. A key another sequence
\* that is on could drive later is left where it was, and a sequence that was
\* deleted lets go of nothing, of what was left to it least of all.  Where an edit
\* gives a key or takes it this does not hold (README, "Met on the way").
NothingOffDrives ==
    Settled => \A k \in Keys \ Recapturing :
        /\ LET s == SequenceOf(stage[k].driver.cue)
           IN \/ s = Nobody \/ IsOn(s)
              \/ \E t \in rows : IsOn(t) /\ CouldDrive(t, k) /\ ~Tracks(t, k)
              \/ \E t \in Ids \ rows : CouldDrive(t, k)
        /\ \A i \in DOMAIN stage[k].beside :
               stage[k].beside[i].of \in rows => IsOn(stage[k].beside[i].of)

\* Merge: no sequence is on a key twice, as its driver and beside it or
\* beside it twice over.
EachOnce ==
    \A k \in Keys :
        LET b == stage[k].beside
        IN \A i \in DOMAIN b : /\ b[i].of # SequenceOf(stage[k].driver.cue)
                               /\ \A j \in DOMAIN b : b[i].of = b[j].of => i = j

\* take_cue: once a pass has run, a key that a sequence that is on tracks is
\* driven by a cue of one that is on, whatever was taken, left, taken off or
\* stored between two passes, unless a flow set it or a take let it go since.
\* Where an edit gives a key or takes it this does not hold.
TrackedIsDriven ==
    Settled => \A k \in Keys \ Recapturing :
        (\E s \in rows : Tracks(s, k))
            => \/ IsOn(SequenceOf(stage[k].driver.cue))
               \/ stage[k].driver = SetOutright
               \/ LeftBehind(k)

\* The levels a fade of a cue may head to: what the cue captures, and where it
\* lost its capture what another of its sequence does.
SaysNow(c, k) ==
    IF Captures_(c, k) THEN {captures[c][k].to}
    ELSE {captures[o][k].to : o \in {o \in Cues : Captures_(o, k)
                              /\ \E s \in Ids : {c, o} \subseteq Range(CuesOf[s])}}

\* repoint_edited_captures and start_new_captures: once a pass has run, a fade
\* on a key heads to what the cue it belongs to says now, or, where that cue
\* lost its capture and another of its sequence says the same, to what that one
\* says. What is beside a driver is not looked at.
StandingIsCurrent ==
    Settled => \A k \in Keys \ Intensity :
        LET d == stage[k].driver
        IN d.cue # Nobody /\ d.to # "effect" => d.to \in SaysNow(d.cue, k)

Plays(s, k) ==
    \/ SequenceOf(stage[k].driver.cue) = s
    \/ \E i \in DOMAIN stage[k].beside : stage[k].beside[i].of = s

\* A pass that finds nothing edited and moves none but sequences that merge.
MergingPass ==
    /\ owed' = 0 /\ ~edited /\ \A s \in Ids : Moved(s) => s \in Htp
    /\ UNCHANGED show /\ playing' = [s \in Ids |-> ActiveCue(s)]

\* The fade of a sequence's that a take which stopped turns into nobody's.
TakenOver(s, k) ==
    k \in stopped /\ stage[k].driver.to # "effect" /\ SequenceOf(stage[k].driver.cue) = s

OthersKept ==
    \A k \in Intensity, s \in rows :
        IsOn(s) /\ ~Moved(s) /\ Plays(s, k) /\ ~TakenOver(s, k) => Plays(s, k)'

\* Merge::Htp: what the others play on an intensity is kept by a pass in
\* which only sequences that merge so move, but for a fade that a take which
\* stopped was playing over: let_go_of_stopped_tracks replaces it by one of no
\* cue's, and the sequence no longer plays the key.
HtpKeepsTheOthers == [][MergingPass => OthersKept]_vars

\* track_cue_changes: once a pass has run, a follow is due only for a sequence
\* that is on a cue that follows: one that a pass found moved, sent back or taken
\* off before its follow came due is not sent on by it.  One that is off and on the
\* same cue again within a burst has not moved, and keeps its follow.
FollowsBelong == Settled => \A s \in armed \cap rows : ActiveCue(s) \in Follows
=============================================================================
