--------------------------- MODULE Playback_proofs ---------------------------
(***************************************************************************)
(* For any sequences, cues and keys, any commands and edits between two    *)
(* passes and any follows: what a pass leaves on the stage.                *)
(***************************************************************************)
EXTENDS Playback, Library_proofs

-----------------------------------------------------------------------------
(* Types.                                                                  *)

Layers == [of : Ids, driver : Drivers]
Spots == [driver : Drivers, beside : Seq(Layers)]

\* The show has its types.
ShowOK ==
    /\ rows \subseteq Ids /\ on \in [Ids -> Nat]
    /\ \A s \in Ids : on[s] <= Len(CuesOf[s]) /\ (s \notin rows => on[s] = 0)
    /\ recent \in Seq(Ids) /\ IsInjective(recent) /\ Range(recent) = {s \in Ids : on[s] > 0}
    /\ captures \in [Cues -> [Keys -> Captures \cup {NoCapture}]]

\* What a sequence was on is a cue of its own.
PlayedOK == \A s \in Ids : playing[s] \in Range(CuesOf[s]) \cup {Nobody}

LEMMA NobodyIsNoCue == Nobody \notin Cues /\ Nobody \notin Ids
BY PlaybackAssumption

LEMMA CuesAreCues ==
    ASSUME NEW s \in Ids
    PROVE  /\ CuesOf[s] \in Seq(Cues) /\ Range(CuesOf[s]) \subseteq Cues
           /\ Len(CuesOf[s]) \in Nat /\ DOMAIN CuesOf[s] = 1 .. Len(CuesOf[s])
           /\ \A i \in 1 .. Len(CuesOf[s]) : CuesOf[s][i] \in Range(CuesOf[s])
<1>1. CuesOf[s] \in Seq(Cues)
  BY PlaybackAssumption
<1>2. Len(CuesOf[s]) \in Nat /\ DOMAIN CuesOf[s] = 1 .. Len(CuesOf[s])
  BY <1>1, LenProperties
<1> QED BY <1>1, <1>2 DEF Range, Cues

\* A cue is in one sequence.
LEMMA OneSequence ==
    ASSUME NEW s \in Ids, NEW t \in Ids, NEW c, c \in Range(CuesOf[s]), c \in Range(CuesOf[t])
    PROVE  s = t
<1> SUFFICES ASSUME s # t PROVE FALSE
  OBVIOUS
<1>1. Range(CuesOf[s]) \cap Range(CuesOf[t]) = {}
  BY PlaybackAssumption
<1> QED BY <1>1

LEMMA DriversAre ==
    /\ \A c \in Cues, to \in Levels \cup {"effect", "parked"} :
            Driver(c, to) \in Drivers /\ Driver(c, to).cue = c /\ Driver(c, to).to = to
    /\ Undriven \in Drivers /\ Unclaimed \in Drivers /\ Undriven # Unclaimed
    /\ Undriven.cue = Nobody /\ Unclaimed.cue = Nobody
    /\ SetOutright \in Drivers /\ SetOutright.cue = Nobody /\ SetOutright.to = "set"
    /\ SetOutright # Undriven /\ SetOutright # Unclaimed
    /\ \A d \in Drivers : d.cue \in Cues \cup {Nobody}
    /\ \A d \in Drivers : d.cue \in Cues => d.to \in Levels \cup {"effect", "parked"}
                                            /\ d = Driver(d.cue, d.to)
BY PlaybackAssumption DEF Driver, Drivers, Undriven, Unclaimed, SetOutright

-----------------------------------------------------------------------------
(* Whose a cue is, and which one is wanted.                                *)

LEMMA ActiveCueIs ==
    ASSUME ShowOK, NEW s \in Ids
    PROVE  /\ IsOn(s) => ActiveCue(s) \in Range(CuesOf[s]) /\ ActiveCue(s) = CuesOf[s][on[s]]
                         /\ ActiveCue(s) # Nobody /\ on[s] \in DOMAIN CuesOf[s] /\ s \in rows
           /\ ~IsOn(s) => ActiveCue(s) = Nobody
<1>1. ASSUME IsOn(s) PROVE on[s] \in 1 .. Len(CuesOf[s]) /\ s \in rows
  BY <1>1, CuesAreCues DEF ShowOK, IsOn
<1> QED BY <1>1, CuesAreCues, NobodyIsNoCue DEF ActiveCue

LEMMA SequenceOfIs ==
    ASSUME ShowOK, NEW c
    PROVE  /\ SequenceOf(c) # Nobody => SequenceOf(c) \in rows /\ SequenceOf(c) \in Ids
                                        /\ c \in Range(CuesOf[SequenceOf(c)])
           /\ \A s \in Ids : c \in Range(CuesOf[s]) =>
                    (s \in rows => SequenceOf(c) = s) /\ (s \notin rows => SequenceOf(c) = Nobody)
<1>1. rows \subseteq Ids
  BY DEF ShowOK
<1>2. CASE \E s \in rows : c \in Range(CuesOf[s])
  <2>1. SequenceOf(c) = CHOOSE s \in rows : c \in Range(CuesOf[s])
    BY <1>2, Zenon DEF SequenceOf
  <2>2. SequenceOf(c) \in rows /\ c \in Range(CuesOf[SequenceOf(c)])
    BY <1>2, <2>1
  <2> QED BY <1>1, <2>2, OneSequence
<1>3. CASE ~ \E s \in rows : c \in Range(CuesOf[s])
  BY <1>3 DEF SequenceOf
<1> QED BY <1>2, <1>3

LEMMA NobodysSequence ==
    ASSUME ShowOK
    PROVE  SequenceOf(Nobody) = Nobody
<1>1. \A s \in Ids : Nobody \notin Range(CuesOf[s])
  BY CuesAreCues, NobodyIsNoCue
<1> QED BY <1>1, SequenceOfIs

\* The highest of some numbers up to a bound.
LEMMA HighestOf ==
    ASSUME NEW n \in Nat, NEW S \in SUBSET (1..n), S # {}
    PROVE  \E i \in S : \A j \in S : j <= i
<1>1. S \in SUBSET Nat /\ S # {} /\ \A x \in S : x <= n
  OBVIOUS
<1> QED BY <1>1, MaxBounds

\* What a sequence tracks a key from is a cue of its own that captures it.
LEMMA TrackedFromIs ==
    ASSUME ShowOK, NEW s \in Ids, NEW k
    PROVE  /\ Tracks(s, k) => /\ IsOn(s) /\ s \in rows /\ CouldDrive(s, k)
                              /\ TrackedFrom(s, k) \in Range(CuesOf[s])
                              /\ Captures_(TrackedFrom(s, k), k)
           /\ Tracks(s, k) <=> IsOn(s) /\ \E i \in 1 .. on[s] : Captures_(CuesOf[s][i], k)
<1> PICK having : having = {i \in 1 .. on[s] : Captures_(CuesOf[s][i], k)}
  OBVIOUS
<1>1. TrackedFrom(s, k) = IF ~IsOn(s) \/ having = {} THEN Nobody
                          ELSE CuesOf[s][CHOOSE i \in having : \A j \in having : j <= i]
  BY DEF TrackedFrom
<1>2. CASE ~IsOn(s) \/ having = {}
  BY <1>1, <1>2 DEF Tracks
<1>3. CASE IsOn(s) /\ having # {}
  <2>1. on[s] \in Nat /\ having \in SUBSET (1 .. on[s]) /\ on[s] <= Len(CuesOf[s]) /\ s \in rows
    BY <1>3 DEF ShowOK, IsOn
  <2>2. \E i \in having : \A j \in having : j <= i
    BY <1>3, <2>1, HighestOf
  <2> PICK i : i = CHOOSE h \in having : \A j \in having : j <= h
    OBVIOUS
  <2>3. i \in having /\ TrackedFrom(s, k) = CuesOf[s][i]
    BY <1>1, <1>3, <2>2
  <2>4. i \in 1 .. Len(CuesOf[s]) /\ Captures_(CuesOf[s][i], k)
    BY <2>1, <2>3, CuesAreCues
  <2>5. CuesOf[s][i] \in Range(CuesOf[s]) /\ CuesOf[s][i] \in Cues
    BY <2>4, CuesAreCues
  <2> QED BY <1>3, <2>1, <2>3, <2>4, <2>5, NobodyIsNoCue DEF Tracks, CouldDrive
<1> QED BY <1>2, <1>3

\* Wanted is the cue of a sequence that is on and captures the key, if one does.
WantedOf(w, t, k, except) ==
    /\ t \in Ids /\ t # except /\ IsOn(t) /\ t \in rows /\ w = TrackedFrom(t, k)
    /\ w \in Range(CuesOf[t]) /\ w \in Cues /\ Captures_(w, k) /\ SequenceOf(w) = t

LEMMA WantedIs ==
    ASSUME ShowOK, NEW k, NEW except
    PROVE  /\ Wanted(k, except) # Nobody => \E t : WantedOf(Wanted(k, except), t, k, except)
           /\ Wanted(k, except) = Nobody => \A t \in Ids : t # except => ~Tracks(t, k)
<1> PICK those : those = {i \in DOMAIN recent : recent[i] # except /\ Tracks(recent[i], k)}
  OBVIOUS
<1>1. Wanted(k, except) =
        IF those = {} THEN Nobody
        ELSE TrackedFrom(recent[CHOOSE i \in those : \A j \in those : j <= i], k)
  BY DEF Wanted
<1>2. /\ recent \in Seq(Ids) /\ Range(recent) = {s \in Ids : on[s] > 0}
      /\ Len(recent) \in Nat /\ DOMAIN recent = 1 .. Len(recent)
  BY LenProperties DEF ShowOK
<1>3. CASE those = {}
  <2>1. ASSUME NEW t \in Ids, t # except, Tracks(t, k) PROVE FALSE
    <3>1. t \in Range(recent)
      BY <1>2, <2>1, TrackedFromIs DEF IsOn
    <3>2. PICK i \in DOMAIN recent : recent[i] = t
      BY <3>1 DEF Range
    <3> QED BY <1>3, <2>1, <3>2
  <2> QED BY <1>1, <1>3, <2>1
<1>4. CASE those # {}
  <2>1. those \in SUBSET (1 .. Len(recent))
    BY <1>2
  <2>2. \E i \in those : \A j \in those : j <= i
    BY <1>2, <1>4, <2>1, HighestOf
  <2> PICK i : i = CHOOSE h \in those : \A j \in those : j <= h
    OBVIOUS
  <2>3. i \in those /\ Wanted(k, except) = TrackedFrom(recent[i], k)
    BY <1>1, <1>4, <2>2
  <2> PICK t : t = recent[i]
    OBVIOUS
  <2>4. t \in Ids /\ t # except /\ Tracks(t, k)
    BY <1>2, <2>3, ElementOfSeq
  <2> PICK w : w = Wanted(k, except)
    OBVIOUS
  <2>5. w = TrackedFrom(t, k) /\ IsOn(t) /\ t \in rows /\ w \in Range(CuesOf[t]) /\ Captures_(w, k)
    BY <2>3, <2>4, TrackedFromIs
  <2>6. w \in Cues /\ SequenceOf(w) = t
    BY <2>4, <2>5, CuesAreCues, SequenceOfIs
  <2>7. WantedOf(w, t, k, except)
    BY <2>4, <2>5, <2>6 DEF WantedOf
  <2> QED BY <2>6, <2>7, NobodyIsNoCue
<1> QED BY <1>3, <1>4

-----------------------------------------------------------------------------
(* What is beside a driver.                                                *)

LEMMA FrontAndLast ==
    ASSUME NEW V, NEW s \in Seq(V), IsInjective(s), s # <<>>
    PROVE  /\ Front(s) \in Seq(V) /\ IsInjective(Front(s))
           /\ Last(s) \in Range(s)
           /\ Range(Front(s)) = Range(s) \ {Last(s)}
<1> PICK n : n = Len(s)
  OBVIOUS
<1> PICK f : f = Front(s)
  OBVIOUS
<1>1. n \in Nat \ {0} /\ DOMAIN s = 1..n /\ \A i \in 1..n : s[i] \in V
  BY LenProperties, ElementOfSeq, EmptySeq
<1>2. f = [i \in 1 .. (n - 1) |-> s[i]]
  BY <1>1 DEF Front
<1>3. f \in Seq(V) /\ DOMAIN f = 1 .. (n - 1)
  BY <1>1, <1>2
<1>4. Last(s) = s[n]
  BY DEF Last
<1>5. IsInjective(f)
  BY <1>1, <1>2, <1>3 DEF IsInjective
<1>6. \A i \in 1..n : s[i] = s[n] => i = n
  BY <1>1 DEF IsInjective
<1>7. ASSUME NEW x \in Range(f) PROVE x \in Range(s) /\ x # s[n]
  <2>1. PICK i \in 1 .. (n - 1) : x = s[i]
    BY <1>2, <1>3, <1>7 DEF Range
  <2>2. i \in 1..n /\ i # n
    BY <1>1
  <2> QED BY <1>1, <1>6, <2>1, <2>2 DEF Range
<1>8. ASSUME NEW x \in Range(s), x # s[n] PROVE x \in Range(f)
  <2>1. PICK i \in 1..n : x = s[i]
    BY <1>1, <1>8 DEF Range
  <2>2. i \in 1 .. (n - 1)
    BY <1>1, <1>8, <2>1
  <2> QED BY <1>2, <1>3, <2>1, <2>2 DEF Range
<1>9. s[n] \in Range(s)
  BY <1>1 DEF Range
<1> QED BY <1>3, <1>4, <1>5, <1>7, <1>8, <1>9

LEMMA WithoutIs ==
    ASSUME NEW b \in Seq(Layers), NEW s
    PROVE  /\ Without(b, s) \in Seq(Layers)
           /\ Range(Without(b, s)) = {l \in Range(b) : l.of # s}
           /\ IsInjective(b) => IsInjective(Without(b, s))
<1> PICK S : S = {l \in Range(b) : l.of # s}
  OBVIOUS
<1>1. Without(b, s) = Among(S, b)
  BY DEF Without
<1> QED BY <1>1, AmongHas

LEMMA NoneBeside ==
    ASSUME NEW V, NEW b \in Seq(V)
    PROVE  b = <<>> <=> Range(b) = {}
<1>1. b # <<>> => Range(b) # {}
  <2> SUFFICES ASSUME b # <<>> PROVE 1 \in DOMAIN b
    BY DEF Range
  <2> QED BY LenProperties, EmptySeq
<1>2. Range(<<>>) = {}
  BY DEF Range
<1> QED BY <1>1, <1>2

LEMMA OneMoreBeside ==
    ASSUME NEW b \in Seq(Layers), IsInjective(b), NEW l \in Layers, l \notin Range(b)
    PROVE  /\ Append(b, l) \in Seq(Layers) /\ IsInjective(Append(b, l))
           /\ Range(Append(b, l)) = Range(b) \cup {l}
<1>1. IsSeq(b)
  BY DEF IsSeq
<1>2. Range(Append(b, l)) = Range(b) \cup {l}
  BY <1>1, RangeOfAppended
<1>3. IsInjective(Append(b, l))
  <2> PICK a : a = Append(b, l)
    OBVIOUS
  <2> QED BY OnceMore
<1>4. Append(b, l) \in Seq(Layers)
  BY AppendProperties
<1> QED BY <1>2, <1>3, <1>4

\* What is beside belongs to its sequence, which is there once, and is not the
\* driver's.
Placed(at) ==
    /\ IsInjective(at.beside)
    /\ \A l \in Range(at.beside) : /\ l.driver.cue \in Range(CuesOf[l.of])
                                   /\ at.driver.cue \notin Range(CuesOf[l.of])
    /\ \A l, m \in Range(at.beside) : l.of = m.of => l = m

OnKey(k) == {at \in Spots : Placed(at) /\ (k \notin Intensity => at.beside = <<>>)}

LEMMA SpotIs ==
    ASSUME NEW at \in Spots
    PROVE  /\ at.driver \in Drivers /\ at.beside \in Seq(Layers)
           /\ Range(at.beside) \subseteq Layers
           /\ \A l \in Range(at.beside) : l \in Layers /\ l.of \in Ids /\ l.driver \in Drivers
<1>1. at.driver \in Drivers /\ at.beside \in Seq(Layers)
  BY DEF Spots
<1>2. Range(at.beside) \subseteq Layers
  <2> PICK b : b = at.beside
    OBVIOUS
  <2> QED BY <1>1, LenProperties, ElementOfSeq DEF Range
<1> QED BY <1>1, <1>2 DEF Layers

LEMMA NoneIsPlaced ==
    ASSUME NEW k, NEW d \in Drivers
    PROVE  [driver |-> d, beside |-> <<>>] \in OnKey(k)
<1>1. <<>> \in Seq(Layers) /\ Range(<<>>) = {} /\ IsInjective(<<>>)
  BY EmptySeq DEF Range, IsInjective
<1> QED BY <1>1 DEF OnKey, Spots, Placed

-----------------------------------------------------------------------------
(* A capture begins.                                                       *)

\* What a capture of a sequence leaves beside it.
Joined(at, s) ==
    LET other == PrimaryOwner(at)
    IN IF other # Nobody /\ other # s /\ IsOn(other)
       THEN {[of |-> other, driver |-> at.driver]} ELSE {}

LEMMA StartCaptureIs ==
    ASSUME ShowOK, NEW k \in Keys, NEW at \in OnKey(k), NEW s \in rows,
           NEW c \in Range(CuesOf[s]), Captures_(c, k), NEW new, new = StartCapture(at, c, k)
    PROVE  /\ new \in OnKey(k)
           /\ new.driver = Driver(c, IF captures[c][k].fx THEN "effect" ELSE captures[c][k].to)
           /\ new.driver.cue = c
           /\ Range(new.beside) = IF s \in Htp /\ k \in Intensity
                                  THEN {l \in Range(at.beside) : l.of # s} \cup Joined(at, s)
                                  ELSE {}
<1> PICK other : other = PrimaryOwner(at)
  OBVIOUS
<1> PICK to : to = IF captures[c][k].fx THEN "effect" ELSE captures[c][k].to
  OBVIOUS
<1> PICK b : b = at.beside
  OBVIOUS
<1> PICK kept : kept = Without(b, s)
  OBVIOUS
<1> PICK l : l = [of |-> other, driver |-> at.driver]
  OBVIOUS
<1>1. s \in Ids /\ c \in Cues /\ SequenceOf(c) = s
  BY CuesAreCues, SequenceOfIs DEF ShowOK
<1>2. to \in Levels \cup {"effect", "parked"}
  <2>1. captures[c][k] \in Captures
    BY <1>1 DEF ShowOK, Captures_
  <2> QED BY <2>1 DEF Captures
<1>3. Driver(c, to) \in Drivers /\ Driver(c, to).cue = c
  BY <1>1, <1>2, DriversAre
<1>4. at \in Spots /\ Placed(at) /\ b \in Seq(Layers) /\ at.driver \in Drivers
      /\ IsInjective(b) /\ \A m \in Range(b) : m \in Layers
  BY SpotIs DEF OnKey, Placed
<1>5. kept \in Seq(Layers) /\ Range(kept) = {m \in Range(b) : m.of # s} /\ IsInjective(kept)
  BY <1>4, WithoutIs
<1> DEFINE joins == other # Nobody /\ other # s /\ IsOn(other)
<1>6. new = [driver |-> Driver(c, to),
             beside |-> IF s \in Htp /\ k \in Intensity
                        THEN IF joins THEN Append(kept, l) ELSE kept
                        ELSE <<>>]
  BY <1>1, Zenon DEF StartCapture
<1>7. Joined(at, s) = IF joins THEN {l} ELSE {}
  BY DEF Joined
<1>8. joins => /\ l \in Layers /\ l \notin Range(kept)
               /\ other \in Ids /\ other \in rows /\ at.driver.cue \in Range(CuesOf[other])
  <2> SUFFICES ASSUME joins
               PROVE  /\ l \in Layers /\ l \notin Range(kept)
                      /\ other \in Ids /\ other \in rows /\ at.driver.cue \in Range(CuesOf[other])
    OBVIOUS
  <2>1. other \in Ids /\ other \in rows /\ at.driver.cue \in Range(CuesOf[other])
    BY SequenceOfIs DEF PrimaryOwner
  <2>2. l \in Layers /\ l.of = other
    BY <1>4, <2>1 DEF Layers
  <2> QED BY <1>4, <1>5, <2>1, <2>2 DEF Placed
<1> HIDE DEF joins
<1> PICK nb : nb = new.beside
  OBVIOUS
<1>9. /\ new = [driver |-> Driver(c, to), beside |-> nb]
      /\ nb = IF s \in Htp /\ k \in Intensity THEN IF joins THEN Append(kept, l) ELSE kept ELSE <<>>
  BY <1>6
<1>10. /\ nb \in Seq(Layers) /\ IsInjective(nb)
       /\ Range(nb) = IF s \in Htp /\ k \in Intensity
                      THEN {m \in Range(b) : m.of # s} \cup Joined(at, s) ELSE {}
  <2>1. CASE s \in Htp /\ k \in Intensity /\ joins
    <3>1. nb = Append(kept, l) /\ Joined(at, s) = {l}
      BY <1>7, <1>9, <2>1
    <3>2. /\ Append(kept, l) \in Seq(Layers) /\ IsInjective(Append(kept, l))
          /\ Range(Append(kept, l)) = Range(kept) \cup {l}
      BY <1>5, <1>8, <2>1, OneMoreBeside
    <3> QED BY <1>5, <2>1, <3>1, <3>2
  <2>2. CASE s \in Htp /\ k \in Intensity /\ ~joins
    BY <1>5, <1>7, <1>9, <2>2
  <2>3. CASE ~(s \in Htp /\ k \in Intensity)
    <3>1. nb = <<>>
      BY <1>9, <2>3
    <3>2. Range(<<>>) = {} /\ IsInjective(<<>>) /\ <<>> \in Seq(Layers)
      BY EmptySeq DEF Range, IsInjective
    <3> QED BY <2>3, <3>1, <3>2
  <2> QED BY <2>1, <2>2, <2>3
<1>11. \A m \in Range(nb) : (m \in Range(b) /\ m.of # s) \/ (joins /\ m = l)
  BY <1>7, <1>10
<1>12. ASSUME NEW m \in Range(nb)
       PROVE  m.driver.cue \in Range(CuesOf[m.of]) /\ c \notin Range(CuesOf[m.of])
  <2>1. CASE m \in Range(b) /\ m.of # s
    <3>1. m.of \in Ids /\ m.driver.cue \in Range(CuesOf[m.of])
      BY <1>4, <2>1 DEF Placed, Layers
    <3> QED BY <1>1, <2>1, <3>1, OneSequence
  <2>2. CASE joins /\ m = l
    <3>1. other \in Ids /\ at.driver.cue \in Range(CuesOf[other]) /\ other # s
      BY <1>8, <2>2 DEF joins
    <3> QED BY <1>1, <2>2, <3>1, OneSequence
  <2> QED BY <1>11, <2>1, <2>2
<1>13. ASSUME NEW m \in Range(nb), NEW n \in Range(nb), m.of = n.of PROVE m = n
  <2>1. joins => \A x \in Range(b) : x.of # other
    BY <1>4, <1>8 DEF Placed
  <2>2. l.of = other
    OBVIOUS
  <2> QED BY <1>4, <1>11, <1>13, <2>1, <2>2 DEF Placed
<1>14. Placed(new)
  BY <1>3, <1>9, <1>10, <1>12, <1>13 DEF Placed
<1>15. new \in Spots
  BY <1>3, <1>9, <1>10 DEF Spots
<1>16. k \notin Intensity => new.beside = <<>>
  BY <1>9
<1>17. new \in OnKey(k)
  BY <1>14, <1>15, <1>16 DEF OnKey
<1> QED BY <1>3, <1>9, <1>10, <1>17

-----------------------------------------------------------------------------
(* A sequence lets a key go.                                               *)

Others(at, s) == {l \in Range(at.beside) : l.of # s}

\* Another sequence that is on could drive the key.
Driven(s, k) == \E t \in rows \ {s} : IsOn(t) /\ CouldDrive(t, k)

\* It is left to the one that is on and holds it,
Stays(at, new, s) ==
    /\ PrimaryOwner(at) # Nobody /\ PrimaryOwner(at) # s /\ IsOn(PrimaryOwner(at))
    /\ new.driver = at.driver /\ Range(new.beside) = Others(at, s)

\* handed to one beside it,
Promoted(at, new, s) ==
    \E l \in Others(at, s) : new.driver = l.driver /\ Range(new.beside) = Others(at, s) \ {l}

\* left where it is for one that does not say it yet,
Left(at, new, s, k) ==
    /\ Others(at, s) = {} /\ new.beside = <<>> /\ new.driver = at.driver /\ Driven(s, k)
    /\ at.driver = Undriven \/ \A t \in Ids : t # s => ~Tracks(t, k)

\* started by one that says it,
Handed(at, new, s, k) ==
    /\ Others(at, s) = {}
    /\ \E w, t : /\ WantedOf(w, t, k, s) /\ new.driver.cue = w
                 /\ new.driver = Driver(w, IF captures[w][k].fx THEN "effect" ELSE captures[w][k].to)
                 /\ Range(new.beside) \subseteq Joined(at, t)

\* or goes home.
GoesHome(at, new, s, k) ==
    /\ Others(at, s) = {} /\ new.beside = <<>> /\ ~Driven(s, k)
    /\ new.driver = Undriven \/ new.driver = Unclaimed

\* None but the one that lets go is on and drives it.
NotHeld(at, s) == PrimaryOwner(at) \in {Nobody, s} \/ ~IsOn(PrimaryOwner(at))

LetGoEnds(at, new, s, k) ==
    \/ Stays(at, new, s)
    \/ /\ NotHeld(at, s)
       /\ Promoted(at, new, s) \/ Left(at, new, s, k) \/ Handed(at, new, s, k) \/ GoesHome(at, new, s, k)

LEMMA LetGoIs ==
    ASSUME ShowOK, NEW k \in Keys, NEW at \in OnKey(k), NEW s \in rows, NEW home,
           NEW new, new = LetGo(at, s, k, home)
    PROVE  new \in OnKey(k) /\ LetGoEnds(at, new, s, k)
<1> PICK rest : rest = Without(at.beside, s)
  OBVIOUS
<1> PICK left : left = [at EXCEPT !.beside = rest]
  OBVIOUS
<1> PICK owner : owner = PrimaryOwner(at)
  OBVIOUS
<1> PICK next : next = Wanted(k, s)
  OBVIOUS
<1>1. at \in Spots /\ Placed(at) /\ at.beside \in Seq(Layers) /\ at.driver \in Drivers
      /\ IsInjective(at.beside) /\ at = [driver |-> at.driver, beside |-> at.beside]
  BY SpotIs DEF OnKey, Placed, Spots
<1>2. rest \in Seq(Layers) /\ Range(rest) = Others(at, s) /\ IsInjective(rest)
  BY <1>1, WithoutIs DEF Others
<1>3. left = [driver |-> at.driver, beside |-> rest]
  BY <1>1
<1>4. \A l \in Range(rest) : l \in Range(at.beside)
  BY <1>2 DEF Others
<1>5. k \notin Intensity => at.beside = <<>>
  BY DEF OnKey
<1>6. k \notin Intensity => rest = <<>>
  <2> SUFFICES ASSUME k \notin Intensity PROVE rest = <<>>
    OBVIOUS
  <2>1. Range(at.beside) = {}
    BY <1>5 DEF Range
  <2> QED BY <1>2, <1>4, <2>1, NoneBeside
<1>7. left \in OnKey(k) /\ left.driver = at.driver /\ left.beside = rest
  <2>1. left \in Spots
    BY <1>1, <1>2, <1>3 DEF Spots
  <2>2. Placed(left)
    BY <1>1, <1>2, <1>3, <1>4 DEF Placed
  <2> QED BY <1>3, <1>6, <2>1, <2>2 DEF OnKey
<1> DEFINE holds == owner \notin {Nobody, s} /\ IsOn(owner)
<1>8. new = IF holds THEN left
            ELSE IF rest # <<>> THEN [driver |-> Last(rest).driver, beside |-> Front(rest)]
            ELSE IF Driven(s, k)
            THEN IF at.driver = Undriven \/ next = Nobody THEN left ELSE StartCapture(left, next, k)
            ELSE ReleaseKey(left, home)
  <2>1. left.beside = rest
    BY <1>7
  <2> QED BY <2>1, Zenon DEF LetGo, Driven
<1>9. CASE holds
  BY <1>2, <1>7, <1>8, <1>9 DEF Stays, LetGoEnds
<1>12. ~holds => NotHeld(at, s)
  BY DEF NotHeld
<1>10. CASE ~holds /\ rest # <<>>
  <2> PICK l : l = Last(rest)
    OBVIOUS
  <2> PICK f : f = Front(rest)
    OBVIOUS
  <2>1. /\ f \in Seq(Layers) /\ IsInjective(f) /\ l \in Range(rest)
        /\ Range(f) = Range(rest) \ {l}
    BY <1>2, <1>10, FrontAndLast
  <2>2. new = [driver |-> l.driver, beside |-> f]
    BY <1>8, <1>10
  <2>3. l \in Range(at.beside) /\ l.driver \in Drivers /\ l.of \in Ids
        /\ l.driver.cue \in Range(CuesOf[l.of])
    BY <1>1, <1>4, <2>1, SpotIs DEF Placed
  <2>4. ASSUME NEW m \in Range(f)
        PROVE  m.driver.cue \in Range(CuesOf[m.of]) /\ l.driver.cue \notin Range(CuesOf[m.of])
    <3>1. m \in Range(at.beside) /\ m # l
      BY <1>4, <2>1
    <3>2. m.of \in Ids /\ m.driver.cue \in Range(CuesOf[m.of]) /\ m.of # l.of
      BY <1>1, <2>3, <3>1, SpotIs DEF Placed
    <3> QED BY <2>3, <3>2, OneSequence
  <2>5. \A m, n \in Range(f) : m.of = n.of => m = n
    BY <1>1, <1>4, <2>1 DEF Placed
  <2>6. Placed(new)
    BY <2>1, <2>2, <2>4, <2>5 DEF Placed
  <2>7. new \in Spots
    BY <2>1, <2>2, <2>3 DEF Spots
  <2>8. k \in Intensity
    BY <1>6, <1>10
  <2>9. Promoted(at, new, s)
    BY <1>2, <2>1, <2>2 DEF Promoted
  <2> QED BY <1>10, <1>12, <2>6, <2>7, <2>8, <2>9 DEF OnKey, LetGoEnds
<1>11. CASE ~holds /\ rest = <<>>
  <2>1. Others(at, s) = {}
    BY <1>2, <1>11, NoneBeside
  <2>2. CASE Driven(s, k) /\ (at.driver = Undriven \/ next = Nobody)
    <3>1. new = left
      BY <1>8, <1>11, <2>2
    <3>2. next = Nobody => \A t \in Ids : t # s => ~Tracks(t, k)
      BY WantedIs
    <3> QED BY <1>7, <1>11, <1>12, <2>1, <2>2, <3>1, <3>2 DEF Left, LetGoEnds
  <2>3. CASE Driven(s, k) /\ ~(at.driver = Undriven \/ next = Nobody)
    <3>1. new = StartCapture(left, next, k)
      BY <1>8, <1>11, <2>3
    <3>2. PICK t : WantedOf(next, t, k, s)
      BY <2>3, WantedIs
    <3>3. t \in rows /\ next \in Range(CuesOf[t]) /\ Captures_(next, k)
      BY <3>2 DEF WantedOf
    <3>4. /\ new \in OnKey(k) /\ new.driver.cue = next
          /\ new.driver = Driver(next, IF captures[next][k].fx THEN "effect" ELSE captures[next][k].to)
          /\ Range(new.beside) = IF t \in Htp /\ k \in Intensity
                                 THEN {l \in Range(left.beside) : l.of # t} \cup Joined(left, t)
                                 ELSE {}
      <4>1. ShowOK /\ k \in Keys /\ left \in OnKey(k)
        BY <1>7
      <4> QED BY ONLY <3>1, <3>3, <4>1, StartCaptureIs
    <3>5. Range(left.beside) = {}
      BY <1>2, <1>7, <2>1
    <3>6. Joined(left, t) = Joined(at, t)
      BY <1>7 DEF Joined, PrimaryOwner
    <3>7. Range(new.beside) \subseteq Joined(at, t)
      BY <3>4, <3>5, <3>6
    <3>8. Handed(at, new, s, k)
      BY <2>1, <3>2, <3>4, <3>7 DEF Handed
    <3> QED BY <1>11, <1>12, <3>4, <3>8 DEF LetGoEnds
  <2>4. CASE ~Driven(s, k)
    <3>1. new = ReleaseKey(left, home)
      BY <1>8, <1>11, <2>4
    <3> PICK d : d = IF home \/ at.driver = Undriven THEN Undriven ELSE Unclaimed
      OBVIOUS
    <3>2. new = [driver |-> d, beside |-> <<>>]
      BY <1>3, <1>7, <1>11, <3>1 DEF ReleaseKey
    <3>3. d \in Drivers
      BY DriversAre
    <3>4. new \in OnKey(k)
      BY <3>2, <3>3, NoneIsPlaced
    <3>5. GoesHome(at, new, s, k)
      BY <2>1, <2>4, <3>2 DEF GoesHome
    <3> QED BY <1>11, <1>12, <3>4, <3>5 DEF LetGoEnds
  <2> QED BY <2>2, <2>3, <2>4
<1> QED BY <1>9, <1>10, <1>11

-----------------------------------------------------------------------------
(* A sequence moves.                                                       *)

\* The key as it is once the effects of the cue a sequence was on are frozen.
AtRest(at, s) == IF playing[s] = Nobody THEN at ELSE ParkEffects(at, playing[s])

SameLayer(l, m) == l.of = m.of /\ l.driver.cue = m.driver.cue

\* What that leaves: the driver, unless it was such an effect, and whose what is
\* beside it is.
Parked(at, p, s) ==
    /\ p.driver = at.driver \/ (/\ p.driver = Unclaimed
                                /\ at.driver.cue \in Range(CuesOf[s]) /\ at.driver.to = "effect")
    /\ \A m \in Range(p.beside) : \E l \in Range(at.beside) : SameLayer(l, m)
    /\ \A l \in Range(at.beside) : \E m \in Range(p.beside) : SameLayer(l, m)

LEMMA ParkIs ==
    ASSUME PlayedOK, NEW k \in Keys, NEW at \in OnKey(k), NEW s \in Ids,
           NEW p, p = AtRest(at, s)
    PROVE  p \in OnKey(k) /\ Parked(at, p, s)
<1> PICK b : b = at.beside
  OBVIOUS
<1> PICK c : c = playing[s]
  OBVIOUS
<1>1. /\ at \in Spots /\ Placed(at) /\ b \in Seq(Layers) /\ at.driver \in Drivers /\ IsInjective(b)
      /\ at = [driver |-> at.driver, beside |-> b]
  BY SpotIs DEF OnKey, Placed, Spots
<1>2. Len(b) \in Nat /\ DOMAIN b = 1 .. Len(b) /\ \A i \in DOMAIN b : b[i] \in Layers /\ b[i] \in Range(b)
  BY <1>1, LenProperties, ElementOfSeq DEF Range
<1>3. CASE c = Nobody
  <2>1. p = at
    BY <1>3 DEF AtRest
  <2> QED BY <2>1 DEF Parked, SameLayer
<1>4. CASE c # Nobody
  <2>1. c \in Range(CuesOf[s]) /\ c \in Cues
    BY <1>4, CuesAreCues DEF PlayedOK
  <2> PICK e : e = Driver(c, "effect")
    OBVIOUS
  <2> PICK d : d = IF at.driver = e THEN Unclaimed ELSE at.driver
    OBVIOUS
  <2> PICK frozen : frozen = Driver(c, "parked")
    OBVIOUS
  <2>2. e.cue = c /\ e.to = "effect" /\ frozen \in Drivers /\ frozen.cue = c /\ d \in Drivers
        /\ Unclaimed.cue = Nobody
    BY <1>1, <2>1, DriversAre
  <2> DEFINE f == [i \in DOMAIN b |-> IF b[i].driver = e THEN [b[i] EXCEPT !.driver.to = "parked"] ELSE b[i]]
  <2> PICK nb : nb = f
    OBVIOUS
  <2>3. p = [driver |-> d, beside |-> nb]
    BY <1>4, Zenon DEF AtRest, ParkEffects
  <2>4. ASSUME NEW i \in DOMAIN b
        PROVE  nb[i] = IF b[i].driver = e THEN [of |-> b[i].of, driver |-> frozen] ELSE b[i]
    <3>1. nb[i] = IF b[i].driver = e THEN [b[i] EXCEPT !.driver.to = "parked"] ELSE b[i]
      OBVIOUS
    <3>2. CASE b[i].driver = e
      <4>1. b[i] = [of |-> b[i].of, driver |-> e]
        BY <1>2, <3>2 DEF Layers
      <4>2. e = [cue |-> c, to |-> "effect"] /\ frozen = [cue |-> c, to |-> "parked"]
        BY DEF Driver
      <4>3. [b[i] EXCEPT !.driver.to = "parked"] = [of |-> b[i].of, driver |-> frozen]
        BY <4>1, <4>2
      <4> QED BY <3>1, <3>2, <4>3
    <3> QED BY <3>1, <3>2
  <2>5. DOMAIN nb = DOMAIN b /\ nb = [i \in DOMAIN b |-> nb[i]]
    OBVIOUS
  <2> HIDE DEF f
  <2>6. ASSUME NEW i \in DOMAIN b
        PROVE  nb[i] \in Layers /\ SameLayer(b[i], nb[i])
    <3>1. b[i] \in Layers /\ b[i].of \in Ids
      BY <1>2 DEF Layers
    <3>2. CASE b[i].driver = e
      <4> PICK o \in Ids : o = b[i].of
        BY <3>1
      <4>1. nb[i] = [of |-> o, driver |-> frozen]
        BY <2>4, <3>2
      <4>2. nb[i] \in Layers
        BY <2>2, <4>1 DEF Layers
      <4>3. SameLayer(b[i], nb[i])
        BY <2>2, <3>2, <4>1 DEF SameLayer
      <4> QED BY <4>2, <4>3
    <3>3. CASE b[i].driver # e
      BY <2>4, <3>1, <3>3 DEF SameLayer
    <3> QED BY <3>2, <3>3
  <2>7. nb \in Seq(Layers)
    <3>1. \E g : g = [i \in 1 .. Len(b) |-> nb[i]]
      OBVIOUS
    <3> PICK g : g = [i \in 1 .. Len(b) |-> nb[i]]
      BY <3>1
    <3>2. g \in Seq(Layers)
      BY <1>2, <2>6
    <3> QED BY <1>2, <2>5, <3>2
  <2>8. \A i, j \in DOMAIN b : b[i].of = b[j].of => i = j
    BY <1>1, <1>2 DEF Placed, IsInjective
  <2>9. \A i, j \in DOMAIN b : nb[i].of = nb[j].of => i = j
    BY <2>6, <2>8 DEF SameLayer
  <2>10. \A m \in Range(nb) : \E i \in DOMAIN b : m = nb[i]
    BY <2>5 DEF Range
  <2>11. IsInjective(nb)
    BY <2>5, <2>9 DEF IsInjective
  <2>12. ASSUME NEW m \in Range(nb)
         PROVE  m.driver.cue \in Range(CuesOf[m.of]) /\ d.cue \notin Range(CuesOf[m.of])
    <3>1. PICK i \in DOMAIN b : m = nb[i]
      BY <2>10
    <3>2. b[i].of = m.of /\ b[i].driver.cue = m.driver.cue
      BY <2>6, <3>1 DEF SameLayer
    <3>3. m.driver.cue \in Range(CuesOf[m.of]) /\ at.driver.cue \notin Range(CuesOf[m.of])
      BY <1>1, <1>2, <3>2 DEF Placed
    <3>4. m.of \in Ids
      BY <1>2, <3>2 DEF Layers
    <3>5. Nobody \notin Range(CuesOf[m.of])
      BY <3>4, CuesAreCues, NobodyIsNoCue
    <3> QED BY <2>2, <3>3, <3>5
  <2>13. \A m, n \in Range(nb) : m.of = n.of => m = n
    BY <2>9, <2>10
  <2>14. Placed(p)
    BY <2>3, <2>11, <2>12, <2>13 DEF Placed
  <2>15. p \in Spots
    BY <2>2, <2>3, <2>7 DEF Spots
  <2>16. k \notin Intensity => p.beside = <<>>
    <3>1. b = <<>> => Len(nb) = 0
      BY <1>2, <2>5, <2>7, LenProperties
    <3> QED BY <2>3, <2>7, <3>1, EmptySeq DEF OnKey
  <2>17. p \in OnKey(k)
    BY <2>14, <2>15, <2>16 DEF OnKey
  <2>18. \A m \in Range(p.beside) : \E l \in Range(at.beside) : SameLayer(l, m)
    BY <1>2, <2>3, <2>6, <2>10
  <2>19. \A l \in Range(at.beside) : \E m \in Range(p.beside) : SameLayer(l, m)
    <3> SUFFICES ASSUME NEW l \in Range(b) PROVE \E m \in Range(nb) : SameLayer(l, m)
      BY <2>3
    <3>1. PICK i \in DOMAIN b : l = b[i]
      BY DEF Range
    <3>2. nb[i] \in Range(nb)
      BY <2>5 DEF Range
    <3> QED BY <2>6, <3>1, <3>2
  <2>20. p.driver = at.driver \/ (/\ p.driver = Unclaimed
                                  /\ at.driver.cue \in Range(CuesOf[s]) /\ at.driver.to = "effect")
    BY <2>1, <2>2, <2>3
  <2> QED BY <2>17, <2>18, <2>19, <2>20 DEF Parked
<1> QED BY <1>3, <1>4

\* A capture of a sequence that is on takes the key.
Started(at, new, c, t, k) ==
    /\ t \in rows /\ IsOn(t) /\ c \in Range(CuesOf[t]) /\ Captures_(c, k)
    /\ new.driver = Driver(c, IF captures[c][k].fx THEN "effect" ELSE captures[c][k].to)
    /\ new.driver.cue = c
    /\ Range(new.beside) = IF t \in Htp /\ k \in Intensity
                           THEN Others(at, t) \cup Joined(at, t) ELSE {}

\* What moving a sequence comes to on a key, once its effects are frozen.
MovedEnds(p, new, t, k) ==
    \/ ~Tracks(t, k) /\ CouldDrive(t, k) /\ LetGoEnds(p, new, t, k)
    \/ ~Tracks(t, k) /\ ~CouldDrive(t, k) /\ new = p
    \/ /\ Tracks(t, k) /\ new = p
       /\ \/ p.driver.cue = TrackedFrom(t, k)
          \/ \E l \in Range(p.beside) : l.driver.cue = TrackedFrom(t, k)
    \/ Tracks(t, k) /\ Started(p, new, TrackedFrom(t, k), t, k)

TrackChangeEnds(at, new, t, k) ==
    \/ new = at /\ (~Moved(t) \/ t \notin rows)
    \/ /\ Moved(t) /\ t \in rows
       /\ \E p \in OnKey(k) : Parked(at, p, t) /\ MovedEnds(p, new, t, k)

LEMMA TrackChangeIs ==
    ASSUME ShowOK, PlayedOK, NEW k \in Keys, NEW at \in OnKey(k), NEW t \in Ids, NEW home,
           NEW new, new = TrackChange(at, t, k, home)
    PROVE  new \in OnKey(k) /\ TrackChangeEnds(at, new, t, k)
<1> PICK p : p = AtRest(at, t)
  OBVIOUS
<1>1. p \in OnKey(k) /\ Parked(at, p, t)
  BY ParkIs
<1>2. new = IF ~Moved(t) \/ t \notin rows THEN at
            ELSE IF ~IsOn(t) THEN IF CouldDrive(t, k) THEN LetGo(p, t, k, home) ELSE p
            ELSE TakeCue(p, t, k, home)
  BY Zenon DEF TrackChange, AtRest
<1>3. CASE ~Moved(t) \/ t \notin rows
  BY <1>2, <1>3 DEF TrackChangeEnds
<1>4. CASE Moved(t) /\ t \in rows
  <2> PICK from : from = TrackedFrom(t, k)
    OBVIOUS
  <2> DEFINE plays == p.driver.cue = from \/ \E i \in DOMAIN p.beside : p.beside[i].driver.cue = from
  <2>1. Tracks(t, k) <=> from # Nobody
    BY DEF Tracks
  <2>2. ~IsOn(t) => ~Tracks(t, k)
    BY TrackedFromIs
  <2>3. new = IF ~Tracks(t, k) THEN IF CouldDrive(t, k) THEN LetGo(p, t, k, home) ELSE p
              ELSE IF from # ActiveCue(t) /\ plays THEN p
              ELSE StartCapture(p, from, k)
    <3>1. TakeCue(p, t, k, home) =
             IF from = Nobody
             THEN IF CouldDrive(t, k) THEN LetGo(p, t, k, home) ELSE p
             ELSE IF from # ActiveCue(t) /\ plays THEN p
             ELSE StartCapture(p, from, k)
      BY Zenon DEF TakeCue
    <3> HIDE DEF plays
    <3> QED BY <1>2, <1>4, <2>1, <2>2, <3>1
  <2> SUFFICES new \in OnKey(k) /\ MovedEnds(p, new, t, k)
    BY <1>1, <1>4 DEF TrackChangeEnds
  <2>4. CASE ~Tracks(t, k) /\ CouldDrive(t, k)
    <3>1. new = LetGo(p, t, k, home)
      BY <2>3, <2>4
    <3>2. ShowOK /\ k \in Keys /\ p \in OnKey(k) /\ t \in rows
      BY <1>1, <1>4
    <3>3. new \in OnKey(k) /\ LetGoEnds(p, new, t, k)
      BY ONLY <3>1, <3>2, LetGoIs
    <3> QED BY <2>4, <3>3 DEF MovedEnds
  <2>5. CASE ~Tracks(t, k) /\ ~CouldDrive(t, k)
    <3>1. new = p
      BY <2>3, <2>5
    <3> QED BY <1>1, <2>5, <3>1 DEF MovedEnds
  <2>6. CASE Tracks(t, k) /\ from # ActiveCue(t) /\ plays
    <3>1. new = p
      BY <2>3, <2>6
    <3>2. p.driver.cue = from \/ \E l \in Range(p.beside) : l.driver.cue = from
      BY <2>6 DEF Range
    <3> HIDE DEF plays
    <3> QED BY <1>1, <2>6, <3>1, <3>2 DEF MovedEnds
  <2>7. CASE Tracks(t, k) /\ ~(from # ActiveCue(t) /\ plays)
    <3> HIDE DEF plays
    <3>1. new = StartCapture(p, from, k)
      BY <2>3, <2>7
    <3>2. t \in rows /\ IsOn(t) /\ from \in Range(CuesOf[t]) /\ Captures_(from, k)
      BY <2>7, TrackedFromIs
    <3>3. ShowOK /\ k \in Keys /\ p \in OnKey(k)
      BY <1>1
    <3>4. /\ new \in OnKey(k) /\ new.driver.cue = from
          /\ new.driver = Driver(from, IF captures[from][k].fx THEN "effect" ELSE captures[from][k].to)
          /\ Range(new.beside) = IF t \in Htp /\ k \in Intensity
                                 THEN {l \in Range(p.beside) : l.of # t} \cup Joined(p, t)
                                 ELSE {}
      BY ONLY <3>1, <3>2, <3>3, StartCaptureIs
    <3>5. Started(p, new, from, t, k)
      BY <3>2, <3>4 DEF Started, Others
    <3> QED BY <2>7, <3>4, <3>5 DEF MovedEnds
  <2> QED BY <2>4, <2>5, <2>6, <2>7
<1> QED BY <1>3, <1>4

-----------------------------------------------------------------------------
(* An edit of the cues, and a take that stopped.                           *)

LEMMA RepointIs ==
    ASSUME ShowOK, NEW k \in Keys, NEW at \in OnKey(k), NEW new, new = Repoint(at, k)
    PROVE  /\ new \in OnKey(k) /\ new.driver.cue = at.driver.cue /\ new.beside = at.beside
           /\ IF at.driver.cue # Nobody /\ at.driver.to # "effect" /\ Captures_(at.driver.cue, k)
              THEN new.driver.to = captures[at.driver.cue][k].to ELSE new = at
<1>1. at \in Spots /\ Placed(at) /\ at.driver \in Drivers /\ at.beside \in Seq(Layers)
      /\ at = [driver |-> at.driver, beside |-> at.beside]
  BY SpotIs DEF OnKey, Spots
<1> PICK c : c = at.driver.cue
  OBVIOUS
<1>2. CASE c # Nobody /\ at.driver.to # "effect" /\ Captures_(c, k)
  <2>1. c \in Cues /\ at.driver = [cue |-> c, to |-> at.driver.to]
    BY <1>1, <1>2, DriversAre DEF Driver
  <2> PICK to : to = captures[c][k].to
    OBVIOUS
  <2>2. to \in Levels
    <3>1. captures[c][k] \in Captures
      BY <1>2, <2>1 DEF ShowOK, Captures_
    <3> QED BY <3>1 DEF Captures
  <2>3. new = [at EXCEPT !.driver.to = to]
    BY <1>2 DEF Repoint
  <2>4. new = [driver |-> Driver(c, to), beside |-> at.beside]
    BY <1>1, <2>1, <2>3 DEF Driver
  <2>5. Driver(c, to) \in Drivers /\ Driver(c, to).cue = c /\ Driver(c, to).to = to
    BY <2>1, <2>2, DriversAre
  <2>6. new \in Spots
    BY <1>1, <2>4, <2>5 DEF Spots
  <2>7. Placed(new)
    BY <1>1, <2>4, <2>5 DEF Placed
  <2>8. new \in OnKey(k)
    BY <2>4, <2>6, <2>7 DEF OnKey
  <2> QED BY <1>2, <2>4, <2>5, <2>8
<1>3. CASE ~(c # Nobody /\ at.driver.to # "effect" /\ Captures_(c, k))
  BY <1>3 DEF Repoint
<1> QED BY <1>2, <1>3

\* A key whose cue lost its capture: left to the sequence's own, or home, or taken.
LEMMA ReleaseDroppedIs ==
    ASSUME ShowOK, NEW k \in Keys, NEW at \in OnKey(k), NEW home,
           NEW new, new = ReleaseDropped(at, k, home)
    PROVE  /\ new \in OnKey(k)
           /\ \/ new = at /\ (at.driver.cue = Nobody \/ Captures_(at.driver.cue, k))
              \/ /\ new = at /\ at.driver.cue # Nobody /\ ~Captures_(at.driver.cue, k)
                 /\ Wanted(k, Nobody) # Nobody
                 /\ at.driver.cue \in Range(CuesOf[SequenceOf(Wanted(k, Nobody))])
              \/ /\ at.driver.cue # Nobody /\ ~Captures_(at.driver.cue, k)
                 /\ Wanted(k, Nobody) = Nobody
                 /\ new.driver \in {Undriven, Unclaimed} /\ new.beside = at.beside
              \/ /\ at.driver.cue # Nobody /\ ~Captures_(at.driver.cue, k)
                 /\ \E t \in rows : Started(at, new, Wanted(k, Nobody), t, k)
<1>1. at \in Spots /\ Placed(at) /\ at.driver \in Drivers /\ at.beside \in Seq(Layers)
      /\ at = [driver |-> at.driver, beside |-> at.beside]
  BY SpotIs DEF OnKey, Spots
<1> PICK w : w = Wanted(k, Nobody)
  OBVIOUS
<1> PICK c : c = at.driver.cue
  OBVIOUS
<1>2. new = IF c = Nobody \/ Captures_(c, k) THEN at
            ELSE IF w = Nobody THEN ReleaseKey(at, home)
            ELSE IF c \in Range(CuesOf[SequenceOf(w)]) THEN at
            ELSE StartCapture(at, w, k)
  BY Zenon DEF ReleaseDropped
<1>3. CASE c = Nobody \/ Captures_(c, k)
  BY <1>2, <1>3
<1>4. CASE c # Nobody /\ ~Captures_(c, k) /\ w = Nobody
  <2>1. new = ReleaseKey(at, home)
    BY <1>2, <1>4
  <2> PICK d : d = IF home \/ at.driver = Undriven THEN Undriven ELSE Unclaimed
    OBVIOUS
  <2>2. new = [driver |-> d, beside |-> at.beside]
    BY <1>1, <2>1 DEF ReleaseKey
  <2>3. d \in Drivers /\ d.cue = Nobody
    BY DriversAre
  <2>4. \A s \in Ids : Nobody \notin Range(CuesOf[s])
    BY CuesAreCues, NobodyIsNoCue
  <2>5. Placed(new)
    BY <1>1, <2>2, <2>3, <2>4, SpotIs DEF Placed
  <2>6. new \in OnKey(k)
    BY <1>1, <2>2, <2>3, <2>5 DEF OnKey, Spots
  <2> QED BY <1>4, <2>2, <2>6
<1>5. CASE c # Nobody /\ ~Captures_(c, k) /\ w # Nobody /\ c \in Range(CuesOf[SequenceOf(w)])
  BY <1>2, <1>5
<1>6. CASE c # Nobody /\ ~Captures_(c, k) /\ w # Nobody /\ c \notin Range(CuesOf[SequenceOf(w)])
  <2>1. new = StartCapture(at, w, k)
    BY <1>2, <1>6
  <2>2. PICK t : WantedOf(w, t, k, Nobody)
    BY <1>6, WantedIs
  <2>3. t \in rows /\ w \in Range(CuesOf[t]) /\ Captures_(w, k) /\ IsOn(t)
    BY <2>2 DEF WantedOf
  <2>4. ShowOK /\ k \in Keys /\ at \in OnKey(k)
    OBVIOUS
  <2>5. /\ new \in OnKey(k) /\ new.driver.cue = w
        /\ new.driver = Driver(w, IF captures[w][k].fx THEN "effect" ELSE captures[w][k].to)
        /\ Range(new.beside) = IF t \in Htp /\ k \in Intensity
                               THEN {l \in Range(at.beside) : l.of # t} \cup Joined(at, t)
                               ELSE {}
    BY ONLY <2>1, <2>3, <2>4, StartCaptureIs
  <2>6. Started(at, new, w, t, k)
    BY <2>3, <2>5 DEF Started, Others
  <2> QED BY <1>6, <2>3, <2>5, <2>6
<1> QED BY <1>3, <1>4, <1>5, <1>6

\* A capture gained takes the key, or the key is as it was and is not its to take.
LEMMA StartNewIs ==
    ASSUME ShowOK, NEW k \in Keys, NEW at \in OnKey(k), NEW new, new = StartNew(at, k)
    PROVE  /\ new \in OnKey(k)
           /\ \/ \E t \in rows : Started(at, new, Wanted(k, Nobody), t, k)
              \/ /\ new = at
                 /\ Wanted(k, Nobody) # Nobody =>
                       \/ at.driver.cue = Wanted(k, Nobody)
                       \/ at.driver.cue \notin Range(CuesOf[SequenceOf(Wanted(k, Nobody))])
                       \/ at.driver.to = captures[Wanted(k, Nobody)][k].to
<1> PICK w : w = Wanted(k, Nobody)
  OBVIOUS
<1> PICK c : c = at.driver.cue
  OBVIOUS
<1> DEFINE earlier == c # w /\ c \in Range(CuesOf[SequenceOf(w)])
<1> DEFINE there == /\ at.driver.to # "effect" /\ ~captures[w][k].fx
                    /\ at.driver.to = captures[w][k].to
<1>1. new = IF w # Nobody /\ (at.driver = Undriven \/ (earlier /\ ~there))
            THEN StartCapture(at, w, k) ELSE at
  BY Zenon DEF StartNew
<1>2. CASE w # Nobody /\ (at.driver = Undriven \/ (earlier /\ ~there))
  <2>1. new = StartCapture(at, w, k)
    BY <1>1, <1>2
  <2> HIDE DEF earlier, there
  <2>2. PICK t : WantedOf(w, t, k, Nobody)
    BY <1>2, WantedIs
  <2>3. t \in rows /\ w \in Range(CuesOf[t]) /\ Captures_(w, k) /\ IsOn(t)
    BY <2>2 DEF WantedOf
  <2>4. ShowOK /\ k \in Keys /\ at \in OnKey(k)
    OBVIOUS
  <2>5. /\ new \in OnKey(k) /\ new.driver.cue = w
        /\ new.driver = Driver(w, IF captures[w][k].fx THEN "effect" ELSE captures[w][k].to)
        /\ Range(new.beside) = IF t \in Htp /\ k \in Intensity
                               THEN {l \in Range(at.beside) : l.of # t} \cup Joined(at, t)
                               ELSE {}
    BY ONLY <2>1, <2>3, <2>4, StartCaptureIs
  <2>6. Started(at, new, w, t, k)
    BY <2>3, <2>5 DEF Started, Others
  <2> QED BY <2>3, <2>5, <2>6
<1>3. CASE ~(w # Nobody /\ (at.driver = Undriven \/ (earlier /\ ~there)))
  <2>1. new = at
    BY <1>1, <1>3
  <2>2. w # Nobody => \/ c = w \/ c \notin Range(CuesOf[SequenceOf(w)])
                      \/ at.driver.to = captures[w][k].to
    BY <1>3
  <2> HIDE DEF earlier, there
  <2> QED BY <2>1, <2>2
<1> QED BY <1>2, <1>3

\* A key set outright keeps what is beside its driver.
LEMMA SetOutrightIs ==
    ASSUME NEW k \in Keys, NEW at \in OnKey(k), NEW new, new = [at EXCEPT !.driver = SetOutright]
    PROVE  new \in OnKey(k) /\ new = [driver |-> SetOutright, beside |-> at.beside]
<1>1. at \in Spots /\ Placed(at) /\ at.beside \in Seq(Layers)
      /\ at = [driver |-> at.driver, beside |-> at.beside]
  BY SpotIs DEF OnKey, Spots
<1>2. new = [driver |-> SetOutright, beside |-> at.beside]
  BY <1>1
<1>3. SetOutright \in Drivers /\ SetOutright.cue = Nobody
  BY DriversAre
<1>4. \A s \in Ids : Nobody \notin Range(CuesOf[s])
  BY CuesAreCues, NobodyIsNoCue
<1>5. Placed(new)
  BY <1>1, <1>2, <1>3, <1>4, SpotIs DEF Placed
<1>6. new \in OnKey(k)
  BY <1>1, <1>2, <1>3, <1>5 DEF OnKey, Spots
<1> QED BY <1>2, <1>6

\* The fade of the key is set outright where a take stopped over it.
LetGoByATake(at, new, k) ==
    /\ k \in stopped /\ at.driver.to # "effect"
    /\ new.driver = SetOutright /\ new.beside = at.beside

LEMMA StopTrackIs ==
    ASSUME NEW k \in Keys, NEW at \in OnKey(k), NEW there, NEW new, new = StopTrack(at, k, there)
    PROVE  new \in OnKey(k) /\ (new = at \/ LetGoByATake(at, new, k))
<1>1. CASE k \in stopped /\ at.driver.to # "effect" /\ ~there
  <2>1. new = [at EXCEPT !.driver = SetOutright]
    BY <1>1 DEF StopTrack
  <2>2. new \in OnKey(k) /\ new = [driver |-> SetOutright, beside |-> at.beside]
    BY <2>1, SetOutrightIs
  <2> QED BY <1>1, <2>2 DEF LetGoByATake
<1>2. CASE ~(k \in stopped /\ at.driver.to # "effect" /\ ~there)
  BY <1>2 DEF StopTrack
<1> QED BY <1>1, <1>2

-----------------------------------------------------------------------------
(* A pass, sequence by sequence.                                           *)

\* The key as the sequences find it.
Begun(k, there) ==
    StopTrack(IF edited THEN StartNew(ReleaseDropped(Repoint(stage[k], k), k, k \in there), k)
              ELSE stage[k], k, k \in there)

PassRun(run, k, there) ==
    /\ run[0] = Begun(k, there) /\ run[Len(List)] = StageAfter(there)[k]
    /\ \A i \in 1 .. Len(List) : run[i] = TrackChange(run[i - 1], List[i], k, k \in there)

LEMMA BegunIs ==
    ASSUME ShowOK, NEW k \in Keys, stage[k] \in OnKey(k), NEW there
    PROVE  /\ Begun(k, there) \in OnKey(k)
           /\ ~edited => Begun(k, there) = StopTrack(stage[k], k, k \in there)
           /\ edited => \E r, d, s \in OnKey(k) :
                 /\ r = Repoint(stage[k], k) /\ d = ReleaseDropped(r, k, k \in there)
                 /\ s = StartNew(d, k) /\ Begun(k, there) = StopTrack(s, k, k \in there)
<1>1. ~edited => Begun(k, there) = StopTrack(stage[k], k, k \in there)
  BY DEF Begun
<1>2. StopTrack(stage[k], k, k \in there) \in OnKey(k)
  BY StopTrackIs
<1> PICK r : r = Repoint(stage[k], k)
  OBVIOUS
<1>3. r \in OnKey(k)
  BY RepointIs
<1> PICK d : d = ReleaseDropped(r, k, k \in there)
  OBVIOUS
<1>4. d \in OnKey(k)
  BY <1>3, ReleaseDroppedIs
<1> PICK s : s = StartNew(d, k)
  OBVIOUS
<1>5. s \in OnKey(k)
  BY <1>4, StartNewIs
<1>6. StopTrack(s, k, k \in there) \in OnKey(k)
  BY <1>5, StopTrackIs
<1>7. edited => Begun(k, there) = StopTrack(s, k, k \in there)
  BY DEF Begun
<1> QED BY <1>1, <1>2, <1>3, <1>4, <1>5, <1>6, <1>7

LEMMA ListIs ==
    /\ Len(List) \in Nat /\ DOMAIN List = 1 .. Len(List) /\ List \in Seq(Ids)
    /\ \A i \in 1 .. Len(List) : List[i] \in Ids
    /\ \A s \in Ids : \E i \in 1 .. Len(List) : List[i] = s
    /\ \A i, j \in 1 .. Len(List) : List[i] = List[j] => i = j
<1>1. List \in Seq(Ids) /\ IsInjective(List)
  BY PlaybackAssumption
<1>2. Len(List) \in Nat /\ DOMAIN List = 1 .. Len(List) /\ \A i \in 1 .. Len(List) : List[i] \in Ids
  BY <1>1, LenProperties, ElementOfSeq
<1> QED BY <1>1, <1>2 DEF Ids, Range, IsInjective

LEMMA PassRuns ==
    ASSUME ShowOK, PlayedOK, NEW k \in Keys, stage[k] \in OnKey(k), NEW there
    PROVE  \E run \in [0 .. Len(List) -> OnKey(k)] : PassRun(run, k, there)
<1> PICK n : n = Len(List)
  OBVIOUS
<1> PICK V : V = OnKey(k)
  OBVIOUS
<1> PICK base : base = Begun(k, there)
  OBVIOUS
<1> PICK home : home = (k \in there)
  OBVIOUS
<1>1. n \in Nat /\ DOMAIN List = 1..n /\ (\A i \in 1..n : List[i] \in Ids) /\ base \in V
  BY BegunIs, ListIs
<1> PICK F : F = [i \in 1..n |-> [x \in V |-> TrackChange(x, List[i], k, home)]]
  OBVIOUS
<1>2. F \in [1..n -> [V -> V]]
  <2> SUFFICES ASSUME NEW i \in 1..n, NEW x \in V PROVE TrackChange(x, List[i], k, home) \in V
    OBVIOUS
  <2> PICK t \in Ids : t = List[i]
    BY <1>1
  <2> PICK y : y = TrackChange(x, t, k, home)
    OBVIOUS
  <2>1. x \in OnKey(k) /\ ShowOK /\ PlayedOK /\ k \in Keys /\ t \in Ids
    OBVIOUS
  <2>2. y \in OnKey(k)
    BY ONLY <2>1, y = TrackChange(x, t, k, home), TrackChangeIs
  <2> QED BY <2>2
<1>4. PICK g \in [SUBSET (1..n) -> V] : Solves(g, F, base, n)
  BY <1>1, <1>2, FoldHasSolution
<1> DEFINE Body(h) == [T \in SUBSET (1..n) |->
                IF T = {} THEN base ELSE TrackChange(h[T \ {Max(T)}], List[Max(T)], k, home)]
<1>5. ASSUME NEW T \in SUBSET (1..n), T # {} PROVE Max(T) \in 1..n /\ T \ {Max(T)} \in SUBSET (1..n)
  <2>1. T \in SUBSET Nat /\ T # {} /\ \A i \in T : i <= n
    BY <1>1, <1>5
  <2>2. Max(T) \in T
    BY <1>1, <2>1, MaxBounds
  <2> QED BY <2>2
<1>6. g = Body(g)
  <2>1. ASSUME NEW T \in SUBSET (1..n), T # {}
        PROVE  F[Max(T)][g[T \ {Max(T)}]] = TrackChange(g[T \ {Max(T)}], List[Max(T)], k, home)
    <3> PICK m : m = Max(T)
      OBVIOUS
    <3>1. m \in 1..n /\ T \ {m} \in SUBSET (1..n)
      BY <1>5, <2>1
    <3>2. g[T \ {m}] \in V
      BY <3>1
    <3> QED BY ONLY <3>1, <3>2, m = Max(T),
               F = [i \in 1..n |-> [x \in V |-> TrackChange(x, List[i], k, home)]]
  <2>2. g = [T \in SUBSET (1..n) |-> g[T]]
    OBVIOUS
  <2>3. \A T \in SUBSET (1..n) :
            g[T] = IF T = {} THEN base ELSE F[Max(T)][g[T \ {Max(T)}]]
    BY <1>4 DEF Solves
  <2>4. \A T \in SUBSET (1..n) :
            g[T] = IF T = {} THEN base ELSE TrackChange(g[T \ {Max(T)}], List[Max(T)], k, home)
    BY <2>1, <2>3
  <2> QED BY <2>2, <2>4
<1> PICK h : h = (CHOOSE f : f = Body(f))
  OBVIOUS
<1>7. h = Body(h)
  BY <1>6
<1>8. StageAfter(there)[k] = h[1..n]
  <2>0. StageAfter(there)[k] = FoldLeft(LAMBDA at, s : TrackChange(at, s, k, home), base, List)
    BY DEF StageAfter, Begun
  <2>1. StageAfter(there)[k] =
          (CHOOSE f : f = [T \in SUBSET DOMAIN List |->
              IF T = {} THEN base
              ELSE TrackChange(f[T \ {Max(T)}], List[Max(T)], k, home)])[DOMAIN List]
    BY <2>0, Zenon DEF FoldLeft, MapThenFoldSet
  <2> QED BY <1>1, <2>1, Zenon
<1>9. h[{}] = base
  BY <1>7
<1>10. ASSUME NEW T \in SUBSET (1..n), T # {}, h[T \ {Max(T)}] \in V
       PROVE  h[T] = F[Max(T)][h[T \ {Max(T)}]]
  <2>1. h[T] = TrackChange(h[T \ {Max(T)}], List[Max(T)], k, home)
    BY <1>7, <1>10
  <2> PICK m : m = Max(T)
    OBVIOUS
  <2>2. m \in 1..n /\ h[T \ {m}] \in V /\ h[T] = TrackChange(h[T \ {m}], List[m], k, home)
    BY <1>5, <1>10, <2>1
  <2> QED BY ONLY <2>2, m = Max(T),
             F = [i \in 1..n |-> [x \in V |-> TrackChange(x, List[i], k, home)]]
<1>11. PICK run \in [0..n -> V] : Runs(run, F, base, n, h[1..n])
  <2>1. n \in Nat /\ base \in V /\ F \in [1..n -> [V -> V]]
    BY <1>1, <1>2
  <2>2. FoldedBy(h, F, base, n, V)
    BY <1>9, <1>10 DEF FoldedBy
  <2> HIDE DEF Body
  <2>3. \E run \in [0..n -> V] : Runs(run, F, base, n, h[1..n])
    BY ONLY <2>1, <2>2, FoldRuns
  <2> QED BY <2>3
<1>12. \A i \in 1..n : run[i] = TrackChange(run[i - 1], List[i], k, home)
  <2> SUFFICES ASSUME NEW i \in 1..n PROVE run[i] = TrackChange(run[i - 1], List[i], k, home)
    OBVIOUS
  <2>1. i - 1 \in 0..n
    BY <1>1
  <2>2. run[i - 1] \in V
    BY <1>11, <2>1
  <2>3. run[i] = F[i][run[i - 1]]
    BY <1>11 DEF Runs
  <2> QED BY <2>2, <2>3
<1> HIDE DEF Body
<1>13. PassRun(run, k, there)
  BY <1>8, <1>11, <1>12 DEF PassRun, Runs
<1> QED BY <1>11, <1>13

-----------------------------------------------------------------------------
(***************************************************************************)
(* The first invariant: types, whose what is beside a driver is, and what  *)
(* the last pass found. It is stronger than the types: a step needs the    *)
(* layers placed, and what was played to be a sequence's own.              *)
(***************************************************************************)
StageOK == stage \in [Keys -> Spots] /\ \A k \in Keys : stage[k] \in OnKey(k)

\* Nothing is owed, so what each sequence was on is what it is on.
NothingMoved == owed = 0 => \A s \in rows : playing[s] = ActiveCue(s)

FollowsOwn == \A s \in armed \cap rows : playing[s] \in Follows

OwnOK ==
    /\ owed \in 0..Burst /\ edited \in BOOLEAN /\ (edited => owed > 0)
    /\ playing \in [Ids -> Cues \cup {Nobody}] /\ armed \subseteq Ids /\ stopped \subseteq Flowed

Inv == ShowOK /\ OwnOK /\ PlayedOK /\ StageOK /\ NothingMoved /\ FollowsOwn

LEMMA InitHolds == Init => Inv
<1> SUFFICES ASSUME Init PROVE Inv
  OBVIOUS
<1> USE DEF Init
<1>1. ShowOK
  <2>1. <<>> \in Seq(Ids) /\ Range(<<>>) = {} /\ IsInjective(<<>>)
    BY EmptySeq DEF Range, IsInjective
  <2>2. \A s \in Ids : Len(CuesOf[s]) \in Nat
    BY CuesAreCues
  <2>3. captures \in [Cues -> [Keys -> Captures \cup {NoCapture}]]
    BY PlaybackAssumption
  <2> QED BY <2>1, <2>2, <2>3 DEF ShowOK
<1>2. OwnOK /\ PlayedOK /\ FollowsOwn
  <2>1. owed \in 0..Burst
    BY PlaybackAssumption
  <2>2. edited \in BOOLEAN /\ ~edited
    OBVIOUS
  <2>3. playing \in [Ids -> Cues \cup {Nobody}] /\ armed = {} /\ stopped = {}
    OBVIOUS
  <2>4. OwnOK
    BY <2>1, <2>2, <2>3 DEF OwnOK
  <2> QED BY <2>3, <2>4 DEF PlayedOK, FollowsOwn
<1>3. StageOK
  <2>1. \A k \in Keys : [driver |-> Undriven, beside |-> <<>>] \in OnKey(k)
    BY DriversAre, NoneIsPlaced
  <2> QED BY <2>1 DEF StageOK, OnKey
<1>4. NothingMoved
  <2>1. \A s \in Ids : ~IsOn(s)
    BY DEF IsOn
  <2> QED BY <2>1 DEF NothingMoved, ActiveCue
<1> QED BY <1>1, <1>2, <1>3, <1>4 DEF Inv

\* What is left of the sequences that are on without some of them.
LEMMA RecentWithout ==
    ASSUME ShowOK, NEW S \in SUBSET Ids, NEW rest, rest = Among(S, recent)
    PROVE  rest \in Seq(Ids) /\ IsInjective(rest) /\ Range(rest) = {t \in S : on[t] > 0}
<1>1. recent \in Seq(Ids) /\ IsInjective(recent) /\ Range(recent) = {s \in Ids : on[s] > 0}
  BY DEF ShowOK
<1>2. rest \in Seq(Ids) /\ IsInjective(rest) /\ Range(rest) = Range(recent) \cap S
  BY <1>1, AmongHas
<1> QED BY <1>1, <1>2

LEMMA GoShows ==
    ASSUME ShowOK, NEW s \in Ids, NEW i \in 0 .. Len(CuesOf[s]), Go(s, i)
    PROVE  ShowOK'
<1> PICK rest : rest = Among(Ids \ {s}, recent)
  OBVIOUS
<1> PICK r : r = recent'
  OBVIOUS
<1> PICK o : o = on'
  OBVIOUS
<1>1. rest \in Seq(Ids) /\ IsInjective(rest) /\ Range(rest) = {t \in Ids \ {s} : on[t] > 0}
  BY RecentWithout
<1>2. s \in rows /\ o = [on EXCEPT ![s] = i] /\ r = (IF i = 0 THEN rest ELSE Append(rest, s))
      /\ rows' = rows /\ captures' = captures
  BY DEF Go
<1>3. o \in [Ids -> Nat] /\ o[s] = i /\ \A t \in Ids \ {s} : o[t] = on[t]
  BY <1>2, CuesAreCues DEF ShowOK
<1>4. \A t \in Ids : o[t] <= Len(CuesOf[t]) /\ (t \notin rows => o[t] = 0)
  BY <1>2, <1>3, CuesAreCues DEF ShowOK
<1>5. r \in Seq(Ids) /\ IsInjective(r) /\ Range(r) = {t \in Ids : o[t] > 0}
  <2>1. CASE i = 0
    <3>1. \A t \in Ids : o[t] > 0 <=> t # s /\ on[t] > 0
      BY <1>3, <2>1
    <3>2. r = rest /\ {t \in Ids : o[t] > 0} = {t \in Ids \ {s} : on[t] > 0}
      BY <1>2, <2>1, <3>1
    <3> QED BY <1>1, <3>2
  <2>2. CASE i # 0
    <3>1. r = Append(rest, s) /\ s \notin Range(rest)
      BY <1>1, <1>2, <2>2
    <3>2. r \in Seq(Ids)
      BY <1>1, <3>1, AppendProperties
    <3>3. IsInjective(r)
      BY <1>1, <3>1, OnceMore
    <3>4. IsSeq(rest)
      BY <1>1 DEF IsSeq
    <3>5. Range(r) = Range(rest) \cup {s}
      BY <3>1, <3>4, RangeOfAppended
    <3> QED BY <1>1, <1>3, <2>2, <3>2, <3>3, <3>5
  <2> QED BY <2>1, <2>2
<1> QED BY <1>2, <1>3, <1>4, <1>5 DEF ShowOK

LEMMA NextCueIs ==
    ASSUME ShowOK, NEW s \in Ids, GoesOn(s)
    PROVE  NextCue(s) \in 1 .. Len(CuesOf[s])
<1>1. Len(CuesOf[s]) \in Nat /\ on[s] \in Nat /\ on[s] <= Len(CuesOf[s]) /\ CuesOf[s] \in Seq(Cues)
  BY CuesAreCues DEF ShowOK
<1>2. CuesOf[s] # <<>> => Len(CuesOf[s]) # 0
  BY <1>1, EmptySeq
<1> QED BY <1>1, <1>2 DEF NextCue, GoesOn

\* Every command of a sequence that is not a deletion goes to a place in its stack.
LEMMA CommandGoes ==
    ASSUME ShowOK, NEW s \in Ids, Command(s)
    PROVE  DeleteSequence(s) \/ \E i \in 0 .. Len(CuesOf[s]) : Go(s, i)
<1>1. Len(CuesOf[s]) \in Nat /\ on[s] \in Nat /\ on[s] <= Len(CuesOf[s])
      /\ DOMAIN CuesOf[s] = 1 .. Len(CuesOf[s])
  BY CuesAreCues DEF ShowOK
<1>2. CASE GoNext(s)
  BY <1>1, <1>2, NextCueIs DEF GoNext
<1>3. CASE GoBack(s)
  BY <1>1, <1>3 DEF GoBack
<1>4. CASE Off(s)
  BY <1>1, <1>4 DEF Off
<1>5. CASE \E c \in Cues : GoToCue(s, c)
  <2> PICK c \in Cues : GoToCue(s, c)
    BY <1>5
  <2>1. CASE c \in Range(CuesOf[s])
    <3> PICK i : i = CHOOSE n \in DOMAIN CuesOf[s] : CuesOf[s][n] = c
      OBVIOUS
    <3>1. i \in DOMAIN CuesOf[s] /\ Go(s, i)
      BY <2>1 DEF GoToCue, Range
    <3> QED BY <1>1, <3>1
  <2>2. CASE c \notin Range(CuesOf[s])
    BY <1>1, <2>2 DEF GoToCue
  <2> QED BY <2>1, <2>2
<1> QED BY <1>2, <1>3, <1>4, <1>5 DEF Command

\* A step of the show leaves the stage and what was played alone.
LEMMA ShowStep ==
    ASSUME Inv, ShowOK', owed < Burst, owed' = owed + 1, edited' \in BOOLEAN,
           rows' \subseteq rows, UNCHANGED own
    PROVE  Inv'
<1>1. OwnOK'
  <2>1. owed \in Nat /\ Burst \in Nat
    BY PlaybackAssumption DEF Inv, OwnOK
  <2>2. owed' \in 0..Burst /\ owed' > 0
    BY <2>1
  <2> QED BY <2>2 DEF Inv, OwnOK, own
<1>2. PlayedOK' /\ StageOK' /\ FollowsOwn'
  BY DEF Inv, PlayedOK, StageOK, FollowsOwn, own
<1>3. NothingMoved'
  <2>1. owed \in Nat
    BY DEF Inv, OwnOK
  <2>2. owed' # 0
    BY <2>1
  <2> QED BY <2>2 DEF NothingMoved
<1> QED BY <1>1, <1>2, <1>3 DEF Inv

LEMMA CommandHolds ==
    ASSUME Inv, NEW s \in Ids, Command(s)
    PROVE  Inv'
<1>1. ShowOK /\ edited \in BOOLEAN
  BY DEF Inv, OwnOK
<1>2. CASE \E i \in 0 .. Len(CuesOf[s]) : Go(s, i)
  <2> PICK i \in 0 .. Len(CuesOf[s]) : Go(s, i)
    BY <1>2
  <2>1. ShowOK'
    BY <1>1, GoShows
  <2> QED BY <1>1, <2>1, ShowStep DEF Go
<1>3. CASE DeleteSequence(s)
  <2> PICK r : r = recent'
    OBVIOUS
  <2> PICK o : o = on'
    OBVIOUS
  <2>1. s \in rows /\ rows' = rows \ {s} /\ o = [on EXCEPT ![s] = 0] /\ captures' = captures
        /\ r = Among(Ids \ {s}, recent)
    BY <1>3 DEF DeleteSequence
  <2>2. r \in Seq(Ids) /\ IsInjective(r) /\ Range(r) = {t \in Ids \ {s} : on[t] > 0}
    BY <1>1, <2>1, RecentWithout
  <2>3. o \in [Ids -> Nat] /\ o[s] = 0 /\ \A t \in Ids \ {s} : o[t] = on[t]
    BY <1>1, <2>1 DEF ShowOK
  <2>4. \A t \in Ids : o[t] <= Len(CuesOf[t]) /\ (t \notin rows \ {s} => o[t] = 0)
    BY <1>1, <2>3, CuesAreCues DEF ShowOK
  <2>5. {t \in Ids : o[t] > 0} = {t \in Ids \ {s} : on[t] > 0}
    <3>1. \A t \in Ids : o[t] > 0 <=> t # s /\ on[t] > 0
      BY <2>3
    <3> QED BY <3>1
  <2>6. ShowOK'
    <3>1. rows' \subseteq Ids /\ captures' \in [Cues -> [Keys -> Captures \cup {NoCapture}]]
      BY <1>1, <2>1 DEF ShowOK
    <3>2. Range(r) = {t \in Ids : o[t] > 0}
      BY <2>2, <2>5
    <3>3. \A t \in Ids : o[t] <= Len(CuesOf[t]) /\ (t \notin rows' => o[t] = 0)
      BY <2>1, <2>4
    <3> QED BY ONLY <2>2, <2>3, <3>1, <3>2, <3>3, o = on', r = recent' DEF ShowOK
  <2> QED BY <1>1, <1>3, <2>1, <2>6, ShowStep DEF DeleteSequence
<1> QED BY <1>1, <1>2, <1>3, CommandGoes

LEMMA EditHolds ==
    ASSUME Inv, NEW e \in Edits, Edit(e)
    PROVE  Inv'
<1>1. e.cue \in Cues /\ e.key \in Keys /\ e.says \in Captures \cup {NoCapture}
  BY PlaybackAssumption
<1>2. captures' \in [Cues -> [Keys -> Captures \cup {NoCapture}]]
  BY <1>1 DEF Edit, Inv, ShowOK
<1>3. ShowOK'
  BY <1>2 DEF Edit, Inv, ShowOK
<1> QED BY <1>3, ShowStep DEF Edit

LEMMA FlowHolds ==
    ASSUME Inv, NEW k \in Flowed, SetParameter(k) \/ ReleaseTrack(k)
    PROVE  Inv'
<1>1. k \in Keys
  BY PlaybackAssumption
<1>2. ShowOK' /\ PlayedOK' /\ FollowsOwn' /\ rows' = rows
  BY DEF SetParameter, ReleaseTrack, Inv, ShowOK, PlayedOK, FollowsOwn, show
<1>3. OwnOK' /\ owed' # 0
  <2>1. owed \in Nat /\ Burst \in Nat /\ owed < Burst /\ owed' = owed + 1
    BY PlaybackAssumption DEF Inv, OwnOK, SetParameter, ReleaseTrack
  <2>2. owed' \in 0..Burst /\ owed' > 0
    BY <2>1
  <2> QED BY <2>2 DEF Inv, OwnOK, SetParameter, ReleaseTrack
<1>4. NothingMoved'
  BY <1>3 DEF NothingMoved
<1>5. StageOK'
  <2>1. CASE ReleaseTrack(k)
    BY <2>1 DEF ReleaseTrack, Inv, StageOK
  <2>2. CASE SetParameter(k)
    <3> PICK at : at = stage[k]
      OBVIOUS
    <3>1. at \in OnKey(k) /\ stage \in [Keys -> Spots]
      BY <1>1 DEF Inv, StageOK
    <3> PICK new : new = [at EXCEPT !.driver = SetOutright]
      OBVIOUS
    <3>4. stage' = [stage EXCEPT ![k] = new]
      BY <2>2 DEF SetParameter
    <3>5. new \in OnKey(k)
      BY <1>1, <3>1, SetOutrightIs
    <3>6. new \in Spots
      BY <3>5 DEF OnKey
    <3>7. stage' \in [Keys -> Spots] /\ stage'[k] = new /\ \A h \in Keys \ {k} : stage'[h] = stage[h]
      BY <1>1, <3>1, <3>4, <3>6
    <3> QED BY <3>5, <3>7 DEF Inv, StageOK
  <2> QED BY <2>1, <2>2
<1> QED BY <1>2, <1>3, <1>4, <1>5 DEF Inv

LEMMA RestartHolds == ASSUME Inv, Restart PROVE Inv'
<1>1. ShowOK' /\ rows' = rows
  BY DEF Restart, Inv, ShowOK, show
<1>2. Burst \in Nat \ {0} /\ owed' = Burst
  BY PlaybackAssumption DEF Restart
<1>3. OwnOK' /\ owed' # 0
  <2>1. owed' \in 0..Burst /\ owed' > 0
    BY <1>2
  <2>2. edited' \in BOOLEAN
    BY DEF Restart
  <2> QED BY <2>1, <2>2 DEF Restart, OwnOK
<1>4. PlayedOK' /\ FollowsOwn' /\ NothingMoved'
  BY <1>3 DEF Restart, PlayedOK, FollowsOwn, NothingMoved
<1>5. StageOK'
  <2>1. \A k \in Keys : [driver |-> Undriven, beside |-> <<>>] \in OnKey(k)
    BY DriversAre, NoneIsPlaced
  <2> QED BY <2>1 DEF Restart, StageOK, OnKey
<1> QED BY <1>1, <1>3, <1>4, <1>5 DEF Inv

LEMMA ConcatOnce ==
    ASSUME NEW V, NEW s \in Seq(V), NEW t \in Seq(V), IsInjective(s), IsInjective(t),
           \A x \in Range(s) : x \notin Range(t)
    PROVE  s \o t \in Seq(V) /\ IsInjective(s \o t) /\ Range(s \o t) = Range(s) \cup Range(t)
<1> PICK c : c = s \o t
  OBVIOUS
<1>1. IsSeq(s) /\ IsSeq(t)
  BY DEF IsSeq
<1>2. c \in Seq(V) /\ Range(c) = Range(s) \cup Range(t)
  BY <1>1, ConcatProperties, RangeOfConcat
<1>3. /\ Len(s) \in Nat /\ DOMAIN s = 1 .. Len(s) /\ Len(t) \in Nat /\ DOMAIN t = 1 .. Len(t)
      /\ DOMAIN c = 1 .. Len(s) + Len(t)
      /\ \A i \in 1 .. Len(s) + Len(t) : c[i] = IF i <= Len(s) THEN s[i] ELSE t[i - Len(s)]
  BY LenProperties, ConcatProperties
<1>4. ASSUME NEW i \in DOMAIN c, NEW j \in DOMAIN c, c[i] = c[j] PROVE i = j
  <2>1. CASE i <= Len(s) /\ j <= Len(s)
    BY <1>3, <1>4, <2>1 DEF IsInjective
  <2>2. CASE i > Len(s) /\ j > Len(s)
    <3>1. i - Len(s) \in DOMAIN t /\ j - Len(s) \in DOMAIN t /\ t[i - Len(s)] = t[j - Len(s)]
      BY <1>3, <1>4, <2>2
    <3>2. i - Len(s) = j - Len(s)
      BY <3>1 DEF IsInjective
    <3> QED BY <1>3, <3>2
  <2>3. CASE i <= Len(s) /\ j > Len(s)
    <3>1. i \in DOMAIN s /\ j - Len(s) \in DOMAIN t /\ s[i] = t[j - Len(s)]
      BY <1>3, <1>4, <2>3
    <3> QED BY <3>1 DEF Range
  <2>4. CASE i > Len(s) /\ j <= Len(s)
    <3>1. j \in DOMAIN s /\ i - Len(s) \in DOMAIN t /\ s[j] = t[i - Len(s)]
      BY <1>3, <1>4, <2>4
    <3> QED BY <3>1 DEF Range
  <2> QED BY <1>3, <2>1, <2>2, <2>3, <2>4
<1> QED BY <1>2, <1>4 DEF IsInjective

\* Which follows a pass sends on.
Going(due) == {s \in due \cap rows : Leads /\ GoesOn(s)}

LEMMA GoOnShows ==
    ASSUME ShowOK, NEW due, GoOn(due), UNCHANGED <<rows, captures>>
    PROVE  /\ ShowOK'
           /\ owed' = 0 => (on' = on /\ Going(due) = {})
           /\ owed' \in {0, 1}
<1> PICK going : going = Going(due)
  OBVIOUS
<1> PICK o : o = on'
  OBVIOUS
<1> PICK r : r = recent'
  OBVIOUS
<1>1. /\ o = [s \in Ids |-> IF s \in going THEN NextCue(s) ELSE on[s]]
      /\ r = Among(Ids \ going, recent) \o Among(going, List)
      /\ owed' = IF going = {} THEN 0 ELSE 1
  BY DEF GoOn, Going
<1>2. going \subseteq rows /\ going \subseteq Ids /\ \A s \in going : GoesOn(s)
  BY DEF Going, ShowOK
<1>3. \A s \in going : NextCue(s) \in 1 .. Len(CuesOf[s])
  BY <1>2, NextCueIs
<1>4. \A s \in Ids : o[s] = IF s \in going THEN NextCue(s) ELSE on[s]
  BY <1>1
<1>5. \A s \in Ids : on[s] \in Nat /\ on[s] <= Len(CuesOf[s]) /\ (s \notin rows => on[s] = 0)
                     /\ Len(CuesOf[s]) \in Nat
  BY CuesAreCues DEF ShowOK
<1>6. o \in [Ids -> Nat]
  BY <1>1, <1>3, <1>5
<1>7. \A s \in Ids : o[s] <= Len(CuesOf[s]) /\ (s \notin rows => o[s] = 0)
  BY <1>2, <1>3, <1>4, <1>5
<1> PICK rest : rest = Among(Ids \ going, recent)
  OBVIOUS
<1> PICK more : more = Among(going, List)
  OBVIOUS
<1>8. rest \in Seq(Ids) /\ IsInjective(rest) /\ Range(rest) = {t \in Ids \ going : on[t] > 0}
  BY RecentWithout
<1>9. more \in Seq(Ids) /\ IsInjective(more) /\ Range(more) = going
  <2>1. List \in Seq(Ids) /\ IsInjective(List) /\ Range(List) = Ids
    BY PlaybackAssumption DEF Ids
  <2>2. more \in Seq(Ids) /\ IsInjective(more) /\ Range(more) = Range(List) \cap going
    BY <2>1, AmongHas
  <2> QED BY <1>2, <2>1, <2>2
<1>10. r \in Seq(Ids) /\ IsInjective(r) /\ Range(r) = Range(rest) \cup Range(more)
  <2>1. \A x \in Range(rest) : x \notin Range(more)
    BY <1>8, <1>9
  <2>2. r = rest \o more
    BY <1>1
  <2>3. rest \in Seq(Ids) /\ more \in Seq(Ids) /\ IsInjective(rest) /\ IsInjective(more)
    BY <1>8, <1>9
  <2> QED BY ONLY <2>1, <2>2, <2>3, ConcatOnce
<1>11. Range(r) = {s \in Ids : o[s] > 0}
  <2>1. \A s \in Ids : o[s] > 0 <=> (s \in going \/ (s \notin going /\ on[s] > 0))
    BY <1>3, <1>4, <1>5
  <2> QED BY <1>2, <1>8, <1>9, <1>10, <2>1
<1>12. ShowOK'
  BY <1>6, <1>7, <1>10, <1>11 DEF ShowOK
<1>13. going = {} => o = on
  <2>1. on = [s \in Ids |-> on[s]]
    BY DEF ShowOK
  <2> QED BY <1>1, <2>1
<1> QED BY <1>1, <1>12, <1>13

\* After a pass every key is what its sequences made of it.
LEMMA PassStages ==
    ASSUME Inv, NEW due, NEW there, Pass(due, there)
    PROVE  StageOK' /\ stage' = StageAfter(there)
<1>1. stage' = StageAfter(there)
  BY DEF Pass
<1>2. ASSUME NEW k \in Keys PROVE StageAfter(there)[k] \in OnKey(k)
  <2>1. stage[k] \in OnKey(k) /\ ShowOK /\ PlayedOK
    BY DEF Inv, StageOK
  <2>2. PICK run \in [0 .. Len(List) -> OnKey(k)] : PassRun(run, k, there)
    BY <2>1, PassRuns
  <2>3. Len(List) \in 0 .. Len(List)
    BY ListIs
  <2> QED BY <2>2, <2>3 DEF PassRun
<1>3. StageAfter(there) = [k \in Keys |-> StageAfter(there)[k]]
  BY DEF StageAfter
<1>4. \A k \in Keys : StageAfter(there)[k] \in Spots
  BY <1>2 DEF OnKey
<1>5. StageAfter(there) \in [Keys -> Spots]
  BY <1>3, <1>4
<1> QED BY <1>1, <1>2, <1>5 DEF StageOK

LEMMA PassHolds ==
    ASSUME Inv, NEW due \in SUBSET Ids, NEW there, Pass(due, there)
    PROVE  Inv'
<1>1. GoOn(due) /\ UNCHANGED <<rows, captures>> /\ ShowOK
  BY DEF Pass, Inv
<1>2. ShowOK' /\ (owed' = 0 => on' = on) /\ owed' \in {0, 1} /\ rows' = rows
  BY <1>1, GoOnShows
<1>3. StageOK'
  BY PassStages
<1>4. playing' = [s \in Ids |-> ActiveCue(s)] /\ edited' = FALSE /\ stopped' = {}
      /\ armed' = ArmedAfter \ due
  BY DEF Pass
<1>5. \A s \in Ids : ActiveCue(s) \in Range(CuesOf[s]) \cup {Nobody}
                     /\ ActiveCue(s) \in Cues \cup {Nobody}
  BY <1>1, ActiveCueIs, CuesAreCues
<1>6. PlayedOK'
  BY <1>4, <1>5 DEF PlayedOK
<1>7. OwnOK'
  <2>1. Burst \in Nat \ {0}
    BY PlaybackAssumption
  <2>2. owed' \in 0..Burst
    BY <1>2, <2>1
  <2>3. edited' \in BOOLEAN /\ ~edited'
    BY <1>4
  <2>4. ArmedAfter \subseteq Ids
    BY DEF ArmedAfter, Inv, OwnOK, ShowOK
  <2>5. playing' \in [Ids -> Cues \cup {Nobody}]
    BY <1>4, <1>5
  <2> QED BY <1>4, <2>2, <2>3, <2>4, <2>5 DEF OwnOK
<1>8. NothingMoved'
  <2> SUFFICES ASSUME owed' = 0, NEW s \in rows PROVE playing'[s] = ActiveCue(s)'
    BY <1>2 DEF NothingMoved
  <2>1. s \in Ids
    BY <1>1 DEF ShowOK
  <2>2. ActiveCue(s)' = ActiveCue(s)
    BY <1>2 DEF ActiveCue, IsOn
  <2> QED BY <1>4, <2>1, <2>2
<1>9. FollowsOwn'
  <2> SUFFICES ASSUME NEW s \in rows, s \in ArmedAfter PROVE ActiveCue(s) \in Follows
    BY <1>1, <1>2, <1>4 DEF FollowsOwn, ShowOK
  <2> QED BY DEF ArmedAfter, Moved, Inv, FollowsOwn
<1> QED BY <1>2, <1>3, <1>6, <1>7, <1>8, <1>9 DEF Inv

LEMMA NextHolds == Inv /\ [Next]_vars => Inv'
<1> SUFFICES ASSUME Inv, [Next]_vars PROVE Inv'
  OBVIOUS
<1>1. CASE \E s \in Ids : Command(s)
  BY <1>1, CommandHolds
<1>2. CASE \E e \in Edits : Edit(e)
  BY <1>2, EditHolds
<1>3. CASE \E k \in Flowed : SetParameter(k) \/ ReleaseTrack(k)
  BY <1>3, FlowHolds
<1>4. CASE Restart
  BY <1>4, RestartHolds
<1>5. CASE \E due \in SUBSET Ids, there \in {{}, Keys} : Pass(due, there)
  BY <1>5, PassHolds
<1>6. CASE UNCHANGED vars
  BY <1>6 DEF vars, show, own, Inv, ShowOK, OwnOK, PlayedOK, StageOK, NothingMoved, FollowsOwn,
              ActiveCue, IsOn
<1> QED BY <1>1, <1>2, <1>3, <1>4, <1>5, <1>6 DEF Next

-----------------------------------------------------------------------------
(* What that says of every behaviour.                                      *)

LEMMA AlwaysInv == Spec => []Inv
<1> QED BY InitHolds, NextHolds, PTL DEF Spec

LEMMA InvTypes == Inv => TypeOK
<1> SUFFICES ASSUME Inv PROVE TypeOK
  OBVIOUS
<1>1. ShowOK /\ OwnOK /\ stage \in [Keys -> Spots]
  BY DEF Inv, StageOK
<1>2. stopped \subseteq Keys
  BY <1>1, PlaybackAssumption DEF OwnOK
<1>3. stage \in [Keys -> [driver : Drivers, beside : Seq([of : Ids, driver : Drivers])]]
  BY <1>1 DEF Spots, Layers
<1> QED BY <1>1, <1>2, <1>3 DEF TypeOK, ShowOK, OwnOK

\* Every variable has its type, whatever is done between two passes.
THEOREM PlaybackTypes == Spec => []TypeOK
<1> QED BY AlwaysInv, InvTypes, PTL

LEMMA InvOnce == Inv => EachOnce
<1> SUFFICES ASSUME Inv, NEW k \in Keys, NEW i \in DOMAIN stage[k].beside
             PROVE  /\ stage[k].beside[i].of # SequenceOf(stage[k].driver.cue)
                    /\ \A j \in DOMAIN stage[k].beside :
                          stage[k].beside[i].of = stage[k].beside[j].of => i = j
  BY DEF EachOnce
<1>1. ShowOK /\ stage[k] \in Spots /\ Placed(stage[k])
  BY DEF Inv, StageOK, OnKey
<1> PICK at : at = stage[k]
  OBVIOUS
<1>2. at \in Spots /\ Placed(at)
  BY <1>1
<1>3. \A j \in DOMAIN at.beside : at.beside[j] \in Range(at.beside)
  BY DEF Range
<1>4. at.beside[i].of \in Ids /\ at.driver.cue \notin Range(CuesOf[at.beside[i].of])
  BY <1>2, <1>3, SpotIs DEF Placed
<1> PICK s : s = SequenceOf(at.driver.cue)
  OBVIOUS
<1>5. s # Nobody => at.driver.cue \in Range(CuesOf[s])
  BY <1>1, SequenceOfIs
<1>6. at.beside[i].of # s
  BY <1>4, <1>5, NobodyIsNoCue
<1>7. \A j \in DOMAIN at.beside : at.beside[i].of = at.beside[j].of => at.beside[i] = at.beside[j]
  BY <1>2, <1>3 DEF Placed
<1>8. \A j \in DOMAIN at.beside : at.beside[i] = at.beside[j] => i = j
  BY <1>2 DEF Placed, IsInjective
<1> QED BY <1>6, <1>7, <1>8

\* Merge: however sequences come and go on a key, in whichever order a pass
\* takes them, none is on it twice.
THEOREM NoneTwice == Spec => []EachOnce
<1> QED BY AlwaysInv, InvOnce, PTL

LEMMA InvFollows == Inv => FollowsBelong
<1> SUFFICES ASSUME Inv, owed = 0, NEW s \in armed \cap rows PROVE ActiveCue(s) \in Follows
  BY DEF FollowsBelong, Settled
<1> QED BY DEF Inv, NothingMoved, FollowsOwn

\* track_cue_changes: a follow never outlives the cue it was set by, whatever
\* moved its sequence and however many commands a pass found.
THEOREM FollowsAreOwn == Spec => []FollowsBelong
<1> QED BY AlwaysInv, InvFollows, PTL

-----------------------------------------------------------------------------
(***************************************************************************)
(* A standing fade heads to what its cue says. Between an edit and the     *)
(* next pass it need not; the pass that finds the edit makes it so before  *)
(* any sequence is moved, and moving one starts what cues say or leaves    *)
(* what is there.                                                          *)
(***************************************************************************)

StandsNow(at, k) ==
    at.driver.cue # Nobody /\ at.driver.to # "effect" => at.driver.to \in SaysNow(at.driver.cue, k)

StandsOnKey(k) == k \notin Intensity => StandsNow(stage[k], k)

Standing == ~edited => \A k \in Keys : StandsOnKey(k)

LEMMA SaysItsOwn ==
    ASSUME NEW c, NEW k, Captures_(c, k)
    PROVE  SaysNow(c, k) = {captures[c][k].to}
BY DEF SaysNow

LEMMA SaysAnothers ==
    ASSUME NEW s \in Ids, NEW c \in Range(CuesOf[s]), NEW w \in Range(CuesOf[s]), NEW k,
           ~Captures_(c, k), Captures_(w, k)
    PROVE  captures[w][k].to \in SaysNow(c, k)
<1>1. w \in Cues /\ {c, w} \subseteq Range(CuesOf[s])
  BY CuesAreCues
<1> QED BY <1>1 DEF SaysNow

LEMMA CaptureStands ==
    ASSUME NEW c, NEW k, Captures_(c, k), NEW at,
           at.driver = Driver(c, IF captures[c][k].fx THEN "effect" ELSE captures[c][k].to)
    PROVE  StandsNow(at, k)
<1>1. at.driver.cue = c /\ at.driver.to = IF captures[c][k].fx THEN "effect" ELSE captures[c][k].to
  BY DEF Driver
<1> QED BY <1>1, SaysItsOwn DEF StandsNow

LEMMA NobodyStands ==
    ASSUME NEW at, NEW k, at.driver \in {Undriven, Unclaimed, SetOutright}
    PROVE  StandsNow(at, k)
BY DriversAre DEF StandsNow

LEMMA SameStands ==
    ASSUME NEW at, NEW new, NEW k, StandsNow(at, k), new.driver = at.driver
    PROVE  StandsNow(new, k)
BY DEF StandsNow

\* What a sequence that moves makes of a key that stands.
LEMMA TrackChangeStands ==
    ASSUME ShowOK, PlayedOK, NEW k \in Keys, k \notin Intensity, NEW at \in OnKey(k), StandsNow(at, k),
           NEW t \in Ids, NEW home, NEW new, new = TrackChange(at, t, k, home)
    PROVE  StandsNow(new, k)
<1>1. TrackChangeEnds(at, new, t, k)
  BY TrackChangeIs
<1>2. CASE new = at
  BY <1>2
<1>3. CASE \E p \in OnKey(k) : Parked(at, p, t) /\ MovedEnds(p, new, t, k)
  <2> PICK p \in OnKey(k) : Parked(at, p, t) /\ MovedEnds(p, new, t, k)
    BY <1>3
  <2>1. StandsNow(p, k)
    BY SameStands, NobodyStands DEF Parked
  <2>2. p.beside = <<>>
    BY DEF OnKey
  <2>3. Others(p, t) = {}
    BY <2>2 DEF Others, Range
  <2>4. CASE LetGoEnds(p, new, t, k)
    <3>1. ~Promoted(p, new, t)
      BY <2>3 DEF Promoted
    <3>2. CASE Stays(p, new, t) \/ Left(p, new, t, k)
      BY <2>1, <3>2, SameStands DEF Stays, Left
    <3>3. CASE Handed(p, new, t, k)
      BY <3>3, CaptureStands DEF Handed, WantedOf
    <3>4. CASE GoesHome(p, new, t, k)
      BY <3>4, NobodyStands DEF GoesHome
    <3> QED BY <2>4, <3>1, <3>2, <3>3, <3>4 DEF LetGoEnds
  <2>5. CASE new = p
    BY <2>1, <2>5
  <2>6. CASE Started(p, new, TrackedFrom(t, k), t, k)
    BY <2>6, CaptureStands DEF Started
  <2> QED BY <2>4, <2>5, <2>6 DEF MovedEnds
<1> QED BY <1>1, <1>2, <1>3 DEF TrackChangeEnds

\* An edit is looked for on every key before any sequence is moved.
LEMMA MendedStands ==
    ASSUME ShowOK, NEW k \in Keys, NEW r \in OnKey(k), NEW d \in OnKey(k), NEW s \in OnKey(k), NEW home,
           stage[k] \in OnKey(k), r = Repoint(stage[k], k), d = ReleaseDropped(r, k, home),
           s = StartNew(d, k)
    PROVE  StandsNow(s, k)
<1> PICK at : at = stage[k]
  OBVIOUS
<1> PICK w : w = Wanted(k, Nobody)
  OBVIOUS
<1>1. CASE \E t \in rows : Started(d, s, w, t, k)
  BY <1>1, CaptureStands DEF Started
<1>2. CASE /\ s = d
           /\ w # Nobody => \/ d.driver.cue = w
                            \/ d.driver.cue \notin Range(CuesOf[SequenceOf(w)])
                            \/ d.driver.to = captures[w][k].to
  <2>1. CASE d = r /\ (r.driver.cue = Nobody \/ Captures_(r.driver.cue, k))
    <3>1. at \in OnKey(k) /\ r = Repoint(at, k)
      OBVIOUS
    <3>2. /\ r.driver.cue = at.driver.cue
          /\ IF at.driver.cue # Nobody /\ at.driver.to # "effect" /\ Captures_(at.driver.cue, k)
             THEN r.driver.to = captures[at.driver.cue][k].to ELSE r = at
      BY <3>1, RepointIs
    <3>3. CASE r.driver.cue = Nobody \/ r.driver.to = "effect"
      BY <1>2, <2>1, <3>3 DEF StandsNow
    <3>4. CASE r.driver.cue # Nobody /\ r.driver.to # "effect"
      <4>1. Captures_(at.driver.cue, k)
        BY <2>1, <3>2, <3>4
      <4>2. r.driver.to = captures[r.driver.cue][k].to
        BY <3>2, <3>4, <4>1
      <4> QED BY <1>2, <2>1, <3>2, <4>1, <4>2, SaysItsOwn DEF StandsNow
    <3> QED BY <3>3, <3>4
  <2>2. CASE /\ d = r /\ r.driver.cue # Nobody /\ ~Captures_(r.driver.cue, k) /\ w # Nobody
             /\ r.driver.cue \in Range(CuesOf[SequenceOf(w)])
    <3>1. PICK t : WantedOf(w, t, k, Nobody)
      BY <2>2, WantedIs
    <3>2. t \in Ids /\ w \in Range(CuesOf[t]) /\ Captures_(w, k) /\ SequenceOf(w) = t
      BY <3>1 DEF WantedOf
    <3>3. d.driver.to = captures[w][k].to
      BY <1>2, <2>2, <3>2
    <3>4. captures[w][k].to \in SaysNow(d.driver.cue, k)
      BY <2>2, <3>2, SaysAnothers
    <3> QED BY <1>2, <3>3, <3>4 DEF StandsNow
  <2>3. CASE d.driver \in {Undriven, Unclaimed}
    BY <1>2, <2>3, NobodyStands
  <2>4. CASE \E t \in rows : Started(r, d, w, t, k)
    BY <1>2, <2>4, CaptureStands DEF Started
  <2> QED BY <2>1, <2>2, <2>3, <2>4, ReleaseDroppedIs
<1> QED BY <1>1, <1>2, StartNewIs

LEMMA StopStands ==
    ASSUME NEW k \in Keys, NEW at \in OnKey(k), StandsNow(at, k), NEW home,
           NEW new, new = StopTrack(at, k, home)
    PROVE  StandsNow(new, k)
<1>1. new = at \/ new.driver = SetOutright
  BY StopTrackIs DEF LetGoByATake
<1> QED BY <1>1, NobodyStands

LEMMA BegunStands ==
    ASSUME Inv, Standing, NEW k \in Keys, k \notin Intensity, NEW there
    PROVE  StandsNow(Begun(k, there), k)
<1>1. stage[k] \in OnKey(k) /\ ShowOK
  BY DEF Inv, StageOK
<1>2. CASE ~edited
  <2>1. StandsNow(stage[k], k)
    BY <1>2 DEF Standing, StandsOnKey
  <2> QED BY <1>1, <1>2, <2>1, BegunIs, StopStands
<1>3. CASE edited
  <2>1. PICK r \in OnKey(k), d \in OnKey(k), s \in OnKey(k) :
          /\ r = Repoint(stage[k], k) /\ d = ReleaseDropped(r, k, k \in there)
          /\ s = StartNew(d, k) /\ Begun(k, there) = StopTrack(s, k, k \in there)
    BY <1>1, <1>3, BegunIs
  <2> PICK home : home = (k \in there)
    OBVIOUS
  <2>2. StandsNow(s, k)
    BY ONLY <1>1, k \in Keys, r \in OnKey(k), d \in OnKey(k), s \in OnKey(k), <2>1, MendedStands
  <2> QED BY <2>1, <2>2, StopStands
<1> QED BY <1>2, <1>3

LEMMA PassStands ==
    ASSUME Inv, Standing, NEW due, NEW there, Pass(due, there)
    PROVE  Standing'
<1>1. stage' = StageAfter(there) /\ captures' = captures
  BY PassStages DEF Pass
<1>2. ASSUME NEW k \in Keys, k \notin Intensity PROVE StandsNow(StageAfter(there)[k], k)
  <2>1. ShowOK /\ PlayedOK /\ stage[k] \in OnKey(k) /\ k \in Keys /\ k \notin Intensity
    BY <1>2 DEF Inv, StageOK
  <2>2. PICK run \in [0 .. Len(List) -> OnKey(k)] : PassRun(run, k, there)
    BY <2>1, PassRuns
  <2> PICK T : T = {i \in 0 .. Len(List) : StandsNow(run[i], k)}
    OBVIOUS
  <2>3. Len(List) \in Nat /\ \A i \in 1 .. Len(List) : List[i] \in Ids
    BY ListIs
  <2>4. 0 \in T
    BY <1>2, <2>2, <2>3, BegunStands DEF PassRun
  <2>5. ASSUME NEW i \in 1 .. Len(List), i - 1 \in T PROVE i \in T
    <3>1. PICK at : at = run[i - 1]
      OBVIOUS
    <3>2. PICK new : new = run[i]
      OBVIOUS
    <3>3. PICK t : t = List[i]
      OBVIOUS
    <3>4. PICK home : home = (k \in there)
      OBVIOUS
    <3>5. at \in OnKey(k) /\ StandsNow(at, k) /\ t \in Ids
      BY <2>3, <2>5, <3>1, <3>3
    <3>6. new = TrackChange(at, t, k, home)
      BY <2>2, <3>1, <3>2, <3>3, <3>4 DEF PassRun
    <3>7. StandsNow(new, k)
      BY ONLY <2>1, <3>5, <3>6, TrackChangeStands
    <3> QED BY <3>2, <3>7
  <2>6. 0 .. Len(List) \subseteq T
    BY ONLY <2>3, <2>4, <2>5, UpTo
  <2>7. Len(List) \in T
    BY <2>3, <2>6
  <2> QED BY <2>2, <2>7 DEF PassRun
<1>3. ASSUME NEW k \in Keys, k \notin Intensity PROVE StandsNow(stage[k], k)'
  BY <1>1, <1>2, <1>3 DEF StandsNow, SaysNow, Captures_
<1> QED BY <1>3 DEF Standing, StandsOnKey

\* The captures and the stage are as they were.
LEMMA SameStage ==
    ASSUME Standing, UNCHANGED <<captures, edited, stage>>
    PROVE  Standing'
BY DEF Standing, StandsOnKey, StandsNow, SaysNow, Captures_

LEMMA StandingHolds == Inv /\ Standing /\ [Next]_vars => Standing'
<1> SUFFICES ASSUME Inv, Standing, [Next]_vars PROVE Standing'
  OBVIOUS
<1>1. CASE \E s \in Ids : Command(s)
  <2> PICK s \in Ids : Command(s)
    BY <1>1
  <2>1. UNCHANGED <<captures, edited, own>>
    BY CommandGoes DEF Inv, Go, DeleteSequence
  <2> QED BY <2>1, SameStage DEF own
<1>2. CASE \E e \in Edits : Edit(e)
  BY <1>2 DEF Edit, Standing
<1>3. CASE \E k \in Flowed : SetParameter(k) \/ ReleaseTrack(k)
  <2> PICK f \in Flowed : SetParameter(f) \/ ReleaseTrack(f)
    BY <1>3
  <2>1. CASE ReleaseTrack(f)
    BY <2>1, SameStage DEF ReleaseTrack, show
  <2>2. CASE SetParameter(f)
    <3>1. captures' = captures /\ edited' = edited /\ stage' = [stage EXCEPT ![f].driver = SetOutright]
      BY <2>2 DEF SetParameter, show
    <3>2. stage \in [Keys -> Spots]
      BY DEF Inv, StageOK
    <3>3. ASSUME NEW k \in Keys, k \notin Intensity, ~edited PROVE StandsNow(stage[k], k)'
      <4>1. StandsNow(stage[k], k)
        BY <3>3 DEF Standing, StandsOnKey
      <4>2. CASE k # f
        <5>1. stage'[k] = stage[k]
          BY <3>1, <3>2, <4>2
        <5>2. \A c : SaysNow(c, k)' = SaysNow(c, k)
          BY <3>1 DEF SaysNow, Captures_
        <5> PICK d : d = stage[k].driver
          OBVIOUS
        <5>3. d.cue # Nobody /\ d.to # "effect" => d.to \in SaysNow(d.cue, k)'
          BY <4>1, <5>2 DEF StandsNow
        <5>4. stage'[k].driver = d
          BY <5>1
        <5> QED BY ONLY <5>3, <5>4 DEF StandsNow
      <4>3. CASE k = f
        <5>1. stage'[k].driver = SetOutright
          BY <3>1, <3>2, <4>3 DEF Spots
        <5> QED BY <5>1, DriversAre DEF StandsNow
      <4> QED BY <4>2, <4>3
    <3> QED BY <3>1, <3>3 DEF Standing, StandsOnKey
  <2> QED BY <2>1, <2>2
<1>4. CASE Restart
  BY <1>4 DEF Restart, Standing
<1>5. CASE \E due \in SUBSET Ids, there \in {{}, Keys} : Pass(due, there)
  BY <1>5, PassStands
<1>6. CASE UNCHANGED vars
  BY <1>6, SameStage DEF vars, show, own
<1> QED BY <1>1, <1>2, <1>3, <1>4, <1>5, <1>6 DEF Next

LEMMA StandingAtFirst == Init => Standing
<1> SUFFICES ASSUME Init, NEW k \in Keys PROVE StandsNow(stage[k], k)
  BY DEF Standing, StandsOnKey
<1>1. stage[k].driver = Undriven
  BY DEF Init
<1> QED BY <1>1, NobodyStands

LEMMA StandsIsCurrent == Inv /\ Standing => StandingIsCurrent
<1> SUFFICES ASSUME Inv, Standing, owed = 0, NEW k \in Keys \ Intensity
             PROVE  StandsNow(stage[k], k)
  BY DEF StandingIsCurrent, Settled, StandsNow
<1>1. ~edited
  BY DEF Inv, OwnOK
<1> QED BY <1>1 DEF Standing, StandsOnKey

\* repoint_edited_captures, release_dropped_captures and start_new_captures
\* between them miss no edit, made to whichever cue and however many a pass
\* finds at once: what stands heads to what a cue of its sequence says now.
THEOREM StandingHeadsToNow == Spec => []StandingIsCurrent
<1>1. Spec => []Inv
  BY AlwaysInv
<1>2. Inv /\ Inv' /\ Standing /\ [Next]_vars => Standing'
  BY StandingHolds
<1>3. Init => Inv
  BY InitHolds
<1> QED BY <1>1, <1>2, StandingAtFirst, StandsIsCurrent, PTL DEF Spec

-----------------------------------------------------------------------------
(***************************************************************************)
(* A pass in which only sequences that merge so move.                      *)
(***************************************************************************)

PlaysOn(at, s) == SequenceOf(at.driver.cue) = s \/ \E l \in Range(at.beside) : l.of = s

LEMMA PlaysIsPlaysOn ==
    ASSUME NEW s, NEW k
    PROVE  Plays(s, k) <=> PlaysOn(stage[k], s)
BY DEF Plays, PlaysOn, Range

\* Stopping its effects takes no other sequence off a key.
LEMMA ParkPlays ==
    ASSUME ShowOK, NEW k \in Keys, NEW at \in OnKey(k), NEW p \in OnKey(k), NEW t \in rows,
           Parked(at, p, t), NEW s \in rows, s # t, PlaysOn(at, s)
    PROVE  PlaysOn(p, s)
<1>1. CASE SequenceOf(at.driver.cue) = s
  <2>1. at.driver.cue \in Range(CuesOf[s]) /\ s \in Ids /\ t \in Ids
    BY <1>1, SequenceOfIs, NobodyIsNoCue DEF ShowOK
  <2>2. at.driver.cue \notin Range(CuesOf[t])
    BY <2>1, OneSequence
  <2>3. p.driver = at.driver
    BY <2>2 DEF Parked
  <2> QED BY <1>1, <2>3 DEF PlaysOn
<1>2. CASE \E l \in Range(at.beside) : l.of = s
  BY <1>2 DEF Parked, SameLayer, PlaysOn
<1> QED BY <1>1, <1>2 DEF PlaysOn

\* Nor does one letting go of it,
LEMMA LetGoPlays ==
    ASSUME ShowOK, NEW k \in Keys, NEW p \in OnKey(k), NEW new, NEW t \in rows,
           LetGoEnds(p, new, t, k), NEW s \in rows, s # t, IsOn(s), PlaysOn(p, s)
    PROVE  PlaysOn(new, s)
<1>0. s \in Ids /\ s # Nobody /\ p \in Spots /\ Placed(p)
  BY NobodyIsNoCue DEF ShowOK, OnKey
<1>1. SequenceOf(p.driver.cue) = s => ~NotHeld(p, t)
  BY <1>0 DEF NotHeld, PrimaryOwner
<1>2. \A l \in Range(p.beside) : l.of = s => l \in Others(p, t)
  BY DEF Others
<1>3. CASE Stays(p, new, t)
  BY <1>2, <1>3 DEF Stays, PlaysOn
<1>4. CASE NotHeld(p, t) /\ Promoted(p, new, t)
  <2>1. PICK m \in Range(p.beside) : m.of = s
    BY <1>1, <1>4 DEF PlaysOn
  <2>2. PICK l \in Others(p, t) : new.driver = l.driver /\ Range(new.beside) = Others(p, t) \ {l}
    BY <1>4 DEF Promoted
  <2>3. CASE l = m
    <3>1. m.driver.cue \in Range(CuesOf[s])
      BY <1>0, <2>1 DEF Placed
    <3>2. SequenceOf(m.driver.cue) = s
      BY <1>0, <3>1, SequenceOfIs
    <3> QED BY <2>2, <2>3, <3>2 DEF PlaysOn
  <2>4. CASE l # m
    BY <1>2, <2>1, <2>2, <2>4 DEF PlaysOn
  <2> QED BY <2>3, <2>4
<1>5. CASE NotHeld(p, t) /\ (Left(p, new, t, k) \/ Handed(p, new, t, k) \/ GoesHome(p, new, t, k))
  <2>1. Others(p, t) = {}
    BY <1>5 DEF Left, Handed, GoesHome
  <2>2. SequenceOf(p.driver.cue) # s
    BY <1>1, <1>5
  <2>3. \A l \in Range(p.beside) : l.of # s
    BY <1>2, <2>1
  <2> QED BY <2>2, <2>3 DEF PlaysOn
<1> QED BY <1>3, <1>4, <1>5 DEF LetGoEnds

\* nor one of those that merge taking it.
LEMMA StartedPlays ==
    ASSUME ShowOK, NEW k \in Intensity, NEW p \in OnKey(k), NEW new, NEW c, NEW t \in Htp,
           Started(p, new, c, t, k), NEW s \in rows, s # t, IsOn(s), PlaysOn(p, s)
    PROVE  PlaysOn(new, s)
<1>0. s # Nobody
  BY NobodyIsNoCue DEF ShowOK
<1>1. Range(new.beside) = Others(p, t) \cup Joined(p, t)
  BY DEF Started
<1>2. CASE SequenceOf(p.driver.cue) = s
  <2> PICK l : l = [of |-> s, driver |-> p.driver]
    OBVIOUS
  <2>1. Joined(p, t) = {l}
    BY <1>0, <1>2 DEF Joined, PrimaryOwner
  <2>2. l.of = s
    OBVIOUS
  <2> QED BY <1>1, <2>1, <2>2 DEF PlaysOn
<1>3. CASE \E l \in Range(p.beside) : l.of = s
  BY <1>1, <1>3 DEF PlaysOn, Others
<1> QED BY <1>2, <1>3 DEF PlaysOn

LEMMA TrackChangePlays ==
    ASSUME ShowOK, PlayedOK, NEW k \in Intensity, NEW at \in OnKey(k), NEW t \in Ids, NEW home,
           Moved(t) => t \in Htp, NEW new, new = TrackChange(at, t, k, home),
           NEW s \in rows, IsOn(s), ~Moved(s), PlaysOn(at, s)
    PROVE  PlaysOn(new, s)
<1>0. k \in Keys
  BY PlaybackAssumption
<1>1. TrackChangeEnds(at, new, t, k)
  BY <1>0, TrackChangeIs
<1>2. CASE new = at
  BY <1>2
<1>3. CASE Moved(t) /\ t \in rows /\ \E p \in OnKey(k) : Parked(at, p, t) /\ MovedEnds(p, new, t, k)
  <2> PICK p \in OnKey(k) : Parked(at, p, t) /\ MovedEnds(p, new, t, k)
    BY <1>3
  <2>1. s # t /\ t \in Htp /\ t \in rows
    BY <1>3
  <2>2. PlaysOn(p, s)
    BY <1>0, <2>1, ParkPlays
  <2>3. CASE LetGoEnds(p, new, t, k)
    BY <1>0, <2>1, <2>2, <2>3, LetGoPlays
  <2>4. CASE new = p
    BY <2>2, <2>4
  <2>5. CASE Started(p, new, TrackedFrom(t, k), t, k)
    BY <2>1, <2>2, <2>5, StartedPlays
  <2> QED BY <2>3, <2>4, <2>5 DEF MovedEnds
<1> QED BY <1>1, <1>2, <1>3 DEF TrackChangeEnds

LEMMA PassPlays ==
    ASSUME Inv, NEW due, NEW there, Pass(due, there), ~edited,
           \A t \in Ids : Moved(t) => t \in Htp,
           NEW k \in Intensity, NEW s \in rows, IsOn(s), ~Moved(s), PlaysOn(stage[k], s),
           ~TakenOver(s, k)
    PROVE  PlaysOn(StageAfter(there)[k], s)
<1>1. ShowOK /\ PlayedOK /\ stage[k] \in OnKey(k) /\ k \in Keys /\ k \in Intensity
  BY PlaybackAssumption DEF Inv, StageOK
<1>2. PICK run \in [0 .. Len(List) -> OnKey(k)] : PassRun(run, k, there)
  BY <1>1, PassRuns
<1> PICK T : T = {i \in 0 .. Len(List) : PlaysOn(run[i], s)}
  OBVIOUS
<1>3. Len(List) \in Nat /\ \A i \in 1 .. Len(List) : List[i] \in Ids
  BY ListIs
<1>4. 0 \in T
  <2> PICK at : at = stage[k]
    OBVIOUS
  <2> PICK new : new = Begun(k, there)
    OBVIOUS
  <2>1. at \in OnKey(k) /\ PlaysOn(at, s)
    BY <1>1
  <2>2. new = at \/ LetGoByATake(at, new, k)
    BY <1>1, BegunIs, StopTrackIs
  <2>3. LetGoByATake(at, new, k) => SequenceOf(at.driver.cue) # s
    BY DEF LetGoByATake, TakenOver
  <2>4. LetGoByATake(at, new, k) => new.beside = at.beside
    BY DEF LetGoByATake
  <2>5. PlaysOn(new, s)
    BY ONLY <2>1, <2>2, <2>3, <2>4 DEF PlaysOn
  <2> QED BY <1>2, <1>3, <2>5 DEF PassRun
<1>5. ASSUME NEW i \in 1 .. Len(List), i - 1 \in T PROVE i \in T
  <2>1. PICK at : at = run[i - 1]
    OBVIOUS
  <2>2. PICK new : new = run[i]
    OBVIOUS
  <2>3. PICK t : t = List[i]
    OBVIOUS
  <2>4. PICK home : home = (k \in there)
    OBVIOUS
  <2>5. at \in OnKey(k) /\ PlaysOn(at, s) /\ t \in Ids /\ (Moved(t) => t \in Htp)
    BY <1>3, <1>5, <2>1, <2>3
  <2>6. new = TrackChange(at, t, k, home)
    BY <1>2, <2>1, <2>2, <2>3, <2>4 DEF PassRun
  <2>7. s \in rows /\ IsOn(s) /\ ~Moved(s)
    OBVIOUS
  <2>8. PlaysOn(new, s)
    BY ONLY <1>1, <2>5, <2>6, <2>7, TrackChangePlays
  <2> QED BY <2>2, <2>8
<1>6. 0 .. Len(List) \subseteq T
  BY ONLY <1>3, <1>4, <1>5, UpTo
<1>7. Len(List) \in T
  BY <1>3, <1>6
<1> QED BY <1>2, <1>7 DEF PassRun

\* Only a pass leaves nothing owed.
LEMMA OnlyAPassSettles ==
    ASSUME Inv, Next, owed' = 0
    PROVE  \E due, there : Pass(due, there)
<1>1. owed \in Nat /\ Burst \in Nat \ {0}
  BY PlaybackAssumption DEF Inv, OwnOK
<1>2. owed' # owed + 1 /\ owed' # Burst
  BY <1>1
<1>3. ASSUME NEW s \in Ids, Command(s) PROVE FALSE
  <2>1. DeleteSequence(s) \/ \E i \in 0 .. Len(CuesOf[s]) : Go(s, i)
    BY <1>3, CommandGoes DEF Inv
  <2>2. owed' = owed + 1
    BY <2>1 DEF Go, DeleteSequence
  <2> QED BY <1>2, <2>2
<1>4. \A e \in Edits : ~Edit(e)
  BY <1>2 DEF Edit
<1>5. \A k \in Flowed : ~(SetParameter(k) \/ ReleaseTrack(k))
  BY <1>2 DEF SetParameter, ReleaseTrack
<1>6. ~Restart
  BY <1>2 DEF Restart
<1> QED BY <1>3, <1>4, <1>5, <1>6 DEF Next

LEMMA PassKeepsTheOthers ==
    ASSUME Inv, NEW due, NEW there, Pass(due, there), ~edited,
           \A t \in Ids : Moved(t) => t \in Htp,
           NEW k \in Intensity, NEW s \in rows, IsOn(s), ~Moved(s), Plays(s, k),
           ~TakenOver(s, k)
    PROVE  Plays(s, k)'
<1>1. stage' = StageAfter(there) /\ rows' = rows
  BY PassStages DEF Pass
<1>2. PlaysOn(stage[k], s)
  BY PlaysIsPlaysOn
<1>4. PlaysOn(StageAfter(there)[k], s)
  BY <1>2, PassPlays
<1> PICK after : after = StageAfter(there)[k]
  OBVIOUS
<1>5. stage'[k] = after
  BY <1>1
<1>6. SequenceOf(after.driver.cue)' = SequenceOf(after.driver.cue)
  BY <1>1 DEF SequenceOf
<1>7. \/ SequenceOf(after.driver.cue)' = s
      \/ \E i \in DOMAIN after.beside : after.beside[i].of = s
  BY <1>4, <1>6 DEF PlaysOn, Range
<1> QED BY <1>5, <1>7 DEF Plays

LEMMA MergingKeeps == Inv /\ [Next]_vars => (MergingPass => OthersKept)
<1> SUFFICES ASSUME Inv, [Next]_vars, MergingPass,
                    NEW k \in Intensity, NEW s \in rows, IsOn(s), ~Moved(s), Plays(s, k),
                    ~TakenOver(s, k)
             PROVE  Plays(s, k)'
  BY DEF OthersKept
<1>1. CASE Next
  <2>1. PICK due, there : Pass(due, there)
    BY <1>1, OnlyAPassSettles DEF MergingPass
  <2> QED BY <2>1, PassKeepsTheOthers DEF MergingPass
<1>2. CASE UNCHANGED vars
  BY <1>2 DEF vars, show, own, Plays, SequenceOf
<1> QED BY <1>1, <1>2

\* Merge::Htp: a pass that moves none but sequences that merge takes nobody
\* else off an intensity, however many of them it moves, whatever each lets go
\* of or takes and whoever of them drove it; flows and takes may be on the key as
\* well. Only a fade that a take which stopped was over is no longer the
\* sequence's: let_go_of_stopped_tracks makes it one of no cue's.
THEOREM OthersArePlayedOn == Spec => HtpKeepsTheOthers
<1>1. Inv /\ [Next]_vars => [MergingPass => OthersKept]_vars
  BY MergingKeeps
<1>2. Spec => [][MergingPass => OthersKept]_vars
  BY <1>1, AlwaysInv, PTL DEF Spec
<1> QED BY <1>2 DEF HtpKeepsTheOthers

-----------------------------------------------------------------------------
(***************************************************************************)
(* Who holds a key, those that an edit gives to a cue or takes from one    *)
(* apart: there release_dropped_captures and start_new_captures leave what *)
(* is held and let go to the next cue taken.                               *)
(***************************************************************************)

Has(c, k) == Stored[c][k] # NoCapture

Could(s, k) == \E c \in Range(CuesOf[s]) : Has(c, k)

\* On a cue, a sequence tracks a key.
TracksBy(s, c, k) ==
    \E j \in DOMAIN CuesOf[s] : CuesOf[s][j] = c /\ \E i \in 1 .. j : Has(CuesOf[s][i], k)

\* The last pass found it on a cue.
Was(s) == playing[s] # Nobody

\* A sequence could drive the key and does not: it is gone, or does not say it yet.
Waits(k) == \E t \in Ids : Could(t, k) /\ (t \notin rows \/ (Was(t) /\ ~TracksBy(t, playing[t], k)))

OwnersWere(at) == \A s \in rows : at.driver.cue \in Range(CuesOf[s]) => Was(s)

\* A cue has it, or a flow that set it or a take that let it go.
Occupied(at) == at.driver.cue # Nobody \/ at.driver = SetOutright

\* Between two passes: what is on a key was on at the last one, unless it was
\* left there for another; and what was tracked was driven.
Held(at, k) ==
    /\ \A l \in Range(at.beside) : (l.of \in rows => Was(l.of)) /\ Has(l.driver.cue, k)
    /\ at.driver.cue # Nobody => Has(at.driver.cue, k)
    /\ at.beside # <<>> => Occupied(at)
    /\ OwnersWere(at) \/ (at.beside = <<>> /\ Waits(k))
    /\ (\E t \in rows : Was(t) /\ TracksBy(t, playing[t], k))
            => Occupied(at) /\ OwnersWere(at)

KeepsCaptures(k) == \A c \in Cues : Captures_(c, k) <=> Has(c, k)

HeldInv == \A k \in Keys \ Recapturing : KeepsCaptures(k) /\ Held(stage[k], k)

\* Within a pass that has seen to the sequences D.
Up(D, s) == IsOn(s) \/ (s \notin D /\ playing[s] # Nobody)

WaitsYet(D, k) ==
    \E t \in Ids : /\ CouldDrive(t, k)
                   /\ \/ t \notin rows
                      \/ t \notin D /\ Moved(t)
                      \/ IsOn(t) /\ ~Tracks(t, k)

TrackedYet(D, k) == \E s \in rows : Tracks(s, k) /\ (s \in D \/ ~Moved(s))

OwnersUp(D, at) == \A s \in rows : at.driver.cue \in Range(CuesOf[s]) => Up(D, s)

BesideUp(D, at, k) ==
    /\ \A l \in Range(at.beside) : (l.of \in rows => Up(D, l.of)) /\ Captures_(l.driver.cue, k)
    /\ at.driver.cue # Nobody => Captures_(at.driver.cue, k)

HeldYet(D, at, k) ==
    /\ BesideUp(D, at, k)
    /\ at.beside # <<>> => Occupied(at)
    /\ OwnersUp(D, at) \/ (at.beside = <<>> /\ WaitsYet(D, k))
    /\ TrackedYet(D, k) => Occupied(at) /\ OwnersUp(D, at)

LEMMA CouldIs ==
    ASSUME NEW k, KeepsCaptures(k), NEW s \in Ids
    PROVE  Could(s, k) <=> CouldDrive(s, k)
BY CuesAreCues DEF Could, CouldDrive, KeepsCaptures

\* A cue is in its sequence once, so the cue says how far it has come.
LEMMA TracksByIs ==
    ASSUME ShowOK, NEW k, KeepsCaptures(k), NEW s \in Ids, IsOn(s)
    PROVE  TracksBy(s, ActiveCue(s), k) <=> Tracks(s, k)
<1>1. ActiveCue(s) = CuesOf[s][on[s]] /\ on[s] \in DOMAIN CuesOf[s]
  BY ActiveCueIs
<1>2. IsInjective(CuesOf[s])
  BY PlaybackAssumption
<1>3. \A j \in DOMAIN CuesOf[s] : CuesOf[s][j] = ActiveCue(s) => j = on[s]
  BY <1>1, <1>2 DEF IsInjective
<1>4. TracksBy(s, ActiveCue(s), k) <=> \E i \in 1 .. on[s] : Has(CuesOf[s][i], k)
  BY <1>1, <1>3 DEF TracksBy
<1>5. \A i \in 1 .. on[s] : CuesOf[s][i] \in Cues
  <2> SUFFICES ASSUME NEW i \in 1 .. on[s] PROVE CuesOf[s][i] \in Cues
    OBVIOUS
  <2>1. on[s] \in 1 .. Len(CuesOf[s]) /\ Len(CuesOf[s]) \in Nat
    BY <1>1, CuesAreCues
  <2>2. i \in 1 .. Len(CuesOf[s])
    BY <2>1
  <2> QED BY <2>2, CuesAreCues
<1>6. \A i \in 1 .. on[s] : Has(CuesOf[s][i], k) <=> Captures_(CuesOf[s][i], k)
  BY <1>5 DEF KeepsCaptures
<1> QED BY <1>4, <1>6, TrackedFromIs

LEMMA UpGrows ==
    ASSUME NEW D, NEW t, NEW s
    PROVE  (IsOn(s) => Up(D, s)) /\ (Up(D, s) /\ s # t => Up(D \cup {t}, s))
BY DEF Up

LEMMA WasIsUp ==
    ASSUME ShowOK, NEW s \in Ids, ~Moved(s)
    PROVE  Was(s) <=> IsOn(s)
BY ActiveCueIs DEF Was, Moved

\* A pass begins,
LEMMA BeganHeld ==
    ASSUME ShowOK, NEW k \in Keys, stage[k] \in OnKey(k), KeepsCaptures(k), Held(stage[k], k)
    PROVE  HeldYet({}, stage[k], k)
<1> PICK at : at = stage[k]
  OBVIOUS
<1>1. at \in OnKey(k) /\ Held(at, k) /\ rows \subseteq Ids
  BY DEF ShowOK
<1>2. \A s : Was(s) => Up({}, s)
  BY DEF Was, Up
<1>3. \A c \in Cues : Captures_(c, k) <=> Has(c, k)
  BY DEF KeepsCaptures
<1>4. at.driver.cue \in Cues \cup {Nobody} /\ \A l \in Range(at.beside) : l.driver.cue \in Cues
  BY <1>1, SpotIs, DriversAre, CuesAreCues DEF OnKey, Placed
<1>5. BesideUp({}, at, k)
  BY <1>1, <1>2, <1>3, <1>4 DEF Held, BesideUp
<1>6. OwnersWere(at) => OwnersUp({}, at)
  BY <1>2 DEF OwnersWere, OwnersUp
<1>7. Waits(k) => WaitsYet({}, k)
  <2> SUFFICES ASSUME NEW t \in Ids, Could(t, k),
                      t \notin rows \/ (Was(t) /\ ~TracksBy(t, playing[t], k))
               PROVE  WaitsYet({}, k)
    BY DEF Waits
  <2>1. CouldDrive(t, k)
    BY CouldIs
  <2>2. CASE t \notin rows \/ Moved(t)
    BY <2>1, <2>2 DEF WaitsYet
  <2>3. CASE t \in rows /\ ~Moved(t)
    <3>1. IsOn(t) /\ playing[t] = ActiveCue(t)
      BY <2>3, WasIsUp DEF Moved
    <3>2. ~Tracks(t, k)
      BY <2>3, <3>1, TracksByIs
    <3> QED BY <2>1, <3>1, <3>2 DEF WaitsYet
  <2> QED BY <2>2, <2>3
<1>8. TrackedYet({}, k) => \E t \in rows : Was(t) /\ TracksBy(t, playing[t], k)
  <2> SUFFICES ASSUME NEW s \in rows, Tracks(s, k), ~Moved(s)
               PROVE  Was(s) /\ TracksBy(s, playing[s], k)
    BY DEF TrackedYet
  <2>1. s \in Ids /\ IsOn(s) /\ playing[s] = ActiveCue(s)
    BY <1>1, TrackedFromIs DEF Moved
  <2> QED BY <2>1, WasIsUp, TracksByIs
<1> QED BY <1>1, <1>5, <1>6, <1>7, <1>8 DEF Held, HeldYet

\* and has seen to every sequence.
LEMMA EndsHeld ==
    ASSUME ShowOK, NEW k \in Keys, NEW at \in OnKey(k), KeepsCaptures(k), HeldYet(Ids, at, k),
           playing' = [s \in Ids |-> ActiveCue(s)], rows' = rows
    PROVE  Held(at, k)'
<1>1. rows \subseteq Ids
  BY DEF ShowOK
<1>2. \A s \in Ids : (Up(Ids, s) <=> IsOn(s)) /\ (IsOn(s) <=> Was(s)') /\ playing'[s] = ActiveCue(s)
  BY ActiveCueIs DEF Up, Was
<1>3. \A c \in Cues : Captures_(c, k) <=> Has(c, k)
  BY DEF KeepsCaptures
<1>4. /\ at.driver.cue \in Cues \cup {Nobody}
      /\ \A l \in Range(at.beside) : l.driver.cue \in Cues /\ l.of \in Ids
  BY SpotIs, DriversAre, CuesAreCues DEF OnKey, Placed
<1>5. /\ \A l \in Range(at.beside) : (l.of \in rows => Was(l.of)') /\ Has(l.driver.cue, k)
      /\ at.driver.cue # Nobody => Has(at.driver.cue, k)
  BY <1>2, <1>3, <1>4 DEF HeldYet, BesideUp
<1>6. OwnersUp(Ids, at) => OwnersWere(at)'
  BY <1>1, <1>2 DEF OwnersWere, OwnersUp
<1>7. WaitsYet(Ids, k) => Waits(k)'
  <2> SUFFICES ASSUME NEW t \in Ids, CouldDrive(t, k), t \notin rows \/ (IsOn(t) /\ ~Tracks(t, k))
               PROVE  Waits(k)'
    BY DEF WaitsYet
  <2>1. Could(t, k)
    BY CouldIs
  <2>2. IsOn(t) /\ ~Tracks(t, k) => Was(t)' /\ ~TracksBy(t, playing'[t], k)
    BY <1>2, TracksByIs
  <2> QED BY <2>1, <2>2 DEF Waits
<1>8. ASSUME NEW t \in rows, Was(t)', TracksBy(t, playing'[t], k) PROVE TrackedYet(Ids, k)
  <2>1. t \in Ids /\ IsOn(t) /\ playing'[t] = ActiveCue(t)
    BY <1>1, <1>2, <1>8
  <2>2. Tracks(t, k)
    BY <1>8, <2>1, TracksByIs
  <2> QED BY <2>1, <2>2 DEF TrackedYet
<1>9. HeldYet(Ids, at, k)
  OBVIOUS
<1> QED BY <1>5, <1>6, <1>7, <1>8, <1>9 DEF Held, HeldYet, Occupied

\* A capture begins: its sequence is on, and so is whoever it leaves beside it.
LEMMA StartedHeld ==
    ASSUME ShowOK, NEW k \in Keys, NEW p \in OnKey(k), NEW new, NEW c, NEW t, Started(p, new, c, t, k),
           NEW D, BesideUp(D, p, k), NEW E, E \in {D, D \cup {t}}
    PROVE  HeldYet(E, new, k)
<1>1. t \in rows /\ t \in Ids /\ IsOn(t) /\ c \in Range(CuesOf[t]) /\ Captures_(c, k)
      /\ new.driver.cue = c /\ Range(new.beside) \subseteq Others(p, t) \cup Joined(p, t)
      /\ rows \subseteq Ids
  BY DEF Started, ShowOK
<1>2. c # Nobody /\ \A s \in rows : c \in Range(CuesOf[s]) => s = t
  BY <1>1, CuesAreCues, NobodyIsNoCue, OneSequence
<1>3. ASSUME NEW l \in Others(p, t) PROVE (l.of \in rows => Up(E, l.of)) /\ Captures_(l.driver.cue, k)
  <2>1. l \in Range(p.beside) /\ l.of # t
    BY DEF Others
  <2>2. Captures_(l.driver.cue, k) /\ (l.of \in rows => Up(D, l.of))
    BY <2>1 DEF BesideUp
  <2>3. l.of \in rows => Up(D \cup {t}, l.of)
    BY <2>1, <2>2, UpGrows
  <2>4. E = D \/ E = D \cup {t}
    OBVIOUS
  <2> QED BY <2>2, <2>3, <2>4
<1>4. ASSUME NEW l \in Joined(p, t) PROVE (l.of \in rows => Up(E, l.of)) /\ Captures_(l.driver.cue, k)
  <2>1. l.driver = p.driver /\ IsOn(l.of) /\ PrimaryOwner(p) # Nobody
    BY <1>4 DEF Joined
  <2>2. p.driver.cue # Nobody
    BY <2>1, NobodysSequence DEF PrimaryOwner
  <2>3. Captures_(l.driver.cue, k)
    BY <2>1, <2>2 DEF BesideUp
  <2> QED BY <2>1, <2>3, UpGrows
<1>5. BesideUp(E, new, k)
  BY <1>1, <1>3, <1>4 DEF BesideUp
<1>6. OwnersUp(E, new)
  BY <1>1, <1>2, UpGrows DEF OwnersUp
<1> QED BY <1>1, <1>2, <1>5, <1>6 DEF HeldYet, Occupied

\* The effects of a sequence are stopped.
LEMMA ParkHeld ==
    ASSUME NEW k \in Keys, NEW at \in OnKey(k), NEW p, NEW t, Parked(at, p, t),
           NEW D, BesideUp(D, at, k)
    PROVE  BesideUp(D, p, k)
<1>1. ASSUME NEW m \in Range(p.beside)
      PROVE  (m.of \in rows => Up(D, m.of)) /\ Captures_(m.driver.cue, k)
  <2>1. PICK l \in Range(at.beside) : SameLayer(l, m)
    BY DEF Parked
  <2>2. (l.of \in rows => Up(D, l.of)) /\ Captures_(l.driver.cue, k)
    BY DEF BesideUp
  <2> QED BY <2>1, <2>2 DEF SameLayer
<1>2. p.driver.cue # Nobody => p.driver = at.driver
  BY DriversAre DEF Parked
<1> QED BY <1>1, <1>2 DEF BesideUp

\* A sequence that did not move, or is gone.
LEMMA UnmovedHeld ==
    ASSUME ShowOK, NEW k \in Keys, NEW at \in OnKey(k), NEW D, HeldYet(D, at, k), NEW t \in Ids,
           ~Moved(t) \/ t \notin rows
    PROVE  HeldYet(D \cup {t}, at, k)
<1> PICK E : E = D \cup {t}
  OBVIOUS
<1>1. \A s \in rows : Up(D, s) => Up(E, s)
  <2> SUFFICES ASSUME NEW s \in rows, Up(D, s) PROVE Up(E, s)
    OBVIOUS
  <2>1. CASE s # t
    BY <2>1 DEF Up
  <2>2. CASE s = t
    <3>1. ~Moved(t) /\ (IsOn(t) \/ Was(t))
      BY <2>2 DEF Up, Was
    <3>2. IsOn(t)
      BY <3>1, WasIsUp
    <3> QED BY <2>2, <3>2 DEF Up
  <2> QED BY <2>1, <2>2
<1>2. WaitsYet(D, k) => WaitsYet(E, k)
  BY DEF WaitsYet
<1>3. TrackedYet(E, k) => TrackedYet(D, k)
  BY DEF TrackedYet
<1>4. BesideUp(E, at, k)
  BY <1>1 DEF HeldYet, BesideUp
<1>5. OwnersUp(D, at) => OwnersUp(E, at)
  BY <1>1 DEF OwnersUp
<1> QED BY <1>2, <1>3, <1>4, <1>5 DEF HeldYet

\* One that moved lets go of the key.
LEMMA LetGoHeld ==
    ASSUME ShowOK, NEW k \in Keys, NEW at \in OnKey(k), NEW D, HeldYet(D, at, k), NEW t \in rows,
           NEW p \in OnKey(k), Parked(at, p, t), ~Tracks(t, k), NEW new, LetGoEnds(p, new, t, k)
    PROVE  HeldYet(D \cup {t}, new, k)
<1> PICK E : E = D \cup {t}
  OBVIOUS
<1>0. rows \subseteq Ids /\ t \in Ids /\ Placed(p) /\ p \in Spots
  BY DEF ShowOK, OnKey
<1>1. BesideUp(D, p, k)
  BY ParkHeld DEF HeldYet
<1>2. \A l \in Others(p, t) : l.of # t /\ l \in Range(p.beside)
  BY DEF Others
<1>3. \A l \in Others(p, t) : (l.of \in rows => Up(E, l.of)) /\ Captures_(l.driver.cue, k)
  BY <1>1, <1>2, UpGrows DEF BesideUp
<1>4. CASE Stays(p, new, t)
  <2> PICK o : o = SequenceOf(p.driver.cue)
    OBVIOUS
  <2>1. o # Nobody /\ IsOn(o) /\ new.driver = p.driver /\ Range(new.beside) = Others(p, t)
    BY <1>4 DEF Stays, PrimaryOwner
  <2>2. p.driver.cue # Nobody
    BY <2>1, NobodysSequence
  <2>3. \A s \in rows : p.driver.cue \in Range(CuesOf[s]) => s = o
    BY <1>0, <2>1, SequenceOfIs
  <2>4. Up(E, o)
    BY <2>1 DEF Up
  <2>5. OwnersUp(E, new)
    BY <2>1, <2>3, <2>4 DEF OwnersUp
  <2>6. BesideUp(E, new, k)
    BY <1>1, <1>3, <2>1 DEF BesideUp
  <2> QED BY <2>1, <2>2, <2>5, <2>6 DEF HeldYet, Occupied
<1>5. CASE Promoted(p, new, t)
  <2>1. PICK l \in Others(p, t) : new.driver = l.driver /\ Range(new.beside) = Others(p, t) \ {l}
    BY <1>5 DEF Promoted
  <2>2. l.of \in Ids /\ l.driver.cue \in Range(CuesOf[l.of])
    BY <1>0, <1>2, SpotIs DEF Placed
  <2>3. l.driver.cue # Nobody
    BY <2>2, CuesAreCues, NobodyIsNoCue
  <2>4. \A s \in rows : l.driver.cue \in Range(CuesOf[s]) => s = l.of
    BY <1>0, <2>2, OneSequence
  <2>5. OwnersUp(E, new)
    BY <1>3, <2>1, <2>4 DEF OwnersUp
  <2>6. BesideUp(E, new, k)
    BY <1>3, <2>1 DEF BesideUp
  <2> QED BY <2>1, <2>3, <2>5, <2>6 DEF HeldYet, Occupied
<1>6. CASE Left(p, new, t, k)
  <2>1. /\ new.beside = <<>> /\ Range(new.beside) = {} /\ new.driver = p.driver /\ Driven(t, k)
        /\ p.driver = Undriven \/ \A u \in Ids : u # t => ~Tracks(u, k)
    BY <1>6 DEF Left, Range
  <2>2. BesideUp(E, new, k)
    BY <1>1, <2>1 DEF BesideUp
  <2>3. CASE p.driver = Undriven
    <3>1. at.driver = Undriven
      BY <2>3, DriversAre DEF Parked
    <3>2. ~TrackedYet(D, k)
      BY <3>1, DriversAre DEF HeldYet, Occupied
    <3>3. ~TrackedYet(E, k)
      BY <3>2 DEF TrackedYet
    <3>4. new.driver.cue = Nobody
      BY <2>1, <2>3, DriversAre
    <3>5. OwnersUp(E, new)
      BY <1>0, <3>4, CuesAreCues, NobodyIsNoCue DEF OwnersUp
    <3> QED BY <2>1, <2>2, <3>3, <3>5 DEF HeldYet
  <2>4. CASE \A u \in Ids : u # t => ~Tracks(u, k)
    <3>1. \A u \in rows : ~Tracks(u, k)
      BY <1>0, <2>4
    <3>2. ~TrackedYet(E, k)
      BY <3>1 DEF TrackedYet
    <3>3. PICK u \in rows \ {t} : IsOn(u) /\ CouldDrive(u, k)
      BY <2>1 DEF Driven
    <3>4. WaitsYet(E, k)
      BY <1>0, <3>1, <3>3 DEF WaitsYet
    <3> QED BY <2>1, <2>2, <3>2, <3>4 DEF HeldYet
  <2> QED BY <2>1, <2>3, <2>4
<1>7. CASE Handed(p, new, t, k)
  <2>1. PICK w, u : /\ WantedOf(w, u, k, t) /\ new.driver.cue = w
                    /\ Range(new.beside) \subseteq Joined(p, u)
    BY <1>7 DEF Handed
  <2>2. /\ u \in Ids /\ IsOn(u) /\ w \in Range(CuesOf[u]) /\ w \in Cues /\ w # Nobody
        /\ Captures_(w, k)
    BY <2>1, NobodyIsNoCue DEF WantedOf
  <2>3. \A s \in rows : w \in Range(CuesOf[s]) => s = u
    BY <1>0, <2>2, OneSequence
  <2>4. OwnersUp(E, new)
    BY <2>1, <2>2, <2>3, UpGrows DEF OwnersUp
  <2>5. ASSUME NEW l \in Range(new.beside)
        PROVE  (l.of \in rows => Up(E, l.of)) /\ Captures_(l.driver.cue, k)
    <3>1. l \in Joined(p, u)
      BY <2>1
    <3>2. l.driver = p.driver /\ IsOn(l.of) /\ PrimaryOwner(p) # Nobody
      BY <3>1 DEF Joined
    <3>3. p.driver.cue # Nobody
      BY <3>2, NobodysSequence DEF PrimaryOwner
    <3> QED BY <1>1, <3>2, <3>3, UpGrows DEF BesideUp
  <2>6. BesideUp(E, new, k)
    BY <2>1, <2>2, <2>5 DEF BesideUp
  <2> QED BY <2>1, <2>2, <2>4, <2>6 DEF HeldYet, Occupied
<1>8. CASE GoesHome(p, new, t, k)
  <2>1. new.beside = <<>> /\ Range(new.beside) = {} /\ new.driver.cue = Nobody /\ ~Driven(t, k)
    BY <1>8, DriversAre DEF GoesHome, Range
  <2>2. ~TrackedYet(E, k)
    <3> SUFFICES ASSUME NEW s \in rows, Tracks(s, k) PROVE FALSE
      BY DEF TrackedYet
    <3>1. s # t /\ IsOn(s) /\ CouldDrive(s, k)
      BY <1>0, TrackedFromIs
    <3> QED BY <2>1, <3>1 DEF Driven
  <2>3. OwnersUp(E, new)
    BY <1>0, <2>1, CuesAreCues, NobodyIsNoCue DEF OwnersUp
  <2>4. BesideUp(E, new, k)
    BY <2>1 DEF BesideUp
  <2> QED BY <2>1, <2>2, <2>3, <2>4 DEF HeldYet
<1> QED BY <1>4, <1>5, <1>6, <1>7, <1>8 DEF LetGoEnds

\* One that moved and has no cue for the key.
LEMMA NotItsHeld ==
    ASSUME ShowOK, NEW k \in Keys, NEW at \in OnKey(k), NEW D, HeldYet(D, at, k), NEW t \in rows,
           NEW p \in OnKey(k), Parked(at, p, t), ~Tracks(t, k), ~CouldDrive(t, k)
    PROVE  HeldYet(D \cup {t}, p, k)
<1> PICK E : E = D \cup {t}
  OBVIOUS
<1>0. rows \subseteq Ids /\ t \in Ids /\ Placed(p) /\ p \in Spots /\ at \in Spots
  BY DEF ShowOK, OnKey
<1>1. BesideUp(D, at, k) /\ BesideUp(D, p, k)
  BY ParkHeld DEF HeldYet
<1>2. at.driver.cue \notin Range(CuesOf[t])
  <2> SUFFICES ASSUME at.driver.cue \in Range(CuesOf[t]) PROVE FALSE
    OBVIOUS
  <2>1. at.driver.cue # Nobody
    BY <1>0, CuesAreCues, NobodyIsNoCue
  <2>2. Captures_(at.driver.cue, k)
    BY <1>1, <2>1 DEF BesideUp
  <2> QED BY <2>2 DEF CouldDrive
<1>3. p.driver = at.driver
  BY <1>2 DEF Parked
<1>4. \A l \in Range(p.beside) : l.of # t
  BY <1>0, <1>1 DEF BesideUp, Placed, CouldDrive
<1>5. BesideUp(E, p, k)
  BY <1>1, <1>4, UpGrows DEF BesideUp
<1>6. OwnersUp(D, at) => OwnersUp(E, p)
  BY <1>2, <1>3, UpGrows DEF OwnersUp
<1>7. WaitsYet(D, k) => WaitsYet(E, k)
  BY DEF WaitsYet
<1>8. TrackedYet(E, k) => TrackedYet(D, k)
  BY DEF TrackedYet
<1>9. at.beside = <<>> <=> p.beside = <<>>
  <2>1. (at.beside = <<>> <=> Range(at.beside) = {}) /\ (p.beside = <<>> <=> Range(p.beside) = {})
    BY <1>0, SpotIs, NoneBeside
  <2>2. Range(at.beside) = {} <=> Range(p.beside) = {}
    BY DEF Parked
  <2> QED BY <2>1, <2>2
<1> QED BY <1>3, <1>5, <1>6, <1>7, <1>8, <1>9 DEF HeldYet, Occupied

\* One that moved and finds the cue it tracks the key from playing.
LEMMA PlayingHeld ==
    ASSUME ShowOK, NEW k \in Keys, NEW at \in OnKey(k), NEW D, HeldYet(D, at, k), NEW t \in rows,
           NEW p \in OnKey(k), Parked(at, p, t), Tracks(t, k),
           \/ p.driver.cue = TrackedFrom(t, k)
           \/ \E l \in Range(p.beside) : l.driver.cue = TrackedFrom(t, k)
    PROVE  HeldYet(D \cup {t}, p, k)
<1> PICK E : E = D \cup {t}
  OBVIOUS
<1> PICK from : from = TrackedFrom(t, k)
  OBVIOUS
<1>0. /\ rows \subseteq Ids /\ t \in Ids /\ Placed(p) /\ Placed(at) /\ p \in Spots /\ at \in Spots
      /\ IsOn(t) /\ from \in Range(CuesOf[t])
  BY TrackedFromIs DEF ShowOK, OnKey
<1>1. from # Nobody /\ \A s \in rows : from \in Range(CuesOf[s]) => s = t
  BY <1>0, CuesAreCues, NobodyIsNoCue, OneSequence
<1>2. BesideUp(D, p, k)
  BY ParkHeld DEF HeldYet
<1>3. \A s : Up(D, s) => Up(E, s)
  BY <1>0 DEF Up
<1>4. BesideUp(E, p, k)
  BY <1>2, <1>3 DEF BesideUp
<1>5. CASE p.driver.cue = from
  <2>1. Up(E, t)
    BY <1>0 DEF Up
  <2>2. OwnersUp(E, p)
    BY <1>1, <1>5, <2>1 DEF OwnersUp
  <2> QED BY <1>1, <1>4, <1>5, <2>2 DEF HeldYet, Occupied
<1>6. CASE \E l \in Range(p.beside) : l.driver.cue = from
  <2>1. PICK m \in Range(p.beside) : m.driver.cue = from
    BY <1>6
  <2>2. PICK l \in Range(at.beside) : SameLayer(l, m)
    BY DEF Parked
  <2>3. l.of \in Ids /\ from \in Range(CuesOf[l.of])
    BY <1>0, <2>1, <2>2, SpotIs DEF SameLayer, Placed
  <2>4. l.of = t
    BY <1>0, <2>3, OneSequence
  <2>5. at.driver.cue \notin Range(CuesOf[t])
    BY <1>0, <2>2, <2>4 DEF Placed
  <2>6. p.driver = at.driver
    BY <2>5 DEF Parked
  <2>7. at.beside # <<>>
    BY <2>2 DEF Range
  <2>8. Occupied(at) /\ OwnersUp(D, at)
    BY <2>7 DEF HeldYet
  <2>9. OwnersUp(E, p)
    BY <1>3, <2>6, <2>8 DEF OwnersUp
  <2> QED BY <1>4, <2>6, <2>8, <2>9 DEF HeldYet, Occupied
<1> QED BY <1>5, <1>6

\* One sequence of a pass.
LEMMA TrackChangeHeld ==
    ASSUME ShowOK, PlayedOK, NEW k \in Keys, NEW at \in OnKey(k), NEW D, HeldYet(D, at, k),
           NEW t \in Ids, NEW home, NEW new, new = TrackChange(at, t, k, home)
    PROVE  HeldYet(D \cup {t}, new, k)
<1>1. TrackChangeEnds(at, new, t, k)
  BY TrackChangeIs
<1>2. CASE new = at /\ (~Moved(t) \/ t \notin rows)
  BY <1>2, UnmovedHeld
<1>3. CASE t \in rows /\ \E p \in OnKey(k) : Parked(at, p, t) /\ MovedEnds(p, new, t, k)
  <2> PICK p \in OnKey(k) : Parked(at, p, t) /\ MovedEnds(p, new, t, k)
    BY <1>3
  <2>1. t \in rows
    BY <1>3
  <2>2. CASE ~Tracks(t, k) /\ LetGoEnds(p, new, t, k)
    BY <2>1, <2>2, LetGoHeld
  <2>3. CASE ~Tracks(t, k) /\ ~CouldDrive(t, k) /\ new = p
    BY <2>1, <2>3, NotItsHeld
  <2>4. CASE /\ Tracks(t, k) /\ new = p
             /\ \/ p.driver.cue = TrackedFrom(t, k)
                \/ \E l \in Range(p.beside) : l.driver.cue = TrackedFrom(t, k)
    BY <2>1, <2>4, PlayingHeld
  <2>5. CASE Started(p, new, TrackedFrom(t, k), t, k)
    <3>1. BesideUp(D, p, k)
      BY ParkHeld DEF HeldYet
    <3> PICK E : E = D \cup {t}
      OBVIOUS
    <3> PICK c : c = TrackedFrom(t, k)
      OBVIOUS
    <3>2. E \in {D, D \cup {t}} /\ Started(p, new, c, t, k) /\ ShowOK /\ k \in Keys /\ p \in OnKey(k)
      BY <2>5
    <3>3. HeldYet(E, new, k)
      BY ONLY <3>1, <3>2, StartedHeld
    <3> QED BY <3>3
  <2> QED BY <2>2, <2>3, <2>4, <2>5 DEF MovedEnds
<1> QED BY <1>1, <1>2, <1>3 DEF TrackChangeEnds

\* A take that stopped leaves the key set outright, and what is beside it.
LEMMA StoppedHeld ==
    ASSUME NEW k \in Keys, NEW at, HeldYet({}, at, k), NEW new, new = at \/ LetGoByATake(at, new, k),
           rows \subseteq Ids
    PROVE  HeldYet({}, new, k)
<1>1. CASE new.driver = SetOutright /\ new.beside = at.beside
  <2>1. new.driver.cue = Nobody
    BY <1>1, DriversAre
  <2>2. BesideUp({}, new, k)
    BY <1>1, <2>1 DEF HeldYet, BesideUp
  <2>3. OwnersUp({}, new)
    BY <2>1, CuesAreCues, NobodyIsNoCue DEF OwnersUp
  <2> QED BY <1>1, <2>2, <2>3 DEF HeldYet, Occupied
<1> QED BY <1>1 DEF LetGoByATake

\* What an edit changes is who drives, never that somebody does.
LEMMA MendedHeld ==
    ASSUME ShowOK, NEW k \in Keys, NEW at \in OnKey(k), HeldYet({}, at, k), NEW home,
           NEW r \in OnKey(k), NEW d \in OnKey(k), NEW s \in OnKey(k),
           r = Repoint(at, k), d = ReleaseDropped(r, k, home), s = StartNew(d, k)
    PROVE  HeldYet({}, s, k)
<1>1. r.driver.cue = at.driver.cue /\ r.beside = at.beside /\ (at.driver.cue = Nobody => r = at)
  BY RepointIs
<1>2. Occupied(at) => Occupied(r)
  BY <1>1 DEF Occupied
<1>3. HeldYet({}, r, k)
  BY <1>1, <1>2 DEF HeldYet, BesideUp, OwnersUp
<1>4. r.driver.cue = Nobody \/ Captures_(r.driver.cue, k)
  BY <1>3 DEF HeldYet, BesideUp
<1>5. d = r
  BY <1>4, ReleaseDroppedIs
<1>6. s = d \/ \E t \in rows : Started(d, s, Wanted(k, Nobody), t, k)
  BY StartNewIs
<1>7. CASE s = d
  BY <1>3, <1>5, <1>7
<1>8. CASE \E t \in rows : Started(d, s, Wanted(k, Nobody), t, k)
  <2>1. PICK t \in rows : Started(d, s, Wanted(k, Nobody), t, k)
    BY <1>8
  <2> PICK c : c = Wanted(k, Nobody)
    OBVIOUS
  <2> PICK D : D = {}
    OBVIOUS
  <2>2. /\ BesideUp(D, d, k) /\ D \in {D, D \cup {t}} /\ Started(d, s, c, t, k)
        /\ d \in OnKey(k) /\ ShowOK /\ k \in Keys
    BY <1>3, <1>5, <2>1 DEF HeldYet
  <2>3. HeldYet(D, s, k)
    BY ONLY <2>2, StartedHeld
  <2> QED BY <2>3
<1> QED BY <1>6, <1>7, <1>8

LEMMA BegunHeld ==
    ASSUME Inv, NEW k \in Keys \ Recapturing, HeldYet({}, stage[k], k), NEW there
    PROVE  HeldYet({}, Begun(k, there), k)
<1> PICK at : at = stage[k]
  OBVIOUS
<1> PICK new : new = Begun(k, there)
  OBVIOUS
<1> PICK home : home = (k \in there)
  OBVIOUS
<1>1. at \in OnKey(k) /\ ShowOK /\ k \in Keys /\ HeldYet({}, at, k) /\ rows \subseteq Ids
  BY DEF Inv, StageOK, ShowOK
<1>2. CASE ~edited
  <2>1. new = at \/ LetGoByATake(at, new, k)
    BY <1>1, <1>2, BegunIs, StopTrackIs
  <2> QED BY ONLY <1>1, <2>1, StoppedHeld, new = Begun(k, there)
<1>3. CASE edited
  <2>1. PICK r \in OnKey(k), d \in OnKey(k), s \in OnKey(k) :
          /\ r = Repoint(at, k) /\ d = ReleaseDropped(r, k, home)
          /\ s = StartNew(d, k) /\ new = StopTrack(s, k, home)
    BY <1>1, <1>3, BegunIs
  <2>2. HeldYet({}, s, k)
    BY ONLY <1>1, <2>1, MendedHeld
  <2>3. new = s \/ LetGoByATake(s, new, k)
    BY <1>1, <2>1, StopTrackIs
  <2> QED BY ONLY <1>1, <2>2, <2>3, StoppedHeld, new = Begun(k, there)
<1> QED BY <1>2, <1>3

\* What the first sequences of the list are.
Seen(i) == {List[j] : j \in 1 .. i}

LEMMA SeenIs ==
    /\ Seen(0) = {} /\ Seen(Len(List)) = Ids
    /\ \A i \in 1 .. Len(List) : Seen(i) = Seen(i - 1) \cup {List[i]}
<1>1. Len(List) \in Nat /\ DOMAIN List = 1 .. Len(List)
  BY ListIs
<1>2. Seen(0) = {}
  BY DEF Seen
<1>3. Seen(Len(List)) = Ids
  BY <1>1 DEF Seen, Ids, Range
<1>4. ASSUME NEW i \in 1 .. Len(List) PROVE Seen(i) = Seen(i - 1) \cup {List[i]}
  <2>1. 1 .. i = (1 .. (i - 1)) \cup {i}
    BY <1>1
  <2> QED BY <2>1 DEF Seen
<1> QED BY <1>2, <1>3, <1>4

LEMMA PassHeld ==
    ASSUME Inv, NEW due, NEW there, Pass(due, there), NEW k \in Keys \ Recapturing,
           KeepsCaptures(k), Held(stage[k], k)
    PROVE  Held(stage[k], k)'
<1>1. ShowOK /\ PlayedOK /\ stage[k] \in OnKey(k) /\ k \in Keys
  BY DEF Inv, StageOK
<1>2. PICK run \in [0 .. Len(List) -> OnKey(k)] : PassRun(run, k, there)
  BY <1>1, PassRuns
<1> PICK T : T = {i \in 0 .. Len(List) : HeldYet(Seen(i), run[i], k)}
  OBVIOUS
<1>3. Len(List) \in Nat /\ \A i \in 1 .. Len(List) : List[i] \in Ids
  BY ListIs
<1>4. 0 \in T
  <2>1. HeldYet({}, stage[k], k)
    BY <1>1, BeganHeld
  <2>2. HeldYet({}, Begun(k, there), k)
    BY <2>1, BegunHeld
  <2>3. PICK begun : begun = Begun(k, there)
    OBVIOUS
  <2>4. PICK none : none = Seen(0)
    OBVIOUS
  <2>5. none = {} /\ run[0] = begun /\ 0 \in 0 .. Len(List)
    BY <1>2, <1>3, <2>3, <2>4, SeenIs DEF PassRun
  <2>6. HeldYet(none, begun, k)
    BY <2>2, <2>3, <2>5
  <2> QED BY <2>4, <2>5, <2>6
<1>5. ASSUME NEW i \in 1 .. Len(List), i - 1 \in T PROVE i \in T
  <2>1. PICK at : at = run[i - 1]
    OBVIOUS
  <2>2. PICK new : new = run[i]
    OBVIOUS
  <2>3. PICK t : t = List[i]
    OBVIOUS
  <2>4. PICK home : home = (k \in there)
    OBVIOUS
  <2>5. PICK D : D = Seen(i - 1)
    OBVIOUS
  <2>6. at \in OnKey(k) /\ HeldYet(D, at, k) /\ t \in Ids
    BY <1>3, <1>5, <2>1, <2>3, <2>5
  <2>7. new = TrackChange(at, t, k, home)
    BY <1>2, <2>1, <2>2, <2>3, <2>4 DEF PassRun
  <2>8. HeldYet(D \cup {t}, new, k)
    BY ONLY <1>1, <2>6, <2>7, TrackChangeHeld
  <2>9. Seen(i) = D \cup {t}
    BY <2>3, <2>5, SeenIs
  <2> QED BY <2>2, <2>8, <2>9
<1>6. 0 .. Len(List) \subseteq T
  BY ONLY <1>3, <1>4, <1>5, UpTo
<1>7. Len(List) \in 0 .. Len(List) /\ Len(List) \in T
  BY <1>3, <1>6
<1> PICK at : at = run[Len(List)]
  OBVIOUS
<1>8. HeldYet(Ids, at, k) /\ at = StageAfter(there)[k] /\ at \in OnKey(k)
  BY <1>2, <1>7, SeenIs DEF PassRun
<1>9. stage' = StageAfter(there) /\ rows' = rows /\ playing' = [s \in Ids |-> ActiveCue(s)]
  BY PassStages DEF Pass
<1>10. Held(at, k)'
  BY <1>1, <1>8, <1>9, EndsHeld
<1>11. stage[k]' = at
  BY <1>8, <1>9
<1> QED BY <1>10, <1>11

\* The sequences there are, and what is on.
LEMMA HeldShrinks ==
    ASSUME NEW k, NEW at, Held(at, k), rows' \subseteq rows, playing' = playing
    PROVE  Held(at, k)'
<1>1. \A s : Was(s)' <=> Was(s)
  BY DEF Was
<1>2. OwnersWere(at) => OwnersWere(at)'
  BY <1>1 DEF OwnersWere
<1>3. Waits(k) => Waits(k)'
  BY <1>1 DEF Waits
<1>4. (\E t \in rows' : Was(t)' /\ TracksBy(t, playing'[t], k))
          => \E t \in rows : Was(t) /\ TracksBy(t, playing[t], k)
  BY <1>1
<1>5. \A l \in Range(at.beside) : l.of \in rows' => l.of \in rows
  OBVIOUS
<1> QED BY <1>1, <1>2, <1>3, <1>4, <1>5 DEF Held, Occupied

LEMMA HeldStep ==
    ASSUME HeldInv, rows' \subseteq rows, playing' = playing, stage' = stage,
           \A k \in Keys \ Recapturing : KeepsCaptures(k)'
    PROVE  HeldInv'
<1> SUFFICES ASSUME NEW k \in Keys \ Recapturing PROVE Held(stage[k], k)'
  BY DEF HeldInv
<1>1. PICK at : at = stage[k]
  OBVIOUS
<1>2. Held(at, k)'
  BY <1>1, HeldShrinks DEF HeldInv
<1> QED BY <1>1, <1>2

\* Nothing is on a key that nothing drives.
LEMMA NoneHeld ==
    ASSUME NEW k, \A s \in rows : ~Was(s), rows \subseteq Ids
    PROVE  Held([driver |-> Undriven, beside |-> <<>>], k)
<1> PICK at : at = [driver |-> Undriven, beside |-> <<>>]
  OBVIOUS
<1>1. at.beside = <<>> /\ Range(at.beside) = {} /\ at.driver.cue = Nobody
  BY DriversAre DEF Range
<1>2. OwnersWere(at)
  BY <1>1, CuesAreCues, NobodyIsNoCue DEF OwnersWere
<1> QED BY <1>1, <1>2 DEF Held

LEMMA HeldAtFirst == Init => HeldInv
<1> SUFFICES ASSUME Init, NEW k \in Keys \ Recapturing PROVE KeepsCaptures(k) /\ Held(stage[k], k)
  BY DEF HeldInv
<1>1. captures = Stored /\ rows = Ids /\ \A s \in Ids : ~Was(s)
  BY DEF Init, Was
<1>2. KeepsCaptures(k)
  BY <1>1 DEF KeepsCaptures, Captures_, Has
<1>3. stage[k] = [driver |-> Undriven, beside |-> <<>>]
  BY DEF Init
<1> QED BY <1>1, <1>2, <1>3, NoneHeld

LEMMA EditKeeps ==
    ASSUME Inv, HeldInv, NEW e \in Edits, Edit(e), NEW k \in Keys \ Recapturing
    PROVE  KeepsCaptures(k)'
<1>1. KeepsCaptures(k) /\ captures \in [Cues -> [Keys -> Captures \cup {NoCapture}]]
  BY DEF HeldInv, Inv, ShowOK
<1>2. e.cue \in Cues /\ e.key \in Keys
  BY PlaybackAssumption
<1> PICK cue : cue = e.cue
  OBVIOUS
<1> PICK key : key = e.key
  OBVIOUS
<1>3. captures' = [captures EXCEPT ![cue][key] = e.says]
  BY DEF Edit
<1> SUFFICES ASSUME NEW c \in Cues PROVE captures'[c][k] # NoCapture <=> Has(c, k)
  BY DEF KeepsCaptures, Captures_
<1>4. captures[c][k] # NoCapture <=> Has(c, k)
  BY <1>1 DEF KeepsCaptures, Captures_
<1>5. CASE c = cue /\ k = key
  <2>1. captures'[c][k] = e.says
    BY <1>1, <1>2, <1>3, <1>5
  <2>2. e.says # NoCapture /\ Has(c, k)
    BY <1>5 DEF Recapturing, Has
  <2> QED BY <2>1, <2>2
<1>6. CASE c # cue \/ k # key
  <2>1. captures'[c][k] = captures[c][k]
    BY <1>1, <1>2, <1>3, <1>6
  <2> QED BY <1>4, <2>1
<1> QED BY <1>5, <1>6

\* What a key captures is the same as long as nothing is edited.
LEMMA SameCaptures ==
    ASSUME HeldInv, captures' = captures, NEW k \in Keys \ Recapturing
    PROVE  KeepsCaptures(k)'
BY DEF HeldInv, KeepsCaptures, Captures_

\* A key a flow sets keeps what is beside it, and is driven.
LEMMA OutrightHeld ==
    ASSUME NEW k, NEW at, Held(at, k), rows \subseteq Ids,
           NEW new, new.driver = SetOutright, new.beside = at.beside
    PROVE  Held(new, k)
<1>1. new.driver.cue = Nobody /\ Occupied(new)
  BY DriversAre DEF Occupied
<1>2. OwnersWere(new)
  BY <1>1, CuesAreCues, NobodyIsNoCue DEF OwnersWere
<1> QED BY <1>1, <1>2 DEF Held

LEMMA HeldHolds == Inv /\ Inv' /\ HeldInv /\ [Next]_vars => HeldInv'
<1> SUFFICES ASSUME Inv, Inv', HeldInv, [Next]_vars PROVE HeldInv'
  OBVIOUS
<1>1. CASE \E s \in Ids : Command(s)
  <2> PICK s \in Ids : Command(s)
    BY <1>1
  <2>1. UNCHANGED <<captures, own>> /\ rows' \subseteq rows
    BY CommandGoes DEF Inv, Go, DeleteSequence
  <2> QED BY <2>1, HeldStep, SameCaptures DEF own
<1>2. CASE \E e \in Edits : Edit(e)
  <2> PICK e \in Edits : Edit(e)
    BY <1>2
  <2>1. UNCHANGED <<rows, own>>
    BY DEF Edit
  <2> QED BY <2>1, HeldStep, EditKeeps DEF own
<1>3. CASE \E k \in Flowed : SetParameter(k) \/ ReleaseTrack(k)
  <2> PICK f \in Flowed : SetParameter(f) \/ ReleaseTrack(f)
    BY <1>3
  <2>1. UNCHANGED <<rows, captures, playing>> /\ stage' \in {stage, [stage EXCEPT ![f].driver = SetOutright]}
    BY DEF SetParameter, ReleaseTrack, show
  <2>2. stage \in [Keys -> Spots] /\ rows \subseteq Ids
    BY DEF Inv, StageOK, ShowOK
  <2> SUFFICES ASSUME NEW k \in Keys \ Recapturing PROVE KeepsCaptures(k)' /\ Held(stage[k], k)'
    BY DEF HeldInv
  <2>3. PICK at : at = stage[k]
    OBVIOUS
  <2>4. PICK new : new = [at EXCEPT !.driver = SetOutright]
    OBVIOUS
  <2>5. at \in OnKey(k) /\ Held(at, k)
    BY <2>3 DEF HeldInv, Inv, StageOK
  <2>6. new.driver = SetOutright /\ new.beside = at.beside
    BY <2>4, <2>5, SetOutrightIs
  <2>7. stage'[k] \in {at, new}
    BY <2>1, <2>2, <2>3, <2>4
  <2>8. Held(at, k)'
    BY <2>1, <2>5, HeldShrinks
  <2>9. Held(new, k)
    BY ONLY <2>2, <2>5, <2>6, OutrightHeld
  <2>10. Held(new, k)'
    BY <2>1, <2>9, HeldShrinks
  <2> QED BY <2>1, <2>7, <2>8, <2>10, SameCaptures
<1>4. CASE Restart
  <2>1. UNCHANGED <<rows, captures>> /\ (\A s \in Ids : ~Was(s)') /\ rows \subseteq Ids
    BY <1>4 DEF Restart, Was, show, Inv, ShowOK
  <2> SUFFICES ASSUME NEW k \in Keys \ Recapturing PROVE KeepsCaptures(k)' /\ Held(stage[k], k)'
    BY DEF HeldInv
  <2>2. PICK at : at = [driver |-> Undriven, beside |-> <<>>]
    OBVIOUS
  <2>3. stage'[k] = at
    BY <1>4, <2>2 DEF Restart
  <2>4. at.beside = <<>> /\ Range(at.beside) = {} /\ at.driver.cue = Nobody
    BY <2>2, DriversAre DEF Range
  <2>5. OwnersWere(at)'
    BY <2>1, <2>4, CuesAreCues, NobodyIsNoCue DEF OwnersWere
  <2>6. \A t \in rows' : ~Was(t)'
    BY <2>1
  <2>7. Held(at, k)'
    BY <2>4, <2>5, <2>6 DEF Held
  <2> QED BY <2>1, <2>3, <2>7, SameCaptures
<1>5. CASE \E due \in SUBSET Ids, there \in {{}, Keys} : Pass(due, there)
  <2> PICK due \in SUBSET Ids, there \in {{}, Keys} : Pass(due, there)
    BY <1>5
  <2>1. captures' = captures
    BY DEF Pass
  <2>2. \A k \in Keys \ Recapturing : Held(stage[k], k)'
    BY PassHeld DEF HeldInv
  <2> QED BY <2>1, <2>2, SameCaptures DEF HeldInv
<1>6. CASE UNCHANGED vars
  <2>1. UNCHANGED <<captures, rows, playing, stage>>
    BY <1>6 DEF vars, show, own
  <2> QED BY <2>1, HeldStep, SameCaptures
<1> QED BY <1>1, <1>2, <1>3, <1>4, <1>5, <1>6 DEF Next

LEMMA AlwaysHeld == Spec => [](Inv /\ HeldInv)
<1>1. Inv /\ Inv' /\ HeldInv /\ [Next]_vars => HeldInv'
  BY HeldHolds
<1> QED BY <1>1, AlwaysInv, HeldAtFirst, PTL DEF Spec

\* With nothing owed, what the last pass found on is what is on.
LEMMA SettledHeld ==
    ASSUME Inv, owed = 0
    PROVE  \A s \in rows : s \in Ids /\ playing[s] = ActiveCue(s) /\ (Was(s) <=> IsOn(s))
<1> SUFFICES ASSUME NEW s \in rows
             PROVE  s \in Ids /\ playing[s] = ActiveCue(s) /\ (Was(s) <=> IsOn(s))
  OBVIOUS
<1>1. ShowOK /\ s \in Ids /\ playing[s] = ActiveCue(s)
  BY DEF Inv, ShowOK, NothingMoved
<1> QED BY <1>1, ActiveCueIs DEF Was

LEMMA HeldIsOn == Inv /\ HeldInv => NothingOffDrives
<1> SUFFICES ASSUME Inv, HeldInv, owed = 0, NEW k \in Keys \ Recapturing
             PROVE  /\ LET s == SequenceOf(stage[k].driver.cue)
                       IN \/ s = Nobody \/ IsOn(s)
                          \/ \E t \in rows : IsOn(t) /\ CouldDrive(t, k) /\ ~Tracks(t, k)
                          \/ \E t \in Ids \ rows : CouldDrive(t, k)
                    /\ \A i \in DOMAIN stage[k].beside :
                           stage[k].beside[i].of \in rows => IsOn(stage[k].beside[i].of)
  BY DEF NothingOffDrives, Settled
<1> PICK at : at = stage[k]
  OBVIOUS
<1> PICK s : s = SequenceOf(at.driver.cue)
  OBVIOUS
<1>1. Held(at, k) /\ ShowOK /\ KeepsCaptures(k)
  BY DEF HeldInv, Inv
<1>2. \A t \in rows : t \in Ids /\ playing[t] = ActiveCue(t) /\ (Was(t) <=> IsOn(t))
  BY SettledHeld
<1>3. \A l \in Range(at.beside) : l.of \in rows => IsOn(l.of)
  BY <1>1, <1>2 DEF Held
<1>4. \A i \in DOMAIN at.beside : at.beside[i] \in Range(at.beside)
  BY DEF Range
<1>5. CASE OwnersWere(at)
  <2>1. s # Nobody => s \in rows /\ at.driver.cue \in Range(CuesOf[s])
    BY <1>1, SequenceOfIs
  <2>2. s = Nobody \/ IsOn(s)
    BY <1>2, <1>5, <2>1 DEF OwnersWere
  <2> QED BY <1>3, <1>4, <2>2
<1>6. CASE Waits(k)
  <2>1. PICK t \in Ids : Could(t, k) /\ (t \notin rows \/ (Was(t) /\ ~TracksBy(t, playing[t], k)))
    BY <1>6 DEF Waits
  <2>2. CouldDrive(t, k)
    BY <1>1, <2>1, CouldIs
  <2>3. t \in rows => IsOn(t) /\ ~Tracks(t, k)
    BY <1>1, <1>2, <2>1, TracksByIs
  <2>4. \/ \E u \in rows : IsOn(u) /\ CouldDrive(u, k) /\ ~Tracks(u, k)
        \/ \E u \in Ids \ rows : CouldDrive(u, k)
    BY <2>2, <2>3
  <2> QED BY <1>3, <1>4, <2>4
<1> QED BY <1>1, <1>5, <1>6 DEF Held

LEMMA HeldIsDriven == Inv /\ HeldInv => TrackedIsDriven
<1> SUFFICES ASSUME Inv, HeldInv, owed = 0, NEW k \in Keys \ Recapturing, NEW t \in rows, Tracks(t, k)
             PROVE  \/ IsOn(SequenceOf(stage[k].driver.cue)) \/ stage[k].driver = SetOutright
                    \/ LeftBehind(k)
  BY DEF TrackedIsDriven, Settled
<1> PICK at : at = stage[k]
  OBVIOUS
<1> PICK s : s = SequenceOf(at.driver.cue)
  OBVIOUS
<1>1. Held(at, k) /\ ShowOK /\ KeepsCaptures(k)
  BY DEF HeldInv, Inv
<1>2. \A u \in rows : u \in Ids /\ playing[u] = ActiveCue(u) /\ (Was(u) <=> IsOn(u))
  BY SettledHeld
<1>3. IsOn(t)
  BY <1>1, <1>2, TrackedFromIs
<1>4. Was(t) /\ TracksBy(t, playing[t], k)
  BY <1>1, <1>2, <1>3, TracksByIs
<1>5. Occupied(at) /\ OwnersWere(at)
  BY <1>1, <1>4 DEF Held
<1>6. s # Nobody => s \in rows /\ at.driver.cue \in Range(CuesOf[s])
  BY <1>1, SequenceOfIs
<1>7. s = Nobody \/ IsOn(s)
  BY <1>2, <1>5, <1>6 DEF OwnersWere
<1> QED BY <1>5, <1>7 DEF LeftBehind, Occupied

\* release_sequence, let_go and take_cue: whoever comes and goes between two
\* passes and in whichever order a pass takes them, nothing is driven by a
\* sequence that is off, and nothing of one is left beside, but for what was
\* left to another that could drive it. It holds of every key but those an
\* edit gives to a cue or takes from one.
THEOREM NothingOffIsLeft == Spec => []NothingOffDrives
BY AlwaysHeld, HeldIsOn, PTL

\* take_cue: no key that a sequence tracks is left to itself by a pass, nor to
\* a sequence that is off, but for one a flow set or a take let go; of the same
\* keys.
THEOREM TrackedStaysDriven == Spec => []TrackedIsDriven
BY AlwaysHeld, HeldIsDriven, PTL

=============================================================================
