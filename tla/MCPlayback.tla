----------------------------- MODULE MCPlayback -----------------------------
\* Values for the constants of Playback.
EXTENDS Playback

\* A look of two cues, the first of which goes on by itself; a button over it;
\* and a chase that goes around.
Order == <<"look", "button", "chase">>

Stacks == [look |-> <<"l1", "l2">>, button |-> <<"b1">>, chase |-> <<"c1", "c2">>]

Says(v) == [to |-> v, fx |-> FALSE]
Runs(v) == [to |-> v, fx |-> TRUE]

\* The dimmer is shared by a look and two sequences that merge; the pan is
\* driven by an effect and by a later cue of the look; the zoom is gained and
\* lost by edits. Flows and takes are on the first two.
Plot ==
    [l1 |-> [dim |-> Says("low"), pan |-> NoCapture, zoom |-> NoCapture],
     l2 |-> [dim |-> NoCapture, pan |-> Says("low"), zoom |-> Says("low")],
     b1 |-> [dim |-> Says("high"), pan |-> NoCapture, zoom |-> NoCapture],
     c1 |-> [dim |-> NoCapture, pan |-> Runs("high"), zoom |-> NoCapture],
     c2 |-> [dim |-> Says("high"), pan |-> NoCapture, zoom |-> Says("high")]]

\* The pan of a standing cue is changed; the zoom is gained by the button's
\* and lost again.
Changes == {[cue |-> "l2", key |-> "pan", says |-> Says("high")],
            [cue |-> "b1", key |-> "zoom", says |-> NoCapture],
            [cue |-> "b1", key |-> "zoom", says |-> Says("high")]}

\* Changes no run has (README, "Met on the way"): the look's pan is taken from
\* its second cue, or given to its first as well.
Recaptured == {[cue |-> "l2", key |-> "pan", says |-> NoCapture],
               [cue |-> "l1", key |-> "pan", says |-> Says("low")]}
=============================================================================
