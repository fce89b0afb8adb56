------------------------------ MODULE Sublists ------------------------------
(***************************************************************************)
(* What is kept of a list: Vec::retain, and what an iterator filters.      *)
(***************************************************************************)
EXTENDS SequencesExt

AmongStep(S, list, x) == IF x \in S THEN Append(list, x) ELSE list

\* What is in S of a sequence, in the order it comes in.
Among(S, s) ==
    LET kept[i \in 0..Len(s)] == IF i = 0 THEN <<>> ELSE AmongStep(S, kept[i - 1], s[i])
    IN  kept[Len(s)]
=============================================================================
