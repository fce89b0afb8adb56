------------------------------- MODULE MCUndo -------------------------------
\* Values for the constants of Undo.
EXTENDS Undo

CONSTANTS ada, ben

Two == {ada, ben}

Either == Permutations(Two)

\* Three writes of any kind and what can be pressed over them; or two, and
\* pressed over and over.
Sessions == {<<3, 4>>, <<2, 6>>}

\* One operator is enough to leave a branch and come back to it.
Alone == {ada}

Returning == {<<2, 4>>}
=============================================================================
