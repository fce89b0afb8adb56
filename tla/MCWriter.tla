------------------------------ MODULE MCWriter ------------------------------
\* Values for the constants of Writer.
EXTENDS Writer

\* A saved version, and a speed master a timeline drives, which is not deleted.
AllRows == {"version", "master"}
SavedVersions == {"version"}
SpeedMasters == {"master"}

\* The station is stopped between commands, and the disk takes everything.
NothingCutShort == lost = {}
=============================================================================
