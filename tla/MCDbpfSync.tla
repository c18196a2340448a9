----------------------------- MODULE MCDbpfSync -----------------------------
(* Small instances of DbpfSync for TLC.                                    *)
EXTENDS DbpfSync, TLC

CONSTANTS LowMark, HighMark

\* Watermarks; a collection that syncs lazily gathers one operation more.
LowOf  == [c \in Coll |-> LowMark]
HighOf == [c \in Coll |-> IF c \in MetaSync THEN HighMark ELSE HighMark + 1]

Symmetry == Permutations(Op)

\* A server with one file system, whichever of Coll Init has chosen for all
\* operations: the collections stand for the ways to configure it.
OneFsNext == Next /\ UNCHANGED coll
OneFsSpec == Init /\ [][OneFsNext]_vars /\ Fairness
=============================================================================
