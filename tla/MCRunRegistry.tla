--------------------------- MODULE MCRunRegistry ---------------------------
(* Two callers driving partial runs of two windows each.                   *)
EXTENDS RunRegistry, TLC

CONSTANTS t1, t2

MCThreads == {t1, t2}

\* The callers are interchangeable.
Symmetry == Permutations(MCThreads)
=============================================================================
