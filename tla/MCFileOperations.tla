--------------------------- MODULE MCFileOperations ---------------------------
(* FileOperations with its jobs' program points as the caller labels.      *)
EXTENDS FileOperations, TLC

CONSTANTS t1, t2, p1, p2

MCCallerLabels == JobLabels

Symmetry == Permutations({t1, t2}) \cup Permutations({p1, p2})
===============================================================================
