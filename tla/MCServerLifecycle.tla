------------------------- MODULE MCServerLifecycle -------------------------
(* Instances of ServerLifecycle for TLC.                                   *)
EXTENDS ServerLifecycle, TLC

CONSTANTS t1, t2, p1, p2

MCThreads == {t1, t2}
MCProcs == {p1, p2}

\* Processes and, where the autostart worker never runs, threads are alike.
Symmetry == Permutations(MCProcs) \cup Permutations(MCThreads)
=============================================================================
