-------------------------- MODULE MCOrderLifecycle --------------------------
(* Small instances of OrderLifecycle for TLC.                              *)
EXTENDS OrderInvariant, TLC

\* From flat to long, to short, and through zero.
ThroughZero == {-1, 0, 2}

Sym == Permutations(Orders) \cup Permutations(Decisions)
=============================================================================
