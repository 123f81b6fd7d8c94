------------------------------ MODULE MCEndOfDay ------------------------------
(* Small instances of EndOfDay for TLC.                                    *)
EXTENDS EodInvariant, TLC

Sym == Permutations(Orders)
=============================================================================
