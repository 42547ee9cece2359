--------------------------- MODULE MCScreenLock ---------------------------
(* ScreenLock for TLC: people with the same rules are interchangeable.     *)
EXTENDS ScreenLock, TLC

Symmetry == Permutations(People)
=============================================================================
