--------------------------- MODULE MCEarnRequests ---------------------------
(* EarnRequests for TLC: rows, calls and decisions are interchangeable,    *)
(* and so are the person's logins.                                         *)
EXTENDS EarnRequests, TLC

Symmetry == Permutations(Req) \cup Permutations(Decision) \cup Permutations(Ask)
                \cup Permutations(Linked)
=============================================================================
