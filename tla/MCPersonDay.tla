---------------------------- MODULE MCPersonDay ----------------------------
(* PersonDay for TLC.                                                      *)
EXTENDS PersonDay, TLC
=============================================================================
