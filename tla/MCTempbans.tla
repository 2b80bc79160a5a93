---------------------------- MODULE MCTempbans ----------------------------
(* Small instances of Tempbans for TLC. *)
EXTENDS Tempbans

CONSTANTS u1, u2, m1, m2

OneUser  == {u1}
TwoUsers == {u1, u2}
OneMod   == {m1}
TwoMods  == {m1, m2}
=============================================================================
