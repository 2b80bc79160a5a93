---------------------------- MODULE MCSanctions ----------------------------
(* Small instances of Sanctions for TLC. *)
EXTENDS Sanctions, TLC

CONSTANTS u1, u2, c1, c2

OneUser  == {u1}
TwoUsers == {u1, u2}
TwoCoros == {c1, c2}

KickThenBan  == {[kick |-> 1, ban |-> 2]}
TwoSettings  == KickThenBan \cup {[kick |-> 2, ban |-> 2]}

Symmetry == Permutations(Coros)
=============================================================================
