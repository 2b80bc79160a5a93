---------------------------- MODULE MCProtection ----------------------------
(* Small instances of Protection for TLC. *)
EXTENDS Protection, TLC

CONSTANTS m1, m2, m3, hello, blank

ThreeMembers == {m1, m2, m3}
TwoTexts     == {hello, blank}
TwoOrThree   == {2, 3}

Symmetry == Permutations(Members)
=============================================================================
