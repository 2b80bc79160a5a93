------------------------------ MODULE MCCaches ------------------------------
(* Small instances of Caches for TLC. *)
EXTENDS Caches, TLC

CONSTANTS w1, w2, ch1, c1, c2, c3

TwoWords   == {w1, w2}
OneChannel == {ch1}
ThreeCoros == {c1, c2, c3}
Three      == {<<3, 0>>, <<0, 3>>}
ThreeOrOneOfEach == Three \cup {<<1, 1>>}
Symmetry   == Permutations(Words) \cup Permutations(Coros)
=============================================================================
