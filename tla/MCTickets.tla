----------------------------- MODULE MCTickets -----------------------------
(* A small instance of Tickets for TLC: three clicks of one member without *)
(* anybody closing, or two with a closer beside them.                      *)
EXTENDS Tickets, TLC

CONSTANTS k1, k2, k3, r1, t1, t2, l1, l2, l3, m1

OneUser          == {m1}
ThreeClicks      == {k1, k2, k3}
OneCloser        == {r1}
TwoChannels      == {t1, t2}
ThreeLocks       == {l1, l2, l3}
OpeningOrClosing == {<<3, 0>>, <<2, 1>>}

Symmetry == Permutations(Clicks) \cup Permutations(Closers)
=============================================================================
