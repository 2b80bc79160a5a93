---------------------------- MODULE MCCaseStore ----------------------------
(* Small instances of CaseStore for TLC. *)
EXTENDS CaseStore, TLC

CONSTANTS c1, c2, c3, g1, u1, u2

TwoClients   == {c1, c2}
ThreeClients == {c1, c2, c3}
OneGuild     == {g1}
OneUser      == {u1}
TwoUsers     == {u1, u2}

ClientSymmetry == Permutations(Clients)
=============================================================================
