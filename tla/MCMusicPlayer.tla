--------------------------- MODULE MCMusicPlayer ---------------------------
(* Small instances of MusicPlayer for TLC. *)
EXTENDS MusicPlayer, TLC

CONSTANTS t1, t2, t3, s1, s2

ThreeTracks == {t1, t2, t3}
TwoTracks   == {t1, t2}
OneStopper  == {s1}
TwoStoppers == {s1, s2}

Symmetry == Permutations(Tracks) \cup Permutations(Stoppers)
=============================================================================
