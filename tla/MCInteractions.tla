--------------------------- MODULE MCInteractions ---------------------------
(* Three members answer; up to four cases of two lengths, of which a page  *)
(* takes two; two moderators over the overwrites of @everyone, the opener   *)
(* of a ticket and a guest.                                                *)
EXTENDS Interactions

CONSTANTS m1, m2, m3, opener, guest, everyone, timer, none

ThreeMembers == {m1, m2, m3}
TwoMods      == {m1, m2}
TwoGuests    == {opener, guest}
TwoSizes     == {1, 3}
ThreeDelays  == {0, 1, 3}
=============================================================================
