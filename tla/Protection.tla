----------------------------- MODULE Protection -----------------------------
(***************************************************************************)
(* The two trackers the bot keeps in memory (src/core/bot.py): every       *)
(* message that reaches the filter is put to the spam tracker, every join  *)
(* to the raid tracker, and both forget a guild the bot has left.  Neither *)
(* awaits anything, so a call is one step.                                 *)
(***************************************************************************)
EXTENDS SpamTracker, RaidTracker

vars == <<spamVars, raidVars, clockVars>>

Init == SpamInit /\ RaidInit /\ ClockInit

(* on_message *)
Message ==
  /\ \E k \in Members, text \in Texts, many \in BOOLEAN : Inspect(k, text, many)
  /\ UNCHANGED raidVars

(* on_member_join *)
Join ==
  /\ \E t \in Thresholds : RecordJoin(t)
  /\ UNCHANGED spamVars

Tick == Elapse /\ UNCHANGED <<spamVars, raidVars>>

Forget ==
  /\ \E k \in Tracked : Drop({k})
  /\ UNCHANGED <<raidVars, clockVars>>

(* on_guild_remove *)
GuildRemoved == Drop(Tracked) /\ ForgetJoins /\ UNCHANGED clockVars

Next == Message \/ Join \/ Tick \/ Forget \/ GuildRemoved

Spec == Init /\ [][Next]_vars

-----------------------------------------------------------------------------
(* Every variable has its type; the table of members and the lists kept of *)
(* each never outgrow their limits.                                         *)
TypeOK == SpamTypeOK /\ RaidTypeOK /\ ClockTypeOK
=============================================================================
