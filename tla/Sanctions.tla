------------------------------ MODULE Sanctions ------------------------------
(***************************************************************************)
(* How members of one guild are warned, kicked, banned and timed out: the  *)
(* moderators' commands (src/cogs/moderation.py), the message filter and   *)
(* the honeypot (src/cogs/automod.py), the account-age gate                *)
(* (src/cogs/gatekeeper.py), and the escalation that /warn and the filter  *)
(* share (src/services/escalation.py).  Each handler is a coroutine split  *)
(* at the awaits that matter: Discord calls and database writes.  A write  *)
(* is one step (module CaseStore); /ban and its end are module Tempbans.   *)
(* Direct messages, notices and replies swallow their errors and leave     *)
(* nothing behind, so they are no steps of their own.                      *)
(***************************************************************************)
EXTENDS Naturals, Sequences, FiniteSets

CONSTANTS
  Users,          (* members without moderation rights *)
  Coros,          (* handlers that may run at the same time *)
  Limits,         (* pairs of thresholds that /set_warn_thresholds may set *)
  Cooldown,       (* PUNISH_COOLDOWN_SECONDS *)
  MaxPunished,    (* entries after which _recently_punished is emptied *)
  MaxTime,        (* bound: the clock runs from 0 to MaxTime *)
  MaxCases,       (* bound on the cases before a handler starts *)
  MaxFailures     (* bound on refusals, errors and restarts *)

ASSUME UsersAssumption == Users # {}
(* The command takes thresholds from 1 on, and no ban before the kick. *)
ASSUME LimitsAssumption ==
  \A l \in Limits : l.kick \in Nat \ {0} /\ l.ban \in Nat /\ l.kick <= l.ban
ASSUME BoundsAssumption ==
  {Cooldown, MaxPunished, MaxTime, MaxCases, MaxFailures} \subseteq Nat

VARIABLES
  cases,      (* rows of the cases table, by number *)
  presence,   (* what each member is to Discord: in, out or banned *)
  muted,      (* members timed out *)
  limits,     (* warn_kick_threshold and warn_ban_threshold *)
  recently,   (* AutoMod._recently_punished: when, by member *)
  clock,      (* time.monotonic() *)
  failures,   (* refusals, errors and restarts so far *)
  pc, user, action, cfg, total,   (* per handler: where it is, its locals *)
  warned,     (* history: when the filter last decided to warn each member *)
  dropped,    (* history: members whose entry of recently was lost *)
  done,       (* history: how often Discord did what to whom *)
  pardoned,   (* history: handlers during which a warning was retired *)
  changed     (* history: the thresholds have been changed *)

callVars == <<pc, user, action, cfg, total>>
ghosts   == <<warned, dropped, done, pardoned, changed>>
vars == <<cases, presence, muted, limits, recently, clock, failures, callVars,
          ghosts>>

(* What Discord is asked to do to a member; a warning is a case alone. *)
Removals  == {"kick", "ban"}
Sanctions == Removals \cup {"timeout", "untimeout"}
Never     == MaxTime + Cooldown + 1

Case == [user : Users, action : Sanctions \cup {"warn"}, active : BOOLEAN]

Init ==
  /\ cases    = <<>>
  /\ presence = [u \in Users |-> "in"]
  /\ muted    = {}
  /\ limits \in Limits
  /\ recently = [u \in {} |-> 0]
  /\ clock    = 0
  /\ failures = 0
  /\ pc       = [c \in Coros |-> "idle"]
  /\ user     = [c \in Coros |-> CHOOSE u \in Users : TRUE]
  /\ action   = [c \in Coros |-> "warn"]
  /\ cfg      = [c \in Coros |-> CHOOSE l \in Limits : TRUE]
  /\ total    = [c \in Coros |-> 0]
  /\ warned   = [u \in Users |-> Never]
  /\ dropped  = {}
  /\ done     = [u \in Users |-> [a \in Sanctions |-> 0]]
  /\ pardoned = {}
  /\ changed  = FALSE

(* count_active_warnings, as add_case counts them. *)
WarningsOf(log, u) ==
  {n \in DOMAIN log : /\ log[n].user = u
                      /\ log[n].action = "warn"
                      /\ log[n].active}
Active(u) == Cardinality(WarningsOf(cases, u))

NewCase(u, a) == [user |-> u, action |-> a, active |-> TRUE]

(* Something goes wrong that need not; the budget for it is MaxFailures. *)
Fails == failures < MaxFailures /\ failures' = failures + 1
Works == UNCHANGED failures

Goto(c, from, to) ==
  /\ pc[c] = from
  /\ pc'   = [pc EXCEPT ![c] = to]

(* The handler ends and its locals are gone. *)
Return(c, from) ==
  /\ pc[c] = from
  /\ pc'       = [pc EXCEPT ![c] = "idle"]
  /\ user'     = [user EXCEPT ![c] = CHOOSE u \in Users : TRUE]
  /\ action'   = [action EXCEPT ![c] = "warn"]
  /\ cfg'      = [cfg EXCEPT ![c] = CHOOSE l \in Limits : TRUE]
  /\ total'    = [total EXCEPT ![c] = 0]
  /\ pardoned' = pardoned \ {c}

(* A handler writes up to two cases: a warning, and what it escalates to.  *)
RoomForCases ==
  Len(cases) + Cardinality({c \in Coros : pc[c] # "idle"}) < MaxCases

(* A handler starts on a member with the settings read on the way. *)
Start(c, u, a, to) ==
  /\ RoomForCases
  /\ Goto(c, "idle", to)
  /\ user'   = [user EXCEPT ![c] = u]
  /\ action' = [action EXCEPT ![c] = a]
  /\ cfg'    = [cfg EXCEPT ![c] = limits]
  /\ UNCHANGED <<cases, muted, limits, recently, clock, failures, total, ghosts>>

-----------------------------------------------------------------------------
(* Commands of a moderator, on a member who is in the guild.               *)
Warn(c, u) ==
  /\ presence[u] = "in"
  /\ Start(c, u, "warn", "warning")
  /\ UNCHANGED presence

Kick(c, u) ==
  /\ presence[u] = "in"
  /\ Start(c, u, "kick", "acting")
  /\ UNCHANGED presence

Timeout(c, u) ==
  /\ presence[u] = "in"
  /\ Start(c, u, "timeout", "acting")
  /\ UNCHANGED presence

Untimeout(c, u) ==
  /\ presence[u] = "in" /\ u \in muted
  /\ Start(c, u, "untimeout", "acting")
  /\ UNCHANGED presence

(* on_message: a message for which the member is warned, or one in the     *)
(* honeypot channel, for which he is banned.                               *)
Message(c, u) ==
  /\ presence[u] = "in"
  /\ \E a \in {"warn", "ban"} : Start(c, u, a, "deleting")
  /\ UNCHANGED presence

(* on_member_join with an account that is too young. *)
JoinYoung(c, u) ==
  /\ presence[u] = "out"
  /\ presence' = [presence EXCEPT ![u] = "in"]
  /\ Start(c, u, "kick", "acting")

-----------------------------------------------------------------------------
(* _delete swallows whatever Discord answers. *)
HoneypotDeleted(c) ==
  /\ action[c] = "ban"
  /\ Goto(c, "deleting", "acting")
  /\ UNCHANGED <<cases, presence, muted, limits, recently, clock, failures,
                 user, action, cfg, total, ghosts>>

OnCooldown(u) ==
  u \in DOMAIN recently /\ clock - recently[u] < Cooldown

(* The message is gone and its author was warned moments ago. *)
Ignore(c) ==
  /\ action[c] = "warn" /\ OnCooldown(user[c])
  /\ Return(c, "deleting")
  /\ UNCHANGED <<cases, presence, muted, limits, recently, clock, failures,
                 warned, dropped, done, changed>>

(* Fault: the punishment is not remembered. *)
PunishUnrecorded(c) ==
  /\ action[c] = "warn" /\ ~OnCooldown(user[c])
  /\ Goto(c, "deleting", "warning")
  /\ warned' = [warned EXCEPT ![user[c]] = clock]
  /\ dropped' = dropped \ {user[c]}
  /\ UNCHANGED <<cases, presence, muted, limits, recently, clock, failures,
                 user, action, cfg, total, done, pardoned, changed>>

(* _on_cooldown records the punishment in the step that allows it, and     *)
(* empties the whole table when it has grown too long.                     *)
Punish(c) ==
  LET u    == user[c]
      full == Cardinality(DOMAIN recently) > MaxPunished
      kept == IF full THEN {} ELSE DOMAIN recently
  IN  /\ action[c] = "warn" /\ ~OnCooldown(u)
      /\ Goto(c, "deleting", "warning")
      /\ recently' = [v \in kept \cup {u} |-> IF v = u THEN clock ELSE recently[v]]
      /\ warned'   = [warned EXCEPT ![u] = clock]
      /\ dropped'  = (dropped \cup (DOMAIN recently \ kept)) \ {u}
      /\ UNCHANGED <<cases, presence, muted, limits, clock, failures, user,
                     action, cfg, total, done, pardoned, changed>>

(* Fault: retired warnings are counted as well. *)
AddWarningCountsAll(c) ==
  LET log == Append(cases, NewCase(user[c], "warn")) IN
  /\ Works
  /\ Goto(c, "warning", "reporting")
  /\ cases' = log
  /\ total' = [total EXCEPT ![c] =
       Cardinality({n \in DOMAIN log : log[n].user = user[c] /\ log[n].action = "warn"})]
  /\ UNCHANGED <<presence, muted, limits, recently, clock, user, action, cfg, ghosts>>

(* add_case of the warning: the case, and the member's total with it. *)
AddWarning(c) ==
  LET log == Append(cases, NewCase(user[c], "warn")) IN
  /\ \/ /\ Works
        /\ Goto(c, "warning", "reporting")
        /\ cases' = log
        /\ total' = [total EXCEPT ![c] = Cardinality(WarningsOf(log, user[c]))]
        /\ UNCHANGED <<user, action, cfg, pardoned>>
     \/ /\ Fails
        /\ Return(c, "warning")
        /\ UNCHANGED cases
  /\ UNCHANGED <<presence, muted, limits, recently, clock, warned, dropped,
                 done, changed>>

(* The report is sent; the settings it looks up may not be readable, and   *)
(* then the handler ends before it escalates.                              *)
ReportFails(c) ==
  /\ Fails
  /\ Return(c, "reporting")
  /\ UNCHANGED <<cases, presence, muted, limits, recently, clock, warned,
                 dropped, done, changed>>

(* Fault: the lower threshold is looked at first. *)
EscalateKickFirst(c) ==
  /\ \/ /\ total[c] >= cfg[c].kick
        /\ Goto(c, "reporting", "acting")
        /\ action' = [action EXCEPT ![c] = "kick"]
        /\ UNCHANGED <<user, cfg, total, pardoned>>
     \/ /\ total[c] < cfg[c].kick
        /\ Return(c, "reporting")
  /\ UNCHANGED <<cases, presence, muted, limits, recently, clock, failures,
                 warned, dropped, done, changed>>

(* EscalationService.apply, with the total and the settings of its caller. *)
Escalate(c) ==
  LET ban  == total[c] >= cfg[c].ban
      kick == ~ban /\ total[c] >= cfg[c].kick
  IN  /\ \/ /\ ban \/ kick
            /\ Goto(c, "reporting", "acting")
            /\ action' = [action EXCEPT ![c] = IF ban THEN "ban" ELSE "kick"]
            /\ UNCHANGED <<user, cfg, total, pardoned>>
         \/ ~ban /\ ~kick /\ Return(c, "reporting")
      /\ UNCHANGED <<cases, presence, muted, limits, recently, clock, failures,
                     warned, dropped, done, changed>>

-----------------------------------------------------------------------------
(* The Discord call.  A ban does not need the member to be there.          *)
Possible(u, a) == a = "ban" \/ presence[u] = "in"

Act(c) ==
  LET u == user[c]
      a == action[c]
  IN  /\ Possible(u, a)
      /\ Goto(c, "acting", "recording")
      /\ presence' = [presence EXCEPT ![u] = CASE a = "kick" -> "out"
                                               [] a = "ban"  -> "banned"
                                               [] OTHER      -> @]
      /\ muted' = CASE a = "timeout"   -> muted \cup {u}
                    [] a = "untimeout" -> muted \ {u}
                    [] OTHER           -> muted
      /\ done' = [done EXCEPT ![u][a] = @ + 1]
      /\ UNCHANGED <<cases, limits, recently, clock, failures, user, action,
                     cfg, total, warned, dropped, pardoned, changed>>

(* Fault: a refusal is logged and does not end the handler. *)
RefusedRecords(c) ==
  /\ Fails \/ (~Possible(user[c], action[c]) /\ Works)
  /\ Goto(c, "acting", "recording")
  /\ UNCHANGED <<cases, presence, muted, limits, recently, clock, user, action,
                 cfg, total, ghosts>>

(* NotFound for a member who is gone, or Discord refuses: no case. *)
Refused(c) ==
  /\ Fails \/ (~Possible(user[c], action[c]) /\ Works)
  /\ Return(c, "acting")
  /\ UNCHANGED <<cases, presence, muted, limits, recently, clock, warned,
                 dropped, done, changed>>

(* add_case of what was done. *)
RecordSanction(c) ==
  /\ \/ Works /\ cases' = Append(cases, NewCase(user[c], action[c]))
     \/ Fails /\ UNCHANGED cases
  /\ Return(c, "recording")
  /\ UNCHANGED <<presence, muted, limits, recently, clock, warned, dropped,
                 done, changed>>

-----------------------------------------------------------------------------
(* A warning stops counting: /delwarn, /clearwarnings, or its expiry.      *)
Retire(u, S) ==
  /\ S # {}
  /\ cases' = [n \in DOMAIN cases |->
                 IF n \in S THEN [cases[n] EXCEPT !.active = FALSE] ELSE cases[n]]
  /\ pardoned' = pardoned \cup {c \in Coros : pc[c] # "idle" /\ user[c] = u}
  /\ UNCHANGED <<presence, muted, limits, recently, clock, failures, callVars,
                 warned, dropped, done, changed>>

DelWarn(u) == \E n \in WarningsOf(cases, u) : Retire(u, {n})
ClearWarnings(u) == Retire(u, WarningsOf(cases, u))

(* /set_warn_thresholds, once (module ConfigCache). *)
SetLimits(l) ==
  /\ ~changed /\ l # limits
  /\ limits'  = l
  /\ changed' = TRUE
  /\ UNCHANGED <<cases, presence, muted, recently, clock, failures, callVars,
                 warned, dropped, done, pardoned>>

(* A kicked member is back, with an account that is old enough. *)
Rejoin(u) ==
  /\ presence[u] = "out"
  /\ presence' = [presence EXCEPT ![u] = "in"]
  /\ UNCHANGED <<cases, muted, limits, recently, clock, failures, callVars, ghosts>>

Tick ==
  /\ clock < MaxTime
  /\ clock' = clock + 1
  /\ UNCHANGED <<cases, presence, muted, limits, recently, failures, callVars, ghosts>>

(* The process dies and starts again. *)
Restart ==
  /\ Fails
  /\ recently' = [u \in {} |-> 0]
  /\ dropped'  = Users
  /\ pc'       = [c \in Coros |-> "idle"]
  /\ user'     = [c \in Coros |-> CHOOSE u \in Users : TRUE]
  /\ action'   = [c \in Coros |-> "warn"]
  /\ cfg'      = [c \in Coros |-> CHOOSE l \in Limits : TRUE]
  /\ total'    = [c \in Coros |-> 0]
  /\ pardoned' = {}
  /\ UNCHANGED <<cases, presence, muted, limits, clock, warned, done, changed>>

Call(c, u) ==
  \/ Warn(c, u) \/ Kick(c, u) \/ Timeout(c, u) \/ Untimeout(c, u)
  \/ Message(c, u) \/ JoinYoung(c, u)

Step(c) ==
  \/ HoneypotDeleted(c) \/ Ignore(c) \/ Punish(c)
  \/ AddWarning(c) \/ ReportFails(c) \/ Escalate(c)
  \/ Act(c) \/ Refused(c) \/ RecordSanction(c)

Next ==
  \/ \E c \in Coros : Step(c) \/ \E u \in Users : Call(c, u)
  \/ \E u \in Users : DelWarn(u) \/ ClearWarnings(u) \/ Rejoin(u)
  \/ \E l \in Limits : SetLimits(l)
  \/ Tick
  \/ Restart

Spec == Init /\ [][Next]_vars

-----------------------------------------------------------------------------
(* Every variable has its type. *)
TypeOK ==
  /\ cases \in Seq(Case)
  /\ presence \in [Users -> {"in", "out", "banned"}]
  /\ muted \subseteq Users
  /\ limits \in Limits
  /\ DOMAIN recently \subseteq Users
  /\ \A u \in DOMAIN recently : recently[u] \in 0..clock
  /\ clock \in 0..MaxTime
  /\ failures \in 0..MaxFailures
  /\ pc \in [Coros -> {"idle", "deleting", "warning", "reporting", "acting",
                       "recording"}]
  /\ user \in [Coros -> Users]
  /\ action \in [Coros -> Sanctions \cup {"warn"}]
  /\ cfg \in [Coros -> Limits]
  /\ total \in [Coros -> Nat]
  /\ warned \in [Users -> 0..MaxTime \cup {Never}]
  /\ dropped \subseteq Users
  /\ done \in [Users -> [Sanctions -> Nat]]
  /\ pardoned \subseteq Coros
  /\ changed \in BOOLEAN

(* "Auto-escalation: configurable kick and ban warning thresholds": while  *)
(* nothing fails and the thresholds stay as they are, a member with enough *)
(* warnings to be banned is banned, or some handler that was told such a   *)
(* total has still to get to it, whoever warned and in whatever order.     *)
EnoughWarningsBan ==
  failures = 0 /\ ~changed =>
    \A u \in Users :
      Active(u) >= limits.ban =>
        \/ presence[u] = "banned"
        \/ \E c \in Coros : /\ pc[c] \in {"reporting", "acting"}
                            /\ user[c] = u
                            /\ total[c] >= limits.ban

(* An escalation works on a total counted several awaits ago.  Unless a    *)
(* warning of the member was retired meanwhile, he still has as many as    *)
(* the threshold asks for when he is removed.                              *)
RemovalEarned ==
  [][\A c \in Coros :
       Act(c) /\ total[c] > 0 /\ c \notin pardoned =>
         Active(user[c]) >= (IF action[c] = "ban" THEN cfg[c].ban
                                                  ELSE cfg[c].kick)]_vars

(* "the same member is ignored for a few seconds after being punished":    *)
(* two handlers never decide to warn one member within the cooldown, as    *)
(* long as his entry has not gone with the rest of the table.              *)
FloodWarnsOnce ==
  [][\A c \in Coros :
       Punish(c) /\ user[c] \notin dropped =>
         \/ warned[user[c]] = Never
         \/ clock - warned[user[c]] >= Cooldown]_vars

(* "Every moderation action is a numbered case in one table": while        *)
(* nothing fails, the cases of a member are what was done to him, and a    *)
(* handler has in hand what is still missing; what Discord refused, or did *)
(* to somebody who had left, is not among them.                            *)
SanctionsRecorded ==
  failures = 0 =>
    \A u \in Users, a \in Sanctions :
      done[u][a] =
        Cardinality({n \in DOMAIN cases : cases[n].user = u /\ cases[n].action = a})
        + Cardinality({c \in Coros : /\ pc[c] = "recording"
                                     /\ user[c] = u /\ action[c] = a})
=============================================================================
