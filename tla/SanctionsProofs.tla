-------------------------- MODULE SanctionsProofs --------------------------
(***************************************************************************)
(* Theorems about Sanctions, for any members, thresholds, cooldown and     *)
(* bounds, and any handlers at once.  The inductive invariant says what a  *)
(* handler's locals are still worth after the awaits since they were read: *)
(* the total it counted (Earned), the action it chose from it (Chosen) and *)
(* the settings it read (SettingsFresh); and that the cooldown table still *)
(* has the last punishment of everybody it did not lose (Remembered).      *)
(***************************************************************************)
EXTENDS Sanctions, TLAPS, FiniteSetTheorems

CasesOf(log, u, a) ==
  {n \in DOMAIN log : log[n].user = u /\ log[n].action = a}

Recording(u, a) ==
  {c \in Coros : pc[c] = "recording" /\ user[c] = u /\ action[c] = a}

Busy == {c \in Coros : pc[c] # "idle"}

(* What a handler does at Discord, and then records, is a sanction; one    *)
(* that escalates does what the total it counted asks for.                 *)
ChosenOf(c) ==
  /\ pc[c] \in {"acting", "recording"} => action[c] \in Sanctions
  /\ pc[c] = "acting" /\ total[c] > 0 =>
       total[c] >= (IF action[c] = "ban" THEN cfg[c].ban ELSE cfg[c].kick)
  /\ pc[c] = "acting" /\ total[c] >= cfg[c].ban => action[c] = "ban"

Chosen == \A c \in Coros : ChosenOf(c)

(* A total is what the member still has, unless he was pardoned.           *)
EarnedOf(c) ==
  /\ pc[c] \in {"idle", "deleting", "warning"} => total[c] = 0
  /\ c \notin pardoned => total[c] <= Active(user[c])

Earned == \A c \in Coros : EarnedOf(c)

SettingsFresh ==
  ~changed => \A c \in Coros : pc[c] # "idle" => cfg[c] = limits

Remembered ==
  \A u \in Users \ dropped :
    warned[u] # Never => u \in DOMAIN recently /\ recently[u] = warned[u]

IInv == /\ TypeOK
        /\ IsFiniteSet(Busy)
        /\ Chosen
        /\ Earned
        /\ SettingsFresh
        /\ Remembered
        /\ SanctionsRecorded
        /\ EnoughWarningsBan

-----------------------------------------------------------------------------
(* Counting cases and warnings.                                            *)

LEMMA CasesFinite ==
  ASSUME NEW log \in Seq(Case), NEW u, NEW a
  PROVE  /\ IsFiniteSet(CasesOf(log, u, a))
         /\ Cardinality(CasesOf(log, u, a)) \in Nat
  <1>1. CasesOf(log, u, a) \subseteq 1..Len(log)
    BY DEF CasesOf
  <1>2. IsFiniteSet(1..Len(log))
    BY FS_Interval
  <1>3. IsFiniteSet(CasesOf(log, u, a))
    BY <1>1, <1>2, FS_Subset
  <1> QED
    BY <1>3, FS_CardinalityType

LEMMA WarningsFinite ==
  ASSUME NEW log \in Seq(Case), NEW u
  PROVE  /\ IsFiniteSet(WarningsOf(log, u))
         /\ Cardinality(WarningsOf(log, u)) \in Nat
  <1>1. WarningsOf(log, u) \subseteq 1..Len(log)
    BY DEF WarningsOf
  <1>2. IsFiniteSet(1..Len(log))
    BY FS_Interval
  <1>3. IsFiniteSet(WarningsOf(log, u))
    BY <1>1, <1>2, FS_Subset
  <1> QED
    BY <1>3, FS_CardinalityType

LEMMA AppendParts ==
  ASSUME NEW log \in Seq(Case), NEW x \in Case
  PROVE  /\ Append(log, x) \in Seq(Case)
         /\ DOMAIN Append(log, x) = DOMAIN log \cup {Len(log) + 1}
         /\ Len(log) + 1 \notin DOMAIN log
         /\ Append(log, x)[Len(log) + 1] = x
         /\ \A m \in DOMAIN log : Append(log, x)[m] = log[m]
  <1>1. Len(log) \in Nat /\ DOMAIN log = 1..Len(log)
        /\ Append(log, x) \in Seq(Case)
        /\ DOMAIN Append(log, x) = 1..(Len(log) + 1)
        /\ Append(log, x)[Len(log) + 1] = x
        /\ \A m \in 1..Len(log) : Append(log, x)[m] = log[m]
    OBVIOUS
  <1> QED
    BY <1>1

(* A new case is counted once, and only for its member and its action. *)
LEMMA AppendCases ==
  ASSUME NEW log \in Seq(Case), NEW x \in Case, NEW u, NEW a
  PROVE  Cardinality(CasesOf(Append(log, x), u, a)) =
           Cardinality(CasesOf(log, u, a))
           + (IF x.user = u /\ x.action = a THEN 1 ELSE 0)
  <1> DEFINE n == Len(log) + 1
             C == CasesOf(log, u, a)
  <1>1. CasesOf(Append(log, x), u, a) =
          IF x.user = u /\ x.action = a THEN C \cup {n} ELSE C
    BY AppendParts DEF CasesOf
  <1>2. n \notin C
    BY AppendParts DEF CasesOf
  <1>3. IsFiniteSet(C) /\ Cardinality(C) \in Nat
    BY CasesFinite
  <1> HIDE DEF n, C
  <1>4. Cardinality(C \cup {n}) = Cardinality(C) + 1
    BY <1>2, <1>3, FS_AddElement
  <1> QED
    BY <1>1, <1>3, <1>4 DEF C

(* It takes no warning away, and is one only as a warning of its member. *)
LEMMA AppendWarnings ==
  ASSUME NEW log \in Seq(Case), NEW x \in Case, NEW u
  PROVE  /\ Cardinality(WarningsOf(Append(log, x), u)) >=
              Cardinality(WarningsOf(log, u))
         /\ x.user # u \/ x.action # "warn" =>
              WarningsOf(Append(log, x), u) = WarningsOf(log, u)
  <1>1. WarningsOf(log, u) \subseteq WarningsOf(Append(log, x), u)
    BY AppendParts DEF WarningsOf
  <1>2. x.user # u \/ x.action # "warn" =>
          WarningsOf(Append(log, x), u) = WarningsOf(log, u)
    BY AppendParts DEF WarningsOf
  <1>3. IsFiniteSet(WarningsOf(Append(log, x), u))
    BY AppendParts, WarningsFinite
  <1>4. /\ Cardinality(WarningsOf(Append(log, x), u)) \in Nat
        /\ Cardinality(WarningsOf(log, u)) \in Nat
        /\ Cardinality(WarningsOf(log, u)) <=
             Cardinality(WarningsOf(Append(log, x), u))
    BY <1>1, <1>3, FS_Subset, FS_CardinalityType
  <1> QED
    BY <1>2, <1>4

(* The log with the cases numbered in S retired. *)
Retired(log, S) == [n \in DOMAIN log |->
                      IF n \in S THEN [log[n] EXCEPT !.active = FALSE] ELSE log[n]]

(* Retiring warnings changes no count of cases, and nobody else's warnings. *)
LEMMA RetireCounts ==
  ASSUME NEW log \in Seq(Case), NEW u, NEW S, S \subseteq WarningsOf(log, u)
  PROVE  /\ Retired(log, S) \in Seq(Case)
         /\ \A v, a : CasesOf(Retired(log, S), v, a) = CasesOf(log, v, a)
         /\ \A v : v # u => WarningsOf(Retired(log, S), v) = WarningsOf(log, v)
         /\ Cardinality(WarningsOf(Retired(log, S), u))
               <= Cardinality(WarningsOf(log, u))
  <1> DEFINE new == Retired(log, S)
  <1>0. new = [n \in DOMAIN log |->
                 IF n \in S THEN [log[n] EXCEPT !.active = FALSE] ELSE log[n]]
    BY DEF Retired
  <1> HIDE DEF new
  <1>1. DOMAIN new = 1..Len(log) /\ DOMAIN log = 1..Len(log) /\ Len(log) \in Nat
    BY <1>0
  <1>2. \A n \in 1..Len(log) : /\ log[n] \in Case /\ new[n] \in Case
                               /\ new[n].user = log[n].user
                               /\ new[n].action = log[n].action
                               /\ new[n].active => log[n].active
                               /\ n \notin S => new[n] = log[n]
    <2> SUFFICES ASSUME NEW n \in 1..Len(log)
                 PROVE  /\ log[n] \in Case /\ new[n] \in Case
                        /\ new[n].user = log[n].user
                        /\ new[n].action = log[n].action
                        /\ new[n].active => log[n].active
                        /\ n \notin S => new[n] = log[n]
      OBVIOUS
    <2>1. log[n] \in Case
      BY <1>1
    <2>2. new[n] = IF n \in S THEN [log[n] EXCEPT !.active = FALSE] ELSE log[n]
      BY <1>0, <1>1
    <2>3. /\ [log[n] EXCEPT !.active = FALSE] \in Case
          /\ [log[n] EXCEPT !.active = FALSE].user = log[n].user
          /\ [log[n] EXCEPT !.active = FALSE].action = log[n].action
          /\ ~[log[n] EXCEPT !.active = FALSE].active
      BY <2>1 DEF Case
    <2> QED
      BY <2>1, <2>2, <2>3
  <1>3. new \in Seq(Case)
    BY <1>0, <1>1, <1>2
  <1>4. \A v, a : CasesOf(new, v, a) = CasesOf(log, v, a)
    BY <1>1, <1>2 DEF CasesOf
  <1>5. \A n \in S : log[n].user = u
    BY DEF WarningsOf
  <1>6. \A v : v # u => WarningsOf(new, v) = WarningsOf(log, v)
    BY <1>1, <1>2, <1>5 DEF WarningsOf
  <1>7. WarningsOf(new, u) \subseteq WarningsOf(log, u)
    BY <1>1, <1>2 DEF WarningsOf
  <1>8. Cardinality(WarningsOf(new, u)) <= Cardinality(WarningsOf(log, u))
    BY <1>7, WarningsFinite, FS_Subset
  <1> QED
    BY <1>3, <1>4, <1>6, <1>8 DEF new

LEMMA ActiveType ==
  ASSUME TypeOK, NEW u
  PROVE  Active(u) \in Nat
  BY WarningsFinite DEF TypeOK, Active

-----------------------------------------------------------------------------
(* What a step of one handler owes to the invariant.                       *)

OthersKept(c) ==
  \A d \in Coros \ {c} :
    /\ pc'[d] = pc[d] /\ user'[d] = user[d] /\ action'[d] = action[d]
    /\ cfg'[d] = cfg[d] /\ total'[d] = total[d]
    /\ d \in pardoned' <=> d \in pardoned

(* The handlers' locals: the others' stay good while warnings only grow.   *)
LEMMA LocalsKept ==
  ASSUME IInv, TypeOK', NEW c \in Coros, OthersKept(c),
         UNCHANGED <<limits, changed>>,
         \A u \in Users : Active(u)' >= Active(u),
         ChosenOf(c)', EarnedOf(c)',
         ~changed /\ pc'[c] # "idle" => cfg'[c] = limits
  PROVE  IsFiniteSet(Busy)' /\ Chosen' /\ Earned' /\ SettingsFresh'
  <1> USE DEF IInv, OthersKept
  <1>1. IsFiniteSet(Busy')
    <2>1. Busy' \subseteq Busy \cup {c}
      BY DEF Busy
    <2>2. IsFiniteSet(Busy \cup {c})
      BY FS_AddElement
    <2> QED
      BY <2>1, <2>2, FS_Subset
  <1>2. Chosen'
    BY DEF Chosen, ChosenOf
  <1>3. Earned'
    <2> SUFFICES ASSUME NEW d \in Coros \ {c} PROVE EarnedOf(d)'
      BY DEF Earned
    <2>1. PICK v \in Users : v = user[d]
      BY DEF TypeOK
    <2>2. /\ Active(v)' \in Nat /\ Active(v) \in Nat /\ total[d] \in Nat
          /\ Active(v)' >= Active(v)
      BY WarningsFinite DEF TypeOK, Active
    <2>3. EarnedOf(d) /\ user'[d] = v /\ total'[d] = total[d]
      BY <2>1 DEF Earned
    <2> QED
      BY <2>1, <2>2, <2>3 DEF EarnedOf, Active
  <1>4. SettingsFresh'
    BY DEF SettingsFresh
  <1> QED
    BY <1>1, <1>2, <1>3, <1>4

(* Neither a count nor a sanction nor its record changes.                  *)
LEMMA RecordedKept ==
  ASSUME IInv, NEW c \in Coros, OthersKept(c),
         failures' = 0 => failures = 0,
         UNCHANGED <<cases, done>>,
         pc[c] # "recording", pc'[c] # "recording"
  PROVE  SanctionsRecorded'
  <1> SUFFICES ASSUME failures' = 0, NEW u \in Users, NEW a \in Sanctions
               PROVE  done[u][a] = Cardinality(CasesOf(cases, u, a))
                                     + Cardinality(Recording(u, a)')
    BY DEF SanctionsRecorded, CasesOf, Recording
  <1>1. Recording(u, a)' = Recording(u, a)
    BY DEF Recording, OthersKept
  <1> QED
    BY <1>1 DEF IInv, SanctionsRecorded, CasesOf, Recording

(* A member who has enough warnings stays banned, or somebody still has    *)
(* his ban in hand.                                                        *)
LEMMA BanKept ==
  ASSUME IInv, TypeOK', NEW c \in Coros, OthersKept(c),
         failures' = 0 => failures = 0,
         UNCHANGED <<limits, changed>>,
         \A u \in Users : WarningsOf(cases', u) = WarningsOf(cases, u),
         \A u \in Users : presence[u] = "banned" => presence'[u] = "banned",
         failures' = 0 /\ ~changed /\ pc[c] \in {"reporting", "acting"}
           /\ total[c] >= limits.ban =>
             \/ presence'[user[c]] = "banned"
             \/ /\ pc'[c] \in {"reporting", "acting"}
                /\ user'[c] = user[c] /\ total'[c] = total[c]
  PROVE  EnoughWarningsBan'
  <1> SUFFICES ASSUME failures' = 0, ~changed, NEW u \in Users,
                      Active(u)' >= limits.ban
               PROVE  \/ presence'[u] = "banned"
                      \/ \E d \in Coros : /\ pc'[d] \in {"reporting", "acting"}
                                          /\ user'[d] = u
                                          /\ total'[d] >= limits.ban
    BY DEF EnoughWarningsBan
  <1>1. Active(u) >= limits.ban
    BY DEF Active
  <1>2. CASE presence[u] = "banned"
    BY <1>2
  <1>3. CASE presence[u] # "banned"
    <2>1. PICK d \in Coros : /\ pc[d] \in {"reporting", "acting"}
                             /\ user[d] = u /\ total[d] >= limits.ban
      BY <1>1, <1>3 DEF IInv, EnoughWarningsBan
    <2> QED
      BY <2>1 DEF OthersKept
  <1> QED
    BY <1>2, <1>3

(* The end of a handler. *)
LEMMA ReturnChanges ==
  ASSUME TypeOK, NEW c \in Coros, NEW from, Return(c, from)
  PROVE  /\ pc' \in [Coros -> {"idle", "deleting", "warning", "reporting",
                               "acting", "recording"}]
         /\ user' \in [Coros -> Users]
         /\ action' \in [Coros -> Sanctions \cup {"warn"}]
         /\ cfg' \in [Coros -> Limits]
         /\ total' \in [Coros -> Nat]
         /\ pardoned' \subseteq Coros
         /\ OthersKept(c)
         /\ pc[c] = from /\ pc'[c] = "idle" /\ total'[c] = 0
         /\ user'[c] \in Users /\ cfg'[c] \in Limits
  <1>1. (CHOOSE u \in Users : TRUE) \in Users /\ (CHOOSE l \in Limits : TRUE) \in Limits
    BY UsersAssumption DEF TypeOK
  <1> QED
    BY <1>1 DEF TypeOK, Return, OthersKept

(* An idle handler owes nothing. *)
LEMMA IdleOwesNothing ==
  ASSUME TypeOK', NEW c \in Coros, pc'[c] = "idle", total'[c] = 0
  PROVE  ChosenOf(c)' /\ EarnedOf(c)'
  <1>1. Active(user[c])' \in Nat
    BY WarningsFinite DEF TypeOK, Active
  <1> QED
    BY <1>1 DEF ChosenOf, EarnedOf

-----------------------------------------------------------------------------
(* The steps.                                                              *)

(* A handler starts. *)
LEMMA CallIInv ==
  ASSUME IInv, NEW c \in Coros, NEW u \in Users, Call(c, u)
  PROVE  IInv'
  <1> USE DEF IInv
  <1>1. PICK a \in Sanctions \cup {"warn"}, to \in {"warning", "acting", "deleting"} :
          /\ Start(c, u, a, to)
          /\ to = "acting" => a \in Sanctions
    BY DEF Call, Warn, Kick, Timeout, Untimeout, Message, JoinYoung, Sanctions,
           Removals
  <1>2. /\ pc[c] = "idle" /\ total[c] = 0
        /\ pc'     = [pc EXCEPT ![c] = to]
        /\ user'   = [user EXCEPT ![c] = u]
        /\ action' = [action EXCEPT ![c] = a]
        /\ cfg'    = [cfg EXCEPT ![c] = limits]
        /\ UNCHANGED <<cases, muted, limits, recently, clock, failures, total,
                       ghosts>>
    BY <1>1 DEF Start, Goto, Earned, EarnedOf
  <1>3. /\ presence' \in [Users -> {"in", "out", "banned"}]
        /\ \A v \in Users : presence[v] = "banned" => presence'[v] = "banned"
    BY DEF Call, Warn, Kick, Timeout, Untimeout, Message, JoinYoung, TypeOK
  <1>4. TypeOK'
    BY <1>2, <1>3 DEF TypeOK, ghosts
  <1>5. OthersKept(c)
    BY <1>2 DEF TypeOK, OthersKept, ghosts
  <1>6. /\ pc'[c] = to /\ user'[c] = u /\ action'[c] = a /\ cfg'[c] = limits
        /\ total'[c] = 0
    BY <1>2 DEF TypeOK
  <1>7. limits.ban \in Nat \ {0} /\ limits.kick \in Nat \ {0}
    BY LimitsAssumption DEF TypeOK
  <1>8. ChosenOf(c)'
    BY <1>1, <1>6, <1>7 DEF ChosenOf
  <1>9. EarnedOf(c)'
    <2>1. Active(user[c])' \in Nat
      BY <1>4, WarningsFinite DEF TypeOK, Active
    <2> QED
      BY <1>6, <2>1 DEF EarnedOf
  <1>10. IsFiniteSet(Busy)' /\ Chosen' /\ Earned' /\ SettingsFresh'
    <2>1. \A v \in Users : Active(v)' >= Active(v)
      BY <1>2, ActiveType DEF Active
    <2> QED
      BY <1>2, <1>4, <1>5, <1>6, <1>8, <1>9, <2>1, LocalsKept DEF ghosts
  <1>11. Remembered'
    BY <1>2 DEF Remembered, ghosts
  <1>12. SanctionsRecorded'
    BY <1>2, <1>5, <1>6, RecordedKept DEF ghosts
  <1>13. EnoughWarningsBan'
    BY <1>2, <1>3, <1>4, <1>5, BanKept DEF ghosts
  <1> QED
    BY <1>4, <1>10, <1>11, <1>12, <1>13

(* The message of the filter: deleted, and its author warned or left alone. *)
LEMMA FilterIInv ==
  ASSUME IInv, NEW c \in Coros, HoneypotDeleted(c) \/ Punish(c)
  PROVE  IInv'
  <1> USE DEF IInv
  <1>1. PICK to \in {"acting", "warning"} :
          /\ pc[c] = "deleting"
          /\ pc' = [pc EXCEPT ![c] = to]
          /\ to = "acting" => action[c] = "ban"
    BY DEF HoneypotDeleted, Punish, Goto
  <1>2. UNCHANGED <<cases, presence, muted, limits, clock, failures, user,
                    action, cfg, total, done, pardoned, changed>>
    BY DEF HoneypotDeleted, Punish, ghosts
  <1>3. /\ DOMAIN recently' \subseteq Users
        /\ \A v \in DOMAIN recently' : recently'[v] \in 0..clock
        /\ warned' \in [Users -> 0..MaxTime \cup {Never}]
        /\ dropped' \subseteq Users
        /\ Remembered'
    <2>1. CASE HoneypotDeleted(c)
      BY <2>1 DEF HoneypotDeleted, ghosts, TypeOK, Remembered
    <2>2. CASE Punish(c)
      <3> DEFINE u    == user[c]
                 full == Cardinality(DOMAIN recently) > MaxPunished
                 kept == IF full THEN {} ELSE DOMAIN recently
      <3>1. /\ recently' = [v \in kept \cup {u} |-> IF v = u THEN clock
                                                             ELSE recently[v]]
            /\ warned'   = [warned EXCEPT ![u] = clock]
            /\ dropped'  = (dropped \cup (DOMAIN recently \ kept)) \ {u}
        BY <2>2 DEF Punish
      <3>2. kept \subseteq DOMAIN recently /\ u \in Users /\ clock \in 0..MaxTime
            /\ clock \in 0..clock
        BY BoundsAssumption DEF TypeOK
      <3> HIDE DEF kept
      <3>3. /\ DOMAIN recently' = kept \cup {u}
            /\ recently'[u] = clock
            /\ \A v \in kept \ {u} : recently'[v] = recently[v]
        BY <3>1
      <3>4. warned'[u] = clock /\ \A v \in Users \ {u} : warned'[v] = warned[v]
        BY <3>1, <3>2 DEF TypeOK
      <3>5. Remembered'
        BY <3>1, <3>2, <3>3, <3>4 DEF Remembered
      <3>6. \A v \in DOMAIN recently' : recently'[v] \in 0..clock
        BY <3>2, <3>3 DEF TypeOK
      <3> QED
        BY <3>1, <3>2, <3>3, <3>5, <3>6 DEF TypeOK
    <2> QED
      BY <2>1, <2>2
  <1>4. TypeOK'
    BY <1>1, <1>2, <1>3 DEF TypeOK
  <1>5. OthersKept(c) /\ pc'[c] = to /\ total[c] = 0
    BY <1>1, <1>2 DEF TypeOK, OthersKept, Earned, EarnedOf
  <1>6. cfg[c].ban \in Nat \ {0} /\ cfg[c].kick \in Nat \ {0}
    BY LimitsAssumption DEF TypeOK
  <1>7. ChosenOf(c)'
    BY <1>1, <1>2, <1>5, <1>6 DEF ChosenOf, Sanctions, Removals
  <1>8. EarnedOf(c)'
    <2>1. Active(user[c])' \in Nat
      BY <1>4, WarningsFinite DEF TypeOK, Active
    <2> QED
      BY <1>2, <1>5, <2>1 DEF EarnedOf
  <1>9. IsFiniteSet(Busy)' /\ Chosen' /\ Earned' /\ SettingsFresh'
    <2>1. \A v \in Users : Active(v)' >= Active(v)
      BY <1>2, ActiveType DEF Active
    <2>2. ~changed => cfg'[c] = limits
      BY <1>1, <1>2 DEF SettingsFresh
    <2> QED
      BY <1>2, <1>4, <1>5, <1>7, <1>8, <2>1, <2>2, LocalsKept
  <1>10. SanctionsRecorded'
    BY <1>1, <1>2, <1>5, RecordedKept
  <1>11. EnoughWarningsBan'
    BY <1>1, <1>2, <1>4, <1>5, BanKept
  <1> QED
    BY <1>3, <1>4, <1>9, <1>10, <1>11

(* The handlers that end without having changed anything. *)
LEMMA EndIInv ==
  ASSUME IInv, NEW c \in Coros, NEW from, Return(c, from),
         from \in {"deleting", "warning", "reporting", "acting"},
         UNCHANGED <<cases, presence, muted, limits, recently, clock, warned,
                     dropped, done, changed>>,
         \/ Works
         \/ Fails,
         failures' = 0 /\ ~changed /\ pc[c] \in {"reporting", "acting"} =>
           total[c] < limits.ban \/ presence[user[c]] = "banned"
  PROVE  IInv'
  <1> USE DEF IInv
  <1>1. failures' \in 0..MaxFailures /\ (failures' = 0 => failures = 0)
    BY BoundsAssumption DEF Fails, Works, TypeOK
  <1>2. /\ TypeOK'
        /\ OthersKept(c)
        /\ pc[c] = from /\ pc'[c] = "idle" /\ total'[c] = 0
    BY <1>1, ReturnChanges DEF TypeOK
  <1>3. ChosenOf(c)' /\ EarnedOf(c)'
    BY <1>2, IdleOwesNothing
  <1>4. IsFiniteSet(Busy)' /\ Chosen' /\ Earned' /\ SettingsFresh'
    <2>1. \A v \in Users : Active(v)' >= Active(v)
      BY ActiveType DEF Active
    <2> QED
      BY <1>2, <1>3, <2>1, LocalsKept
  <1>5. Remembered'
    BY DEF Remembered
  <1>6. SanctionsRecorded'
    BY <1>1, <1>2, RecordedKept
  <1>7. EnoughWarningsBan'
    <2>1. failures' = 0 /\ ~changed /\ pc[c] \in {"reporting", "acting"}
            /\ total[c] >= limits.ban => presence[user[c]] = "banned"
      BY LimitsAssumption DEF TypeOK
    <2> QED
      BY <1>1, <1>2, <2>1, BanKept
  <1> QED
    BY <1>2, <1>4, <1>5, <1>6, <1>7

LEMMA EndsIInv ==
  ASSUME IInv, NEW c \in Coros,
         \/ Ignore(c) \/ ReportFails(c) \/ Refused(c)
         \/ AddWarning(c) /\ ~Works
         \/ Escalate(c) /\ pc'[c] = "idle"
  PROVE  IInv'
  <1> USE DEF IInv
  <1>1. ASSUME Fails PROVE failures' # 0
    BY <1>1 DEF Fails, TypeOK
  <1>2. pc[c] # "idle" /\ ~changed => cfg[c] = limits
    BY DEF SettingsFresh
  <1>3. /\ total[c] \in Nat /\ limits.ban \in Nat /\ cfg[c].ban \in Nat
        /\ cfg[c].kick \in Nat
    BY LimitsAssumption DEF TypeOK
  <1>4. CASE Ignore(c)
    <2>1. Return(c, "deleting") /\ pc[c] = "deleting" /\ Works
      BY <1>4 DEF Ignore, Return, Works
    <2> QED
      BY <1>4, <2>1, EndIInv DEF Ignore
  <1>5. CASE ReportFails(c)
    BY <1>1, <1>5, EndIInv DEF ReportFails
  <1>6. CASE AddWarning(c) /\ ~Works
    BY <1>1, <1>6, EndIInv DEF AddWarning
  <1>7. CASE Refused(c)
    <2>1. /\ Return(c, "acting") /\ pc[c] = "acting"
          /\ UNCHANGED <<cases, presence, muted, limits, recently, clock,
                         warned, dropped, done, changed>>
          /\ Fails \/ (Works /\ action[c] # "ban")
      BY <1>7 DEF Refused, Possible, Return
    <2>2. failures' = 0 /\ ~changed => total[c] < limits.ban
      BY <1>1, <1>2, <1>3, <2>1 DEF Chosen, ChosenOf
    <2> QED
      BY <2>1, <2>2, EndIInv
  <1>8. CASE Escalate(c) /\ pc'[c] = "idle"
    <2>1. /\ Return(c, "reporting") /\ pc[c] = "reporting"
          /\ ~(total[c] >= cfg[c].ban) /\ Works
          /\ UNCHANGED <<cases, presence, muted, limits, recently, clock,
                         warned, dropped, done, changed>>
      BY <1>8 DEF Escalate, Return, Works, Goto, TypeOK
    <2>2. ~changed => total[c] < limits.ban
      BY <1>2, <1>3, <2>1
    <2> QED
      BY <2>1, <2>2, EndIInv
  <1> QED
    BY <1>4, <1>5, <1>6, <1>7, <1>8

(* The warning is a case, and its handler has the member's new total. *)
LEMMA AddWarningIInv ==
  ASSUME IInv, NEW c \in Coros, AddWarning(c), Works
  PROVE  IInv'
  <1> DEFINE x == NewCase(user[c], "warn")
             w == user[c]
             k == Cardinality(WarningsOf(Append(cases, x), w))
  <1> USE DEF IInv
  <1>1. failures' = failures /\ failures \in Nat
    BY DEF Works, TypeOK
  <1>2. /\ pc[c] = "warning" /\ pc' = [pc EXCEPT ![c] = "reporting"]
        /\ cases' = Append(cases, x)
        /\ total' = [total EXCEPT ![c] = k]
        /\ UNCHANGED <<presence, muted, limits, recently, clock, user, action,
                       cfg, ghosts>>
    BY <1>1 DEF AddWarning, Goto, Fails, ghosts
  <1>3. x \in Case /\ w \in Users /\ x.user = w /\ x.action = "warn"
        /\ cases \in Seq(Case)
    BY DEF NewCase, Case, TypeOK
  <1>4. cases' \in Seq(Case) /\ k \in Nat
    <2>1. Append(cases, x) \in Seq(Case)
      BY <1>3
    <2>2. Cardinality(WarningsOf(Append(cases, x), w)) \in Nat
      BY <2>1, WarningsFinite
    <2> QED
      BY <1>2, <2>1, <2>2
  <1> HIDE DEF x, k
  <1>5. TypeOK'
    BY <1>1, <1>2, <1>4 DEF TypeOK, ghosts
  <1>6. OthersKept(c) /\ pc'[c] = "reporting" /\ total'[c] = k
    BY <1>2 DEF TypeOK, OthersKept, ghosts
  <1>7. \A v \in Users : Active(v)' >= Active(v)
    BY <1>2, <1>3, AppendWarnings DEF Active
  <1>8. ChosenOf(c)' /\ EarnedOf(c)'
    <2>1. Active(user[c])' = k
      BY <1>2 DEF Active, k
    <2> QED
      BY <1>4, <1>6, <2>1 DEF ChosenOf, EarnedOf
  <1>9. IsFiniteSet(Busy)' /\ Chosen' /\ Earned' /\ SettingsFresh'
    <2>1. ~changed => cfg'[c] = limits
      BY <1>2 DEF SettingsFresh
    <2> QED
      BY <1>2, <1>5, <1>6, <1>7, <1>8, <2>1, LocalsKept DEF ghosts
  <1>10. Remembered'
    BY <1>2 DEF Remembered, ghosts
  <1>11. SanctionsRecorded'
    <2> SUFFICES ASSUME failures = 0, NEW u \in Users, NEW a \in Sanctions
                 PROVE  done'[u][a] = Cardinality(CasesOf(cases', u, a))
                                        + Cardinality(Recording(u, a)')
      BY <1>1 DEF SanctionsRecorded, CasesOf, Recording
    <2>1. Recording(u, a)' = Recording(u, a)
      BY <1>2, <1>6 DEF Recording, OthersKept
    <2>2. a # "warn"
      BY DEF Sanctions, Removals
    <2>3. Cardinality(CasesOf(cases', u, a)) = Cardinality(CasesOf(cases, u, a))
      BY <1>2, <1>3, <2>2, AppendCases, CasesFinite
    <2>4. done'[u][a] = done[u][a] /\ failures = 0
      BY <1>1, <1>2 DEF ghosts
    <2>5. done[u][a] = Cardinality(CasesOf(cases, u, a))
                         + Cardinality(Recording(u, a))
      BY <2>4 DEF SanctionsRecorded, CasesOf, Recording
    <2> QED
      BY <2>1, <2>3, <2>4, <2>5
  <1>12. EnoughWarningsBan'
    <2> SUFFICES ASSUME failures = 0, ~changed, NEW u \in Users,
                        Active(u)' >= limits.ban
                 PROVE  \/ presence'[u] = "banned"
                        \/ \E d \in Coros : /\ pc'[d] \in {"reporting", "acting"}
                                            /\ user'[d] = u
                                            /\ total'[d] >= limits.ban
      BY <1>1, <1>2 DEF EnoughWarningsBan, ghosts
    <2>1. CASE u = w
      <3>1. Active(u)' = k
        BY <1>2, <2>1 DEF Active, k
      <3> QED
        BY <1>2, <1>6, <2>1, <3>1
    <2>2. CASE u # w
      <3>1. Active(u) >= limits.ban
        BY <1>2, <1>3, <2>2, AppendWarnings DEF Active
      <3>2. CASE presence[u] = "banned"
        BY <1>2, <3>2
      <3>3. CASE presence[u] # "banned"
        <4>1. PICK d \in Coros : /\ pc[d] \in {"reporting", "acting"}
                                 /\ user[d] = u /\ total[d] >= limits.ban
          BY <3>1, <3>3 DEF EnoughWarningsBan
        <4> QED
          BY <1>2, <1>6, <2>2, <4>1 DEF OthersKept
      <3> QED
        BY <3>2, <3>3
    <2> QED
      BY <2>1, <2>2
  <1> QED
    BY <1>5, <1>9, <1>10, <1>11, <1>12

(* The total asks for a removal. *)
LEMMA EscalateIInv ==
  ASSUME IInv, NEW c \in Coros, Escalate(c), pc'[c] # "idle"
  PROVE  IInv'
  <1> DEFINE a == IF total[c] >= cfg[c].ban THEN "ban" ELSE "kick"
  <1> USE DEF IInv
  <1>1. /\ pc[c] = "reporting" /\ pc' = [pc EXCEPT ![c] = "acting"]
        /\ action' = [action EXCEPT ![c] = a]
        /\ total[c] >= cfg[c].ban \/ total[c] >= cfg[c].kick
        /\ UNCHANGED <<cases, presence, muted, limits, recently, clock,
                       failures, user, cfg, total, ghosts>>
    BY DEF Escalate, Goto, Return, TypeOK, ghosts
  <1>2. a \in Sanctions
    BY DEF Sanctions, Removals
  <1>3. TypeOK'
    BY <1>1, <1>2 DEF TypeOK, ghosts
  <1>4. OthersKept(c) /\ pc'[c] = "acting" /\ action'[c] = a
    BY <1>1, <1>2 DEF TypeOK, OthersKept, ghosts
  <1>5. ChosenOf(c)'
    BY <1>1, <1>2, <1>4 DEF ChosenOf
  <1>6. \A v \in Users : Active(v)' >= Active(v)
    BY <1>1, ActiveType DEF Active
  <1>7. EarnedOf(c)'
    BY <1>1, <1>4 DEF Earned, EarnedOf, Active, ghosts
  <1>8. IsFiniteSet(Busy)' /\ Chosen' /\ Earned' /\ SettingsFresh'
    <2>1. ~changed => cfg'[c] = limits
      BY <1>1 DEF SettingsFresh
    <2> QED
      BY <1>1, <1>3, <1>4, <1>5, <1>6, <1>7, <2>1, LocalsKept DEF ghosts
  <1>9. Remembered'
    BY <1>1 DEF Remembered, ghosts
  <1>10. SanctionsRecorded'
    BY <1>1, <1>4, RecordedKept DEF ghosts
  <1>11. EnoughWarningsBan'
    BY <1>1, <1>3, <1>4, BanKept DEF ghosts
  <1> QED
    BY <1>3, <1>8, <1>9, <1>10, <1>11

LEMMA RecordingFinite ==
  ASSUME IsFiniteSet(Busy), NEW u, NEW a
  PROVE  IsFiniteSet(Recording(u, a)) /\ Cardinality(Recording(u, a)) \in Nat
  <1>1. Recording(u, a) \subseteq Busy
    BY DEF Recording, Busy
  <1> QED
    BY <1>1, FS_Subset, FS_CardinalityType

(* Discord does it; the handler has yet to record it. *)
LEMMA ActIInv ==
  ASSUME IInv, NEW c \in Coros, Act(c)
  PROVE  IInv'
  <1> DEFINE u == user[c]
             a == action[c]
  <1> USE DEF IInv
  <1>1. /\ pc[c] = "acting" /\ pc' = [pc EXCEPT ![c] = "recording"]
        /\ Possible(u, a)
        /\ presence' = [presence EXCEPT ![u] = CASE a = "kick" -> "out"
                                                 [] a = "ban"  -> "banned"
                                                 [] OTHER      -> @]
        /\ muted' = CASE a = "timeout"   -> muted \cup {u}
                      [] a = "untimeout" -> muted \ {u}
                      [] OTHER           -> muted
        /\ done' = [done EXCEPT ![u][a] = @ + 1]
        /\ UNCHANGED <<cases, limits, recently, clock, failures, user, action,
                       cfg, total, warned, dropped, pardoned, changed>>
    BY DEF Act, Goto
  <1>2. u \in Users /\ a \in Sanctions
    BY <1>1 DEF TypeOK, Chosen, ChosenOf
  <1> HIDE DEF u, a
  <1>3. /\ presence' \in [Users -> {"in", "out", "banned"}]
        /\ \A v \in Users : presence[v] = "banned" => presence'[v] = "banned"
        /\ a = "ban" => presence'[u] = "banned"
    BY <1>1, <1>2 DEF TypeOK, Possible
  <1>4. muted' \subseteq Users
    BY <1>1, <1>2 DEF TypeOK
  <1>5. /\ done' \in [Users -> [Sanctions -> Nat]]
        /\ \A v \in Users, b \in Sanctions :
             done'[v][b] = IF v = u /\ b = a THEN done[v][b] + 1 ELSE done[v][b]
    BY <1>1, <1>2 DEF TypeOK
  <1>6. TypeOK'
    BY <1>1, <1>3, <1>4, <1>5 DEF TypeOK
  <1>7. OthersKept(c) /\ pc'[c] = "recording"
    BY <1>1 DEF TypeOK, OthersKept
  <1>8. ChosenOf(c)' /\ EarnedOf(c)'
    BY <1>1, <1>2, <1>7 DEF ChosenOf, Earned, EarnedOf, Active, a
  <1>9. IsFiniteSet(Busy)' /\ Chosen' /\ Earned' /\ SettingsFresh'
    <2>1. ~changed => cfg'[c] = limits
      BY <1>1 DEF SettingsFresh
    <2>2. \A v \in Users : Active(v)' >= Active(v)
      BY <1>1, ActiveType DEF Active
    <2> QED
      BY <1>1, <1>6, <1>7, <1>8, <2>1, <2>2, LocalsKept
  <1>10. Remembered'
    BY <1>1 DEF Remembered
  <1>11. SanctionsRecorded'
    <2> SUFFICES ASSUME failures = 0, NEW v \in Users, NEW b \in Sanctions
                 PROVE  done'[v][b] = Cardinality(CasesOf(cases, v, b))
                                        + Cardinality(Recording(v, b)')
      BY <1>1 DEF SanctionsRecorded, CasesOf, Recording
    <2>1. done[v][b] = Cardinality(CasesOf(cases, v, b))
                         + Cardinality(Recording(v, b))
      BY DEF SanctionsRecorded, CasesOf, Recording
    <2>2. CASE v = u /\ b = a
      <3>1. Recording(v, b)' = Recording(v, b) \cup {c} /\ c \notin Recording(v, b)
        BY <1>1, <1>7, <2>2 DEF Recording, OthersKept, u, a
      <3>2. Cardinality(Recording(v, b)') = Cardinality(Recording(v, b)) + 1
        BY <3>1, RecordingFinite, FS_AddElement
      <3>3. /\ Cardinality(CasesOf(cases, v, b)) \in Nat
            /\ Cardinality(Recording(v, b)) \in Nat
        BY CasesFinite, RecordingFinite DEF TypeOK
      <3> QED
        BY <1>5, <2>1, <2>2, <3>2, <3>3
    <2>3. CASE ~(v = u /\ b = a)
      <3>1. Recording(v, b)' = Recording(v, b)
        BY <1>1, <1>7, <2>3 DEF Recording, OthersKept, u, a
      <3> QED
        BY <1>5, <2>1, <2>3, <3>1
    <2> QED
      BY <2>2, <2>3
  <1>12. EnoughWarningsBan'
    <2>1. ~changed /\ total[c] >= limits.ban => a = "ban"
      BY <1>1 DEF Chosen, ChosenOf, SettingsFresh, a
    <2> QED
      BY <1>1, <1>3, <1>6, <1>7, <2>1, BanKept DEF u
  <1> QED
    BY <1>6, <1>9, <1>10, <1>11, <1>12

(* What was done becomes a case, unless the write fails. *)
LEMMA RecordIInv ==
  ASSUME IInv, NEW c \in Coros, RecordSanction(c)
  PROVE  IInv'
  <1> DEFINE u == user[c]
             a == action[c]
             x == NewCase(u, a)
  <1> USE DEF IInv
  <1>1. /\ Return(c, "recording")
        /\ \/ failures' = failures /\ cases' = Append(cases, x)
           \/ failures' = failures + 1 /\ failures < MaxFailures /\ cases' = cases
        /\ UNCHANGED <<presence, muted, limits, recently, clock, warned,
                       dropped, done, changed>>
    BY DEF RecordSanction, Works, Fails
  <1>2. /\ OthersKept(c) /\ pc[c] = "recording" /\ pc'[c] = "idle"
        /\ total'[c] = 0
    BY <1>1, ReturnChanges
  <1>3. u \in Users /\ a \in Sanctions
    BY <1>2 DEF TypeOK, Chosen, ChosenOf
  <1>4. x \in Case /\ x.user = u /\ x.action = a /\ cases \in Seq(Case)
    BY <1>3 DEF NewCase, Case, TypeOK
  <1> HIDE DEF u, a, x
  <1>5. cases' \in Seq(Case) /\ failures' \in 0..MaxFailures
        /\ (failures' = 0 => failures = 0 /\ cases' = Append(cases, x))
    <2>1. failures \in 0..MaxFailures /\ MaxFailures \in Nat
      BY BoundsAssumption DEF TypeOK
    <2>2. Append(cases, x) \in Seq(Case)
      BY <1>4
    <2> QED
      BY <1>1, <1>4, <2>1, <2>2
  <1>6. TypeOK'
    BY <1>1, <1>5, ReturnChanges DEF TypeOK
  <1>7. \A v \in Users : Active(v)' >= Active(v)
    <2> TAKE v \in Users
    <2>1. CASE cases' = cases
      BY <2>1, ActiveType DEF Active
    <2>2. CASE cases' = Append(cases, x)
      <3>1. Cardinality(WarningsOf(Append(cases, x), v)) >=
              Cardinality(WarningsOf(cases, v))
        BY <1>4, AppendWarnings
      <3> QED
        BY <2>2, <3>1 DEF Active
    <2> QED
      BY <1>1, <2>1, <2>2
  <1>8. IsFiniteSet(Busy)' /\ Chosen' /\ Earned' /\ SettingsFresh'
    BY <1>1, <1>2, <1>6, <1>7, IdleOwesNothing, LocalsKept
  <1>9. Remembered'
    BY <1>1 DEF Remembered
  <1>10. SanctionsRecorded'
    <2> SUFFICES ASSUME failures' = 0, NEW v \in Users, NEW b \in Sanctions
                 PROVE  done[v][b] = Cardinality(CasesOf(cases', v, b))
                                       + Cardinality(Recording(v, b)')
      BY <1>1 DEF SanctionsRecorded, CasesOf, Recording
    <2>1. /\ done[v][b] = Cardinality(CasesOf(cases, v, b))
                            + Cardinality(Recording(v, b))
          /\ cases' = Append(cases, x)
      BY <1>5 DEF SanctionsRecorded, CasesOf, Recording
    <2>2. Cardinality(CasesOf(cases, v, b)) \in Nat
      BY <1>4, CasesFinite
    <2>3. Cardinality(Recording(v, b)) \in Nat /\ IsFiniteSet(Recording(v, b))
      BY RecordingFinite
    <2>4. Cardinality(CasesOf(cases', v, b)) = Cardinality(CasesOf(cases, v, b))
                              + (IF v = u /\ b = a THEN 1 ELSE 0)
      <3>1. Cardinality(CasesOf(Append(cases, x), v, b)) =
              Cardinality(CasesOf(cases, v, b))
              + (IF x.user = v /\ x.action = b THEN 1 ELSE 0)
        BY <1>4, AppendCases
      <3> QED
        BY <1>4, <2>1, <3>1
    <2>5. CASE v = u /\ b = a
      <3>1. Recording(v, b)' = Recording(v, b) \ {c} /\ c \in Recording(v, b)
        BY <1>2, <2>5 DEF Recording, OthersKept, u, a
      <3>2. Cardinality(Recording(v, b)') = Cardinality(Recording(v, b)) - 1
        BY <2>3, <3>1, FS_RemoveElement
      <3> QED
        BY <2>1, <2>2, <2>3, <2>4, <2>5, <3>2
    <2>6. CASE ~(v = u /\ b = a)
      <3>1. Recording(v, b)' = Recording(v, b)
        BY <1>2, <2>6 DEF Recording, OthersKept, u, a
      <3> QED
        BY <2>1, <2>2, <2>4, <2>6, <3>1
    <2> QED
      BY <2>5, <2>6
  <1>11. EnoughWarningsBan'
    <2>1. \A v \in Users : WarningsOf(cases', v) = WarningsOf(cases, v)
      <3>1. a # "warn"
        BY <1>3 DEF Sanctions, Removals
      <3> QED
        BY <1>1, <1>4, <3>1, AppendWarnings
    <2> QED
      BY <1>1, <1>2, <1>5, <1>6, <2>1, BanKept
  <1> QED
    BY <1>6, <1>8, <1>9, <1>10, <1>11

(* Some of a member's warnings are retired, under his handlers' feet. *)
LEMMA RetireIInv ==
  ASSUME IInv, NEW u \in Users, NEW S, S \subseteq WarningsOf(cases, u),
         Retire(u, S)
  PROVE  IInv'
  <1> USE DEF IInv
  <1>1. /\ cases' = Retired(cases, S)
        /\ pardoned' = pardoned \cup {c \in Coros : pc[c] # "idle" /\ user[c] = u}
        /\ UNCHANGED <<presence, muted, limits, recently, clock, failures,
                       callVars, warned, dropped, done, changed>>
    BY DEF Retire, Retired
  <1>2. /\ cases' \in Seq(Case)
        /\ \A v, a : CasesOf(cases', v, a) = CasesOf(cases, v, a)
        /\ \A v : v # u => WarningsOf(cases', v) = WarningsOf(cases, v)
        /\ Cardinality(WarningsOf(cases', u)) <= Cardinality(WarningsOf(cases, u))
    BY <1>1, RetireCounts DEF TypeOK
  <1>3. TypeOK'
    BY <1>1, <1>2 DEF TypeOK, callVars
  <1>4. IsFiniteSet(Busy)' /\ Chosen' /\ SettingsFresh' /\ Remembered'
    BY <1>1 DEF Busy, Chosen, ChosenOf, SettingsFresh, Remembered, callVars
  <1>5. Earned'
    <2> SUFFICES ASSUME NEW c \in Coros PROVE EarnedOf(c)'
      BY DEF Earned
    <2>1. EarnedOf(c) /\ pc' = pc /\ total' = total /\ user' = user
      BY <1>1 DEF Earned, callVars
    <2>2. CASE pc[c] = "idle"
      BY <1>3, <2>1, <2>2, IdleOwesNothing DEF EarnedOf
    <2>3. CASE pc[c] # "idle" /\ user[c] = u
      BY <1>1, <2>1, <2>3 DEF EarnedOf
    <2>4. CASE user[c] # u
      BY <1>1, <1>2, <2>1, <2>4 DEF EarnedOf, Active
    <2> QED
      BY <2>2, <2>3, <2>4
  <1>6. SanctionsRecorded'
    <2> SUFFICES ASSUME failures' = 0, NEW v \in Users, NEW a \in Sanctions
                 PROVE  done'[v][a] = Cardinality(CasesOf(cases', v, a))
                                        + Cardinality(Recording(v, a)')
      BY DEF SanctionsRecorded, CasesOf, Recording
    <2>1. CasesOf(cases', v, a) = CasesOf(cases, v, a)
      BY <1>2
    <2>2. Recording(v, a)' = Recording(v, a) /\ done' = done /\ failures' = failures
      BY <1>1 DEF Recording, callVars
    <2>3. done[v][a] = Cardinality(CasesOf(cases, v, a))
                         + Cardinality(Recording(v, a))
      BY <2>2 DEF SanctionsRecorded, CasesOf, Recording
    <2> QED
      BY <2>1, <2>2, <2>3
  <1>7. EnoughWarningsBan'
    <2> SUFFICES ASSUME failures = 0, ~changed, NEW v \in Users,
                        Active(v)' >= limits.ban
                 PROVE  \/ presence[v] = "banned"
                        \/ \E d \in Coros : /\ pc[d] \in {"reporting", "acting"}
                                            /\ user[d] = v
                                            /\ total[d] >= limits.ban
      BY <1>1 DEF EnoughWarningsBan, callVars
    <2>1. /\ Cardinality(WarningsOf(cases', v)) \in Nat
          /\ Cardinality(WarningsOf(cases, v)) \in Nat
          /\ limits.ban \in Nat
      BY <1>2, WarningsFinite, LimitsAssumption DEF TypeOK
    <2>2. Cardinality(WarningsOf(cases', v)) <= Cardinality(WarningsOf(cases, v))
      BY <1>2, <2>1
    <2>3. Cardinality(WarningsOf(cases', v)) >= limits.ban
      BY <1>1 DEF Active
    <2>4. Active(v) >= limits.ban
      BY <2>1, <2>2, <2>3 DEF Active
    <2> QED
      BY <2>4 DEF EnoughWarningsBan
  <1> QED
    BY <1>3, <1>4, <1>5, <1>6, <1>7

(* The world outside the handlers. *)
LEMMA WorldIInv ==
  ASSUME IInv,
         \/ \E l \in Limits : SetLimits(l)
         \/ \E u \in Users : Rejoin(u)
         \/ Tick
  PROVE  IInv'
  <1> USE DEF IInv
  <1>1. /\ UNCHANGED <<cases, muted, recently, failures, callVars, warned,
                       dropped, done, pardoned>>
        /\ limits' \in Limits /\ changed' \in BOOLEAN
        /\ ~changed' => limits' = limits /\ ~changed
        /\ clock' \in 0..MaxTime /\ clock' >= clock
        /\ presence' \in [Users -> {"in", "out", "banned"}]
        /\ \A v \in Users : presence[v] = "banned" => presence'[v] = "banned"
    <2>1. CASE \E l \in Limits : SetLimits(l)
      BY <2>1 DEF SetLimits, TypeOK
    <2>2. CASE \E u \in Users : Rejoin(u)
      BY <2>2 DEF Rejoin, TypeOK, ghosts
    <2>3. CASE Tick
      BY <2>3, BoundsAssumption DEF Tick, TypeOK, ghosts
    <2> QED
      BY <2>1, <2>2, <2>3
  <1>2. \A u \in DOMAIN recently : recently[u] \in 0..clock'
    BY <1>1, BoundsAssumption DEF TypeOK
  <1>3. TypeOK'
    BY <1>1, <1>2 DEF TypeOK, callVars
  <1>4. IsFiniteSet(Busy)' /\ Chosen' /\ Earned' /\ SettingsFresh' /\ Remembered'
    BY <1>1 DEF Busy, Chosen, ChosenOf, Earned, EarnedOf, Active, SettingsFresh,
                Remembered, callVars
  <1>5. SanctionsRecorded'
    BY <1>1 DEF SanctionsRecorded, callVars
  <1>6. EnoughWarningsBan'
    BY <1>1 DEF EnoughWarningsBan, Active, callVars
  <1> QED
    BY <1>3, <1>4, <1>5, <1>6

(* After a restart nobody has anything in hand, and the history is no      *)
(* longer one without failures.                                            *)
LEMMA RestartIInv ==
  ASSUME IInv, Restart
  PROVE  IInv'
  <1> USE DEF IInv, Restart
  <1>1. (CHOOSE u \in Users : TRUE) \in Users /\ (CHOOSE l \in Limits : TRUE) \in Limits
    BY UsersAssumption DEF TypeOK
  <1>2. failures' \in 0..MaxFailures /\ failures' # 0
    BY BoundsAssumption DEF Fails, TypeOK
  <1>3. TypeOK'
    <2>1. /\ pc' \in [Coros -> {"idle", "deleting", "warning", "reporting",
                                "acting", "recording"}]
          /\ user' \in [Coros -> Users]
          /\ action' \in [Coros -> Sanctions \cup {"warn"}]
          /\ cfg' \in [Coros -> Limits]
          /\ total' \in [Coros -> Nat]
      BY <1>1
    <2>2. DOMAIN recently' = {}
      OBVIOUS
    <2> QED
      BY <1>2, <2>1, <2>2 DEF TypeOK
  <1>4. Busy' = {} /\ IsFiniteSet(Busy')
    BY FS_EmptySet DEF Busy
  <1>5. \A c \in Coros : pc'[c] = "idle" /\ total'[c] = 0
    OBVIOUS
  <1>6. Chosen' /\ Earned'
    BY <1>3, <1>5, IdleOwesNothing DEF Chosen, Earned
  <1>7. SettingsFresh' /\ Remembered' /\ SanctionsRecorded' /\ EnoughWarningsBan'
    BY <1>2 DEF SettingsFresh, Remembered, SanctionsRecorded, EnoughWarningsBan
  <1> QED
    BY <1>3, <1>4, <1>6, <1>7

LEMMA InitIInv == Init => IInv
  <1> SUFFICES ASSUME Init PROVE IInv
    OBVIOUS
  <1> USE DEF Init
  <1>1. (CHOOSE u \in Users : TRUE) \in Users /\ (CHOOSE l \in Limits : TRUE) \in Limits
    BY UsersAssumption
  <1>2. \A u, a : CasesOf(cases, u, a) = {} /\ WarningsOf(cases, u) = {}
    BY DEF CasesOf, WarningsOf
  <1>3. \A u, a : Recording(u, a) = {}
    BY DEF Recording
  <1>4. Busy = {} /\ IsFiniteSet(Busy) /\ Cardinality({}) = 0
    BY FS_EmptySet DEF Busy
  <1>5. TypeOK
    <2>1. /\ pc \in [Coros -> {"idle", "deleting", "warning", "reporting",
                               "acting", "recording"}]
          /\ user \in [Coros -> Users]
          /\ action \in [Coros -> Sanctions \cup {"warn"}]
          /\ cfg \in [Coros -> Limits]
          /\ total \in [Coros -> Nat]
      BY <1>1
    <2>2. done \in [Users -> [Sanctions -> Nat]]
      OBVIOUS
    <2>3. /\ 0 \in 0..MaxTime /\ 0 \in 0..MaxFailures /\ DOMAIN recently = {}
          /\ cases \in Seq(Case)
      BY BoundsAssumption
    <2> QED
      BY <2>1, <2>2, <2>3 DEF TypeOK
  <1>6. \A u : Active(u) = 0
    BY <1>2, <1>4 DEF Active
  <1>7. limits.ban \in Nat \ {0} /\ \A c \in Coros : cfg[c].ban \in Nat \ {0}
    BY <1>1, LimitsAssumption
  <1>8. Chosen /\ Earned /\ SettingsFresh /\ Remembered
    BY <1>6 DEF Chosen, ChosenOf, Earned, EarnedOf, SettingsFresh, Remembered
  <1>9. SanctionsRecorded
    <2>1. \A u \in Users, a \in Sanctions : done[u][a] = 0
      OBVIOUS
    <2>2. \A u, a : Cardinality(CasesOf(cases, u, a)) = 0
                    /\ Cardinality(Recording(u, a)) = 0
      BY <1>2, <1>3, <1>4
    <2> HIDE DEF Init
    <2>3. \A u \in Users, a \in Sanctions :
            done[u][a] = Cardinality(CasesOf(cases, u, a))
                           + Cardinality(Recording(u, a))
      BY <2>1, <2>2
    <2> QED
      BY <2>3 DEF SanctionsRecorded, CasesOf, Recording
  <1>10. EnoughWarningsBan
    BY <1>6, <1>7 DEF EnoughWarningsBan
  <1> QED
    BY <1>4, <1>5, <1>8, <1>9, <1>10 DEF IInv

-----------------------------------------------------------------------------
(* The inductive invariant holds in every reachable state. *)
THEOREM Invariance == Spec => []IInv
  <1>1. IInv /\ [Next]_vars => IInv'
    <2> SUFFICES ASSUME IInv, [Next]_vars PROVE IInv'
      OBVIOUS
    <2>1. ASSUME NEW c \in Coros, Step(c) PROVE IInv'
      <3>1. Escalate(c) => pc'[c] = "idle" \/ pc'[c] # "idle"
        OBVIOUS
      <3> QED
        BY <2>1, <3>1, FilterIInv, EndsIInv, AddWarningIInv, EscalateIInv,
           ActIInv, RecordIInv DEF Step
    <2>2. ASSUME NEW c \in Coros, NEW u \in Users, Call(c, u) PROVE IInv'
      BY <2>2, CallIInv
    <2>3. ASSUME NEW u \in Users, DelWarn(u) \/ ClearWarnings(u) PROVE IInv'
      <3>1. PICK S : S \subseteq WarningsOf(cases, u) /\ Retire(u, S)
        BY <2>3 DEF DelWarn, ClearWarnings
      <3> QED
        BY <3>1, RetireIInv
    <2>4. CASE \/ \E l \in Limits : SetLimits(l)
               \/ \E u \in Users : Rejoin(u)
               \/ Tick
      BY <2>4, WorldIInv
    <2>5. CASE Restart
      BY <2>5, RestartIInv
    <2>6. CASE UNCHANGED vars
      <3> USE <2>6 DEF vars, callVars, ghosts, IInv
      <3>1. TypeOK' /\ IsFiniteSet(Busy)' /\ Chosen' /\ SettingsFresh' /\ Remembered'
        BY DEF TypeOK, Busy, Chosen, ChosenOf, SettingsFresh, Remembered
      <3>2. Earned' /\ SanctionsRecorded' /\ EnoughWarningsBan'
        BY DEF Earned, EarnedOf, Active, SanctionsRecorded, EnoughWarningsBan
      <3> QED
        BY <3>1, <3>2
    <2> QED
      BY <2>1, <2>2, <2>3, <2>4, <2>5, <2>6 DEF Next
  <1> QED
    BY InitIInv, <1>1, PTL DEF Spec

(* Whoever reaches the ban threshold is banned: see EnoughWarningsBan. *)
THEOREM ThresholdBans == Spec => []EnoughWarningsBan
  BY Invariance, PTL DEF IInv

(* The cases are what was done: see SanctionsRecorded. *)
THEOREM EverySanctionRecorded == Spec => []SanctionsRecorded
  BY Invariance, PTL DEF IInv

(* Removals rest on warnings that still count: see RemovalEarned. *)
THEOREM RemovalsEarned == Spec => RemovalEarned
  <1> DEFINE Deserved ==
        \A c \in Coros :
          Act(c) /\ total[c] > 0 /\ c \notin pardoned =>
            Active(user[c]) >= (IF action[c] = "ban" THEN cfg[c].ban
                                                     ELSE cfg[c].kick)
  <1>1. IInv => Deserved
    <2> SUFFICES ASSUME IInv, NEW c \in Coros, pc[c] = "acting", total[c] > 0,
                        c \notin pardoned
                 PROVE  Active(user[c]) >= (IF action[c] = "ban" THEN cfg[c].ban
                                                                 ELSE cfg[c].kick)
      BY DEF Act, Goto
    <2>1. /\ total[c] >= (IF action[c] = "ban" THEN cfg[c].ban ELSE cfg[c].kick)
          /\ total[c] <= Active(user[c])
      BY DEF IInv, Chosen, ChosenOf, Earned, EarnedOf
    <2>2. Active(user[c]) \in Nat /\ total[c] \in Nat
          /\ cfg[c].ban \in Nat /\ cfg[c].kick \in Nat
      BY ActiveType, LimitsAssumption DEF IInv, TypeOK
    <2> QED
      BY <2>1, <2>2
  <1>2. IInv /\ [Next]_vars => [Deserved]_vars
    BY <1>1
  <1> QED
    BY <1>2, Invariance, PTL DEF Spec, RemovalEarned

(* The filter warns a member once per cooldown: see FloodWarnsOnce. *)
THEOREM FloodsWarnOnce == Spec => FloodWarnsOnce
  <1> DEFINE Spaced ==
        \A c \in Coros :
          Punish(c) /\ user[c] \notin dropped =>
            \/ warned[user[c]] = Never
            \/ clock - warned[user[c]] >= Cooldown
  <1>1. IInv => Spaced
    <2> SUFFICES ASSUME IInv, NEW c \in Coros, Punish(c), user[c] \notin dropped,
                        warned[user[c]] # Never
                 PROVE  clock - warned[user[c]] >= Cooldown
      OBVIOUS
    <2>1. /\ user[c] \in DOMAIN recently
          /\ recently[user[c]] = warned[user[c]]
          /\ recently[user[c]] \in Nat /\ clock \in Nat /\ Cooldown \in Nat
      BY BoundsAssumption DEF IInv, TypeOK, Remembered
    <2>2. ~OnCooldown(user[c])
      BY DEF Punish
    <2> QED
      BY <2>1, <2>2 DEF OnCooldown
  <1>2. IInv /\ [Next]_vars => [Spaced]_vars
    BY <1>1
  <1> QED
    BY <1>2, Invariance, PTL DEF Spec, FloodWarnsOnce
=============================================================================
