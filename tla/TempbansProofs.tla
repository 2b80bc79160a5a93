--------------------------- MODULE TempbansProofs ---------------------------
(***************************************************************************)
(* Theorems about Tempbans, for any members, moderators and bounds.  The   *)
(* inductive invariant relates three things that no code compares: the ban *)
(* Discord has in force, the case rows, and the case numbers an /unban or  *)
(* a sweep has read and not yet come to.                                   *)
(***************************************************************************)
EXTENDS Tempbans, TLAPS, SequenceTheorems

(* What an /unban is still to retire are cases of its member.              *)
TodoKept ==
  \A m \in Mods :
    /\ todo[m] # {} => pc[m] = "retiring"
    /\ \A n \in todo[m] : cases[n].user = user[m]

(* A ban in force beside an /unban that retires cases came after its unban.*)
RetiringKept ==
  \A m \in Mods :
    pc[m] \in {"listing", "retiring"} =>
      ban[user[m]] = NotBanned \/ user[m] \in overtaken

(* What an /unban saw is retired, or still on its list.                    *)
SeenKept ==
  \A m \in Mods, u \in Users :
    pc[m] \in {"retiring", "recordunban"} /\ user[m] = u =>
      \A n \in ActiveTempbans(u) : n > seen[m] \/ n \in todo[m]

(* HasCase, by a case the sweeper is not about to retire.                  *)
CaseAhead(u) ==
  \/ \E m \in Mods : pc[m] = "recording" /\ user[m] = u /\ until[m] = ban[u]
  \/ \E n \in ActiveTempbans(u) : n # current /\ cases[n].expires = ban[u]

Tracked ==
  \A u \in Users :
    ban[u] \in Nat /\ u \notin untracked \cup overtaken => CaseAhead(u)

(* All that will ever point the sweeper at a fresh ban's member is the     *)
(* ban's own case: active, in the batch, or about to be written.           *)
OwnCaseOnly ==
  \A u \in fresh :
    /\ \A n \in ActiveTempbans(u) : cases[n].expires = ban[u]
    /\ \A n \in batch :
         cases[n].user = u => ban[u] \in Nat /\ ban[u] <= clock
    /\ \A m \in Mods :
         pc[m] = "recording" /\ user[m] = u => until[m] = ban[u]

IInv == /\ TypeOK
        /\ TodoKept /\ RetiringKept /\ SeenKept
        /\ Tracked
        /\ OwnCaseOnly

-----------------------------------------------------------------------------
(* The two writes of the cases table.                                      *)
LEMMA ActiveCases ==
  ASSUME TypeOK, NEW u \in Users, NEW n \in ActiveTempbans(u)
  PROVE  n \in DOMAIN cases /\ n \in 1..Len(cases) /\ cases[n].user = u
BY DEF ActiveTempbans, TypeOK

(* A new row is the last one, and counts if it is a tempban.               *)
LEMMA CaseAdded ==
  ASSUME TypeOK, NEW u \in Users, NEW a \in {"ban", "tempban", "unban"},
         NEW e \in Expiry, AddCase(u, a, e)
  PROVE  /\ cases' \in Seq(Case)
         /\ Len(cases') = Len(cases) + 1
         /\ DOMAIN cases' = DOMAIN cases \cup {Len(cases) + 1}
         /\ \A n \in DOMAIN cases : cases'[n] = cases[n]
         /\ cases'[Len(cases) + 1].expires = e
         /\ \A v \in Users :
              ActiveTempbans(v)' =
                ActiveTempbans(v) \cup
                  (IF v = u /\ a = "tempban" THEN {Len(cases) + 1} ELSE {})
<1> DEFINE row == [user |-> u, action |-> a, expires |-> e, active |-> TRUE]
<1>1. row \in Case /\ cases \in Seq(Case) /\ cases' = Append(cases, row)
  BY DEF AddCase, TypeOK, Case
<1>2. /\ row.user = u /\ row.action = a /\ row.expires = e /\ row.active
  OBVIOUS
<1> HIDE DEF row
<1>3. /\ cases' \in Seq(Case)
      /\ Len(cases') = Len(cases) + 1
      /\ \A n \in 1..Len(cases) : cases'[n] = cases[n]
      /\ cases'[Len(cases) + 1] = row
  BY <1>1
<1>4. /\ DOMAIN cases = 1..Len(cases) /\ DOMAIN cases' = 1..(Len(cases) + 1)
      /\ Len(cases) \in Nat
  BY <1>1, <1>3
<1>5. DOMAIN cases' = DOMAIN cases \cup {Len(cases) + 1}
  BY <1>4
<1>6. ASSUME NEW v \in Users
      PROVE  ActiveTempbans(v)' =
               ActiveTempbans(v) \cup
                 (IF v = u /\ a = "tempban" THEN {Len(cases) + 1} ELSE {})
  BY <1>2, <1>3, <1>4, <1>5 DEF ActiveTempbans
<1> QED BY <1>2, <1>3, <1>4, <1>5, <1>6

(* A retired row keeps everything but its activity.                        *)
LEMMA CaseRetired ==
  ASSUME TypeOK, NEW n \in DOMAIN cases, DeactivateCase(n)
  PROVE  /\ cases' \in Seq(Case)
         /\ Len(cases') = Len(cases)
         /\ DOMAIN cases' = DOMAIN cases
         /\ \A k \in DOMAIN cases : /\ cases'[k].user = cases[k].user
                                    /\ cases'[k].expires = cases[k].expires
         /\ \A v \in Users : ActiveTempbans(v)' = ActiveTempbans(v) \ {n}
<1>1. cases \in Seq(Case) /\ cases' = [cases EXCEPT ![n].active = FALSE]
  BY DEF DeactivateCase, TypeOK
<1>2. cases[n] \in Case /\ [cases[n] EXCEPT !.active = FALSE] \in Case
  <2>1. cases[n] \in Case
    BY <1>1
  <2>2. \A c \in Case : [c EXCEPT !.active = FALSE] \in Case
    BY DEF Case
  <2> QED BY <2>1, <2>2
<1>3. cases' = [cases EXCEPT ![n] = [cases[n] EXCEPT !.active = FALSE]]
  BY <1>1
<1>4. /\ cases' \in Seq(Case) /\ Len(cases') = Len(cases)
      /\ DOMAIN cases' = DOMAIN cases
      /\ \A k \in DOMAIN cases \ {n} : cases'[k] = cases[k]
      /\ cases'[n] = [cases[n] EXCEPT !.active = FALSE]
  BY <1>1, <1>2, <1>3
<1>5. /\ cases'[n].user = cases[n].user /\ cases'[n].expires = cases[n].expires
      /\ ~cases'[n].active
  BY <1>2, <1>4 DEF Case
<1>6. \A v \in Users : ActiveTempbans(v)' = ActiveTempbans(v) \ {n}
  BY <1>4, <1>5 DEF ActiveTempbans
<1> QED BY <1>4, <1>5, <1>6

-----------------------------------------------------------------------------
(* Types.                                                                  *)
LEMMA InitTyped == Init => TypeOK
<1> SUFFICES ASSUME Init PROVE TypeOK
  OBVIOUS
<1>1. /\ cases \in Seq(Case) /\ DOMAIN cases = {} /\ Len(cases) = 0
  BY DEF Init
<1>2. 0 \in 0..MaxTime /\ 0 \in 0..MaxFailures /\ Never \in Expiry
  BY BoundsAssumption DEF Expiry
<1>3. (CHOOSE u \in Users : TRUE) \in Users
  BY UsersAssumption
<1> QED BY <1>1, <1>2, <1>3 DEF Init, TypeOK

(* A step of a moderator's handler.                                        *)
LEMMA ModTyped ==
  ASSUME TypeOK, NEW m \in Mods, Command(m) \/ ModStep(m)
  PROVE  TypeOK'
<1> USE DEF TypeOK, Goto, sweepVars, ghosts, banGhosts, modVars
<1>0. MaxFailures \in Nat
  BY BoundsAssumption
<1>1. ASSUME NEW u \in Users, StartUnban(m, u)
      PROVE  TypeOK'
  BY <1>1 DEF StartUnban
<1>2. ASSUME NEW u \in Users, NEW e \in Expiry, StartBan(m, u, e)
      PROVE  TypeOK'
  BY <1>2 DEF StartBan
<1>3. CASE GuildBan(m)
  BY <1>3 DEF GuildBan
<1>4. CASE GuildBanFails(m)
  BY <1>4 DEF GuildBanFails
<1>5. CASE RecordBan(m)
  <2> DEFINE action == IF until[m] = Never THEN "ban" ELSE "tempban"
  <2>1. CASE Works /\ AddCase(user[m], action, until[m]) /\ UNCHANGED untracked
    <3>1. /\ cases' \in Seq(Case) /\ Len(cases') = Len(cases) + 1
          /\ DOMAIN cases' = DOMAIN cases \cup {Len(cases) + 1}
      BY <2>1, CaseAdded
    <3>2. 0..Len(cases) \subseteq 0..Len(cases')
      BY <3>1
    <3> QED BY <1>5, <2>1, <3>1, <3>2 DEF RecordBan, Works
  <2>2. CASE Raises /\ UNCHANGED cases
    BY <1>0, <1>5, <2>2 DEF RecordBan, Raises
  <2> QED BY <1>5, <2>1, <2>2 DEF RecordBan
<1>6. CASE GuildUnban(m)
  BY <1>6 DEF GuildUnban, Forget
<1>7. CASE ListTempbans(m)
  <2>1. ActiveTempbans(user[m]) \subseteq DOMAIN cases
    BY DEF ActiveTempbans
  <2>2. Len(cases) \in 0..Len(cases)
    OBVIOUS
  <2>3. CASE /\ Works /\ pc' = [pc EXCEPT ![m] = "retiring"]
             /\ todo' = [todo EXCEPT ![m] = ActiveTempbans(user[m])]
             /\ seen' = [seen EXCEPT ![m] = Len(cases)]
    BY <1>7, <2>1, <2>2, <2>3 DEF ListTempbans, Works
  <2>4. CASE /\ Raises /\ pc' = [pc EXCEPT ![m] = "idle"]
             /\ UNCHANGED <<todo, seen>>
    BY <1>0, <1>7, <2>4 DEF ListTempbans, Raises
  <2> QED BY <1>7, <2>3, <2>4 DEF ListTempbans
<1>8. CASE RetireTempban(m)
  <2>1. PICK n \in todo[m] :
          \/ /\ Works /\ pc' = [pc EXCEPT ![m] = "retiring"]
             /\ DeactivateCase(n)
             /\ todo' = [todo EXCEPT ![m] = @ \ {n}] /\ UNCHANGED seen
          \/ /\ Raises /\ pc' = [pc EXCEPT ![m] = "idle"]
             /\ todo' = [todo EXCEPT ![m] = {}]
             /\ seen' = [seen EXCEPT ![m] = 0] /\ UNCHANGED cases
    BY <1>8 DEF RetireTempban
  <2>2. n \in DOMAIN cases /\ 0 \in 0..Len(cases)
    OBVIOUS
  <2>3. UNCHANGED <<ban, clock, user, until, sweepVars, banGhosts>>
    BY <1>8 DEF RetireTempban
  <2>4. CASE /\ Works /\ pc' = [pc EXCEPT ![m] = "retiring"]
             /\ DeactivateCase(n)
             /\ todo' = [todo EXCEPT ![m] = @ \ {n}] /\ UNCHANGED seen
    <3>1. /\ cases' \in Seq(Case) /\ Len(cases') = Len(cases)
          /\ DOMAIN cases' = DOMAIN cases
      BY <2>2, <2>4, CaseRetired
    <3> QED BY <2>3, <2>4, <3>1 DEF Works
  <2>5. CASE /\ Raises /\ pc' = [pc EXCEPT ![m] = "idle"]
             /\ todo' = [todo EXCEPT ![m] = {}]
             /\ seen' = [seen EXCEPT ![m] = 0] /\ UNCHANGED cases
    BY <1>0, <2>2, <2>3, <2>5 DEF Raises
  <2> QED BY <2>1, <2>4, <2>5
<1>9. CASE RetiredAll(m)
  BY <1>9 DEF RetiredAll
<1>10. CASE RecordUnban(m)
  <2>1. CASE Works /\ AddCase(user[m], "unban", Never)
    <3>1. Never \in Expiry
      BY DEF Expiry
    <3>2. /\ cases' \in Seq(Case) /\ Len(cases') = Len(cases) + 1
          /\ DOMAIN cases' = DOMAIN cases \cup {Len(cases) + 1}
      BY <2>1, <3>1, CaseAdded
    <3>3. 0..Len(cases) \subseteq 0..Len(cases') /\ 0 \in 0..Len(cases')
      BY <3>2
    <3> QED BY <1>10, <2>1, <3>2, <3>3 DEF RecordUnban, Works
  <2>2. CASE Raises /\ UNCHANGED cases
    <3>1. 0 \in 0..Len(cases)
      OBVIOUS
    <3> QED BY <1>0, <1>10, <2>2, <3>1 DEF RecordUnban, Raises
  <2> QED BY <1>10, <2>1, <2>2 DEF RecordUnban
<1> QED BY <1>1, <1>2, <1>3, <1>4, <1>5, <1>6, <1>7, <1>8, <1>9, <1>10
        DEF Command, ModStep

(* A step of anything else.                                                *)
LEMMA OthersTyped ==
  ASSUME TypeOK,
         \/ SweepStep
         \/ \E u \in Users : ManualUnban(u)
         \/ Tick
         \/ Restart
         \/ UNCHANGED vars
  PROVE  TypeOK'
<1> USE DEF TypeOK, sweepVars, ghosts, banGhosts, modVars
<1>0. MaxFailures \in Nat /\ MaxTime \in Nat
  BY BoundsAssumption
<1>1. CASE Sweep
  <2>1. DueCases \subseteq DOMAIN cases
    BY DEF DueCases
  <2> QED BY <1>0, <1>1, <2>1 DEF Sweep, Works, Raises
<1>2. CASE RetireLifted
  <2>1. CASE Works /\ DeactivateCase(current) /\ current \in DOMAIN cases
    <3>1. /\ cases' \in Seq(Case) /\ Len(cases') = Len(cases)
          /\ DOMAIN cases' = DOMAIN cases
      BY <2>1, CaseRetired
    <3> QED BY <1>2, <2>1, <3>1 DEF RetireLifted, Works
  <2>2. CASE Works /\ DeactivateCase(current) /\ current \notin DOMAIN cases
    <3>1. cases' = cases
      BY <2>2 DEF DeactivateCase
    <3> QED BY <1>2, <2>2, <3>1 DEF RetireLifted, Works
  <2>3. CASE Raises /\ UNCHANGED cases
    BY <1>0, <1>2, <2>3 DEF RetireLifted, Raises
  <2> QED BY <1>2, <2>1, <2>2, <2>3 DEF RetireLifted
<1>3. CASE Report
  BY <1>0, <1>3 DEF Report, Works, Raises
<1>4. CASE SweepEnds
  BY <1>4 DEF SweepEnds
<1>5. CASE ConnectionLost
  BY <1>5 DEF ConnectionLost
<1>6. ASSUME NEW n \in DOMAIN cases, Lift(n)
      PROVE  TypeOK'
  <2>1. cases[n] \in Case
    OBVIOUS
  <2>2. cases[n].user \in Users
    BY <2>1 DEF Case
  <2> QED BY <1>6, <2>2 DEF Lift, NextCase, Forget
<1>7. ASSUME NEW n \in DOMAIN cases, SkipCase(n)
      PROVE  TypeOK'
  BY <1>7 DEF SkipCase, NextCase
<1>8. ASSUME NEW u \in Users, ManualUnban(u)
      PROVE  TypeOK'
  BY <1>8 DEF ManualUnban, Forget
<1>9. CASE Tick
  BY <1>0, <1>9 DEF Tick
<1>10. CASE Restart
  <2>1. 0 \in 0..Len(cases)
    OBVIOUS
  <2> QED BY <1>10, <2>1 DEF Restart
<1>11. CASE UNCHANGED vars
  BY <1>11 DEF vars
<1> QED BY <1>1, <1>2, <1>3, <1>4, <1>5, <1>6, <1>7, <1>8, <1>9, <1>10, <1>11
        DEF SweepStep

-----------------------------------------------------------------------------
(* What an /unban has on its list.                                         *)
LEMMA RowsKeepMember ==
  ASSUME TypeOK, [Next]_vars, NEW n \in DOMAIN cases
  PROVE  /\ n \in DOMAIN cases'
         /\ cases'[n].user = cases[n].user
         /\ cases'[n].expires = cases[n].expires
<1> DEFINE Kept == /\ n \in DOMAIN cases'
                   /\ cases'[n].user = cases[n].user
                   /\ cases'[n].expires = cases[n].expires
<1>1. ASSUME NEW u \in Users, NEW a \in {"ban", "tempban", "unban"},
             NEW e \in Expiry, AddCase(u, a, e)
      PROVE  Kept
  BY <1>1, CaseAdded
<1>2. ASSUME NEW k \in DOMAIN cases, DeactivateCase(k)
      PROVE  Kept
  BY <1>2, CaseRetired
<1>3. ASSUME NEW k, k \notin DOMAIN cases, DeactivateCase(k)
      PROVE  Kept
  BY <1>3 DEF DeactivateCase, TypeOK
<1>4. CASE UNCHANGED cases
  BY <1>4
<1>5. ASSUME NEW m \in Mods, RecordBan(m)
      PROVE  Kept
  <2>1. user[m] \in Users /\ until[m] \in Expiry
    BY DEF TypeOK
  <2> QED BY <1>1, <1>4, <1>5, <2>1 DEF RecordBan
<1>6. ASSUME NEW m \in Mods, RetireTempban(m)
      PROVE  Kept
  BY <1>2, <1>3, <1>4, <1>6 DEF RetireTempban
<1>7. ASSUME NEW m \in Mods, RecordUnban(m)
      PROVE  Kept
  <2>1. user[m] \in Users /\ Never \in Expiry
    BY DEF TypeOK, Expiry
  <2> QED BY <1>1, <1>4, <1>7, <2>1 DEF RecordUnban
<1>8. CASE RetireLifted
  BY <1>2, <1>3, <1>4, <1>8 DEF RetireLifted
<1> HIDE DEF Kept
<1>9. \/ \E m \in Mods : RecordBan(m) \/ RetireTempban(m) \/ RecordUnban(m)
      \/ RetireLifted
      \/ UNCHANGED cases
  BY DEF Next, Command, ModStep, SweepStep, StartUnban, StartBan, GuildBan,
         GuildBanFails, GuildUnban, ListTempbans, RetiredAll, Sweep, Report,
         SweepEnds, ConnectionLost, Lift, SkipCase, ManualUnban, Tick, Restart,
         vars
<1> QED BY <1>4, <1>5, <1>6, <1>7, <1>8, <1>9 DEF Kept

LEMMA TodoPreserved ==
  ASSUME TypeOK, TodoKept, [Next]_vars
  PROVE  TodoKept'
<1> SUFFICES ASSUME NEW o \in Mods
             PROVE  /\ todo'[o] # {} => pc'[o] = "retiring"
                    /\ \A n \in todo'[o] : cases'[n].user = user'[o]
  BY DEF TodoKept
<1> DEFINE Kept == /\ todo'[o] # {} => pc'[o] = "retiring"
                   /\ \A n \in todo'[o] : cases'[n].user = user'[o]
<1>0. /\ todo[o] \subseteq DOMAIN cases /\ user[o] \in Users
      /\ todo[o] # {} => pc[o] = "retiring"
      /\ \A n \in todo[o] : cases[n].user = user[o]
      /\ \A n \in DOMAIN cases : cases'[n].user = cases[n].user
      /\ \A n \in ActiveTempbans(user[o]) : cases[n].user = user[o]
      /\ ActiveTempbans(user[o]) \subseteq DOMAIN cases
  BY RowsKeepMember DEF TypeOK, TodoKept, ActiveTempbans
<1>c. /\ DOMAIN pc = Mods /\ DOMAIN user = Mods /\ DOMAIN todo = Mods
  BY DEF TypeOK
<1>1. ASSUME NEW m \in Mods, NEW u \in Users, StartUnban(m, u)
      PROVE  Kept
  BY <1>0, <1>c, <1>1 DEF StartUnban, Goto
<1>2. ASSUME NEW m \in Mods, NEW u \in Users, NEW e \in Expiry,
             StartBan(m, u, e)
      PROVE  Kept
  BY <1>0, <1>c, <1>2 DEF StartBan, Goto
<1>3. ASSUME NEW m \in Mods, GuildBan(m)
      PROVE  Kept
  BY <1>0, <1>c, <1>3 DEF GuildBan, Goto
<1>4. ASSUME NEW m \in Mods, GuildBanFails(m)
      PROVE  Kept
  BY <1>0, <1>c, <1>4 DEF GuildBanFails, Goto
<1>5. ASSUME NEW m \in Mods, RecordBan(m)
      PROVE  Kept
  BY <1>0, <1>c, <1>5 DEF RecordBan, Goto
<1>6. ASSUME NEW m \in Mods, GuildUnban(m)
      PROVE  Kept
  BY <1>0, <1>c, <1>6 DEF GuildUnban, Goto
<1>7. ASSUME NEW m \in Mods, ListTempbans(m)
      PROVE  Kept
  BY <1>0, <1>c, <1>7 DEF ListTempbans, Goto
<1>8. ASSUME NEW m \in Mods, RetireTempban(m)
      PROVE  Kept
  BY <1>0, <1>c, <1>8 DEF RetireTempban, Goto
<1>9. ASSUME NEW m \in Mods, RetiredAll(m)
      PROVE  Kept
  BY <1>0, <1>c, <1>9 DEF RetiredAll, Goto
<1>10. ASSUME NEW m \in Mods, RecordUnban(m)
       PROVE  Kept
  BY <1>0, <1>c, <1>10 DEF RecordUnban, Goto
<1>11. CASE Sweep
  BY <1>0, <1>c, <1>11 DEF Sweep, modVars
<1>12. CASE RetireLifted
  BY <1>0, <1>c, <1>12 DEF RetireLifted, modVars
<1>13. CASE Report
  BY <1>0, <1>c, <1>13 DEF Report, modVars
<1>14. CASE SweepEnds
  BY <1>0, <1>c, <1>14 DEF SweepEnds, modVars
<1>15. CASE ConnectionLost
  BY <1>0, <1>c, <1>15 DEF ConnectionLost, modVars
<1>16. ASSUME NEW n \in DOMAIN cases, Lift(n)
       PROVE  Kept
  BY <1>0, <1>c, <1>16 DEF Lift, modVars
<1>17. ASSUME NEW n \in DOMAIN cases, SkipCase(n)
       PROVE  Kept
  BY <1>0, <1>c, <1>17 DEF SkipCase, modVars
<1>18. ASSUME NEW u \in Users, ManualUnban(u)
       PROVE  Kept
  BY <1>0, <1>c, <1>18 DEF ManualUnban, modVars
<1>19. CASE Tick
  BY <1>0, <1>c, <1>19 DEF Tick, modVars
<1>20. CASE Restart
  BY <1>0, <1>c, <1>20 DEF Restart
<1>21. CASE UNCHANGED vars
  BY <1>0, <1>c, <1>21 DEF vars, modVars
<1> QED BY <1>1, <1>2, <1>3, <1>4, <1>5, <1>6, <1>7, <1>8, <1>9, <1>10, <1>11,
           <1>12, <1>13, <1>14, <1>15, <1>16, <1>17, <1>18, <1>19, <1>20, <1>21
        DEF Next, Command, ModStep, SweepStep

(* A ban placed beside an /unban that retires cases is known as such.      *)
LEMMA RetiringPreserved ==
  ASSUME TypeOK, RetiringKept, [Next]_vars
  PROVE  RetiringKept'
<1> DEFINE Kept(o) ==
      pc'[o] \in {"listing", "retiring"} =>
        ban'[user'[o]] = NotBanned \/ user'[o] \in overtaken'
<1> SUFFICES ASSUME NEW o \in Mods
             PROVE  Kept(o)
  BY DEF RetiringKept
<1>0. /\ user[o] \in Users
      /\ pc[o] \in {"listing", "retiring"} =>
           ban[user[o]] = NotBanned \/ user[o] \in overtaken
  BY DEF TypeOK, RetiringKept
<1>c. /\ DOMAIN pc = Mods /\ DOMAIN user = Mods /\ DOMAIN ban = Users
  BY DEF TypeOK
<1>1. ASSUME NEW m \in Mods, NEW u \in Users, StartUnban(m, u)
      PROVE  Kept(o)
  BY <1>0, <1>c, <1>1 DEF StartUnban, Goto, ghosts, banGhosts
<1>2. ASSUME NEW m \in Mods, NEW u \in Users, NEW e \in Expiry,
             StartBan(m, u, e)
      PROVE  Kept(o)
  BY <1>0, <1>c, <1>2 DEF StartBan, Goto, ghosts, banGhosts
<1>3. ASSUME NEW m \in Mods, GuildBan(m)
      PROVE  Kept(o)
  BY <1>0, <1>c, <1>3 DEF GuildBan, Goto, Retiring
<1>4. ASSUME NEW m \in Mods, GuildBanFails(m)
      PROVE  Kept(o)
  BY <1>0, <1>c, <1>4 DEF GuildBanFails, Goto, ghosts, banGhosts
<1>5. ASSUME NEW m \in Mods, RecordBan(m)
      PROVE  Kept(o)
  BY <1>0, <1>c, <1>5 DEF RecordBan, Goto
<1>6. ASSUME NEW m \in Mods, GuildUnban(m)
      PROVE  Kept(o)
  BY <1>0, <1>c, <1>6 DEF GuildUnban, Goto, Forget, ghosts, banGhosts
<1>7. ASSUME NEW m \in Mods, ListTempbans(m)
      PROVE  Kept(o)
  BY <1>0, <1>c, <1>7 DEF ListTempbans, Goto, banGhosts
<1>8. ASSUME NEW m \in Mods, RetireTempban(m)
      PROVE  Kept(o)
  BY <1>0, <1>c, <1>8 DEF RetireTempban, Goto, banGhosts
<1>9. ASSUME NEW m \in Mods, RetiredAll(m)
      PROVE  Kept(o)
  BY <1>0, <1>c, <1>9 DEF RetiredAll, Goto, ghosts, banGhosts
<1>10. ASSUME NEW m \in Mods, RecordUnban(m)
       PROVE  Kept(o)
  BY <1>0, <1>c, <1>10 DEF RecordUnban, Goto, banGhosts
<1>11. CASE Sweep
  BY <1>0, <1>c, <1>11 DEF Sweep, modVars, ghosts, banGhosts
<1>12. CASE RetireLifted
  BY <1>0, <1>c, <1>12 DEF RetireLifted, modVars, ghosts, banGhosts
<1>13. CASE Report
  BY <1>0, <1>c, <1>13 DEF Report, modVars, ghosts, banGhosts
<1>14. CASE SweepEnds
  BY <1>0, <1>c, <1>14 DEF SweepEnds, modVars, ghosts, banGhosts
<1>15. CASE ConnectionLost
  BY <1>0, <1>c, <1>15 DEF ConnectionLost, modVars, ghosts, banGhosts
<1>16. ASSUME NEW n \in DOMAIN cases, Lift(n)
       PROVE  Kept(o)
  <2>1. cases[n] \in Case
    BY DEF TypeOK
  <2>2. cases[n].user \in Users
    BY <2>1 DEF Case
  <2> QED BY <1>0, <1>c, <1>16, <2>2 DEF Lift, Forget, modVars
<1>17. ASSUME NEW n \in DOMAIN cases, SkipCase(n)
       PROVE  Kept(o)
  BY <1>0, <1>c, <1>17 DEF SkipCase, modVars, ghosts, banGhosts
<1>18. ASSUME NEW u \in Users, ManualUnban(u)
       PROVE  Kept(o)
  BY <1>0, <1>c, <1>18 DEF ManualUnban, Forget, modVars
<1>19. CASE Tick
  BY <1>0, <1>c, <1>19 DEF Tick, modVars, ghosts, banGhosts
<1>20. CASE Restart
  BY <1>0, <1>c, <1>20 DEF Restart
<1>21. CASE UNCHANGED vars
  BY <1>0, <1>c, <1>21 DEF vars, modVars, ghosts, banGhosts
<1> QED BY <1>1, <1>2, <1>3, <1>4, <1>5, <1>6, <1>7, <1>8, <1>9, <1>10, <1>11,
           <1>12, <1>13, <1>14, <1>15, <1>16, <1>17, <1>18, <1>19, <1>20, <1>21
        DEF Next, Command, ModStep, SweepStep

(* At each step a member gains no tempban case but the row just added.     *)
LEMMA OnlyNewCasesActive ==
  ASSUME TypeOK, [Next]_vars, NEW v \in Users
  PROVE  ActiveTempbans(v)' \subseteq ActiveTempbans(v) \cup {Len(cases) + 1}
<1> DEFINE Kept ==
      ActiveTempbans(v)' \subseteq ActiveTempbans(v) \cup {Len(cases) + 1}
<1>1. ASSUME NEW u \in Users, NEW a \in {"ban", "tempban", "unban"},
             NEW e \in Expiry, AddCase(u, a, e)
      PROVE  Kept
  BY <1>1, CaseAdded
<1>2. ASSUME NEW k \in DOMAIN cases, DeactivateCase(k)
      PROVE  Kept
  BY <1>2, CaseRetired
<1>3. CASE UNCHANGED cases
  BY <1>3 DEF ActiveTempbans
<1>4. ASSUME NEW k, k \notin DOMAIN cases, DeactivateCase(k)
      PROVE  Kept
  BY <1>3, <1>4 DEF DeactivateCase, TypeOK
<1>5. ASSUME NEW m \in Mods, RecordBan(m)
      PROVE  Kept
  <2>1. user[m] \in Users /\ until[m] \in Expiry
    BY DEF TypeOK
  <2> QED BY <1>1, <1>3, <1>5, <2>1 DEF RecordBan
<1>6. ASSUME NEW m \in Mods, RetireTempban(m)
      PROVE  Kept
  BY <1>2, <1>3, <1>4, <1>6 DEF RetireTempban
<1>7. ASSUME NEW m \in Mods, RecordUnban(m)
      PROVE  Kept
  <2>1. user[m] \in Users /\ Never \in Expiry
    BY DEF TypeOK, Expiry
  <2> QED BY <1>1, <1>3, <1>7, <2>1 DEF RecordUnban
<1>8. CASE RetireLifted
  BY <1>2, <1>3, <1>4, <1>8 DEF RetireLifted
<1> HIDE DEF Kept
<1>9. \/ \E m \in Mods : RecordBan(m) \/ RetireTempban(m) \/ RecordUnban(m)
      \/ RetireLifted
      \/ UNCHANGED cases
  BY DEF Next, Command, ModStep, SweepStep, StartUnban, StartBan, GuildBan,
         GuildBanFails, GuildUnban, ListTempbans, RetiredAll, Sweep, Report,
         SweepEnds, ConnectionLost, Lift, SkipCase, ManualUnban, Tick, Restart,
         vars
<1> QED BY <1>3, <1>5, <1>6, <1>7, <1>8, <1>9 DEF Kept

(* What was active when an /unban looked is retired or on its list.        *)
LEMMA SeenPreserved ==
  ASSUME TypeOK, SeenKept, [Next]_vars
  PROVE  SeenKept'
<1> DEFINE Kept(o, v) ==
      pc'[o] \in {"retiring", "recordunban"} /\ user'[o] = v =>
        \A n \in ActiveTempbans(v)' : n > seen'[o] \/ n \in todo'[o]
<1> SUFFICES ASSUME NEW o \in Mods, NEW v \in Users
             PROVE  Kept(o, v)
  BY DEF SeenKept
<1> DEFINE old == ActiveTempbans(v)
           new == ActiveTempbans(v)'
<1>0. /\ user[o] \in Users /\ seen[o] \in 0..Len(cases) /\ Len(cases) \in Nat
      /\ pc[o] \in {"retiring", "recordunban"} /\ user[o] = v =>
           \A n \in old : n > seen[o] \/ n \in todo[o]
      /\ \A n \in old : n \in 1..Len(cases)
  BY DEF TypeOK, SeenKept, ActiveTempbans
<1>a. new \subseteq old \cup {Len(cases) + 1}
  BY OnlyNewCasesActive
<1>b. Len(cases) + 1 > seen[o]
  BY <1>0
<1>d. pc[o] \in {"retiring", "recordunban"} /\ user[o] = v =>
        \A n \in new : n > seen[o] \/ n \in todo[o]
  BY <1>0, <1>a, <1>b
<1>c. /\ DOMAIN pc = Mods /\ DOMAIN user = Mods /\ DOMAIN todo = Mods
      /\ DOMAIN seen = Mods
  BY DEF TypeOK
<1>1. ASSUME NEW m \in Mods, NEW u \in Users, StartUnban(m, u)
      PROVE  Kept(o, v)
  BY <1>d, <1>c, <1>1 DEF StartUnban, Goto, ghosts, banGhosts
<1>2. ASSUME NEW m \in Mods, NEW u \in Users, NEW e \in Expiry,
             StartBan(m, u, e)
      PROVE  Kept(o, v)
  BY <1>d, <1>c, <1>2 DEF StartBan, Goto, ghosts, banGhosts
<1>3. ASSUME NEW m \in Mods, GuildBan(m)
      PROVE  Kept(o, v)
  BY <1>d, <1>c, <1>3 DEF GuildBan, Goto
<1>4. ASSUME NEW m \in Mods, GuildBanFails(m)
      PROVE  Kept(o, v)
  BY <1>d, <1>c, <1>4 DEF GuildBanFails, Goto, ghosts, banGhosts
<1>5. ASSUME NEW m \in Mods, RecordBan(m)
      PROVE  Kept(o, v)
  BY <1>d, <1>c, <1>5 DEF RecordBan, Goto
<1>6. ASSUME NEW m \in Mods, GuildUnban(m)
      PROVE  Kept(o, v)
  BY <1>d, <1>c, <1>6 DEF GuildUnban, Goto, Forget, ghosts, banGhosts
<1>7. ASSUME NEW m \in Mods, ListTempbans(m)
      PROVE  Kept(o, v)
  <2>1. CASE o # m
    BY <1>d, <1>c, <1>7, <2>1 DEF ListTempbans, Goto
  <2>2. CASE o = m /\ pc' = [pc EXCEPT ![m] = "retiring"]
    <3>1. /\ user'[o] = v => todo'[o] = ActiveTempbans(v)
          /\ UNCHANGED cases
      BY <1>c, <1>7, <2>2 DEF ListTempbans, Goto
    <3>2. new = ActiveTempbans(v)
      BY <3>1 DEF ActiveTempbans
    <3> QED BY <3>1, <3>2
  <2> QED BY <1>c, <1>7, <2>1, <2>2 DEF ListTempbans, Goto
<1>8. ASSUME NEW m \in Mods, RetireTempban(m)
      PROVE  Kept(o, v)
  <2>1. PICK n \in todo[m] :
          \/ /\ pc' = [pc EXCEPT ![m] = "retiring"]
             /\ DeactivateCase(n)
             /\ todo' = [todo EXCEPT ![m] = @ \ {n}] /\ UNCHANGED seen
          \/ /\ pc' = [pc EXCEPT ![m] = "idle"]
             /\ todo' = [todo EXCEPT ![m] = {}]
             /\ seen' = [seen EXCEPT ![m] = 0] /\ UNCHANGED cases
    BY <1>8 DEF RetireTempban, Goto
  <2>2. /\ n \in DOMAIN cases /\ user' = user /\ pc[m] = "retiring"
    BY <1>8 DEF RetireTempban, TypeOK, Goto
  <2>3. CASE o # m
    BY <1>d, <1>c, <2>1, <2>2, <2>3
  <2>4. CASE o = m /\ DeactivateCase(n) /\ UNCHANGED seen
             /\ todo' = [todo EXCEPT ![m] = @ \ {n}]
    <3>1. new = old \ {n}
      BY <1>0, <2>2, <2>4, CaseRetired
    <3>2. user[o] = v => \A k \in new : k > seen[o] \/ (k \in todo[o] /\ k # n)
      BY <1>d, <2>2, <2>4, <3>1
    <3> QED BY <1>c, <2>2, <2>4, <3>2
  <2>5. CASE o = m /\ pc' = [pc EXCEPT ![m] = "idle"]
    BY <1>c, <2>5
  <2> QED BY <2>1, <2>3, <2>4, <2>5
<1>9. ASSUME NEW m \in Mods, RetiredAll(m)
      PROVE  Kept(o, v)
  BY <1>d, <1>c, <1>9 DEF RetiredAll, Goto, ghosts, banGhosts
<1>10. ASSUME NEW m \in Mods, RecordUnban(m)
       PROVE  Kept(o, v)
  BY <1>d, <1>c, <1>10 DEF RecordUnban, Goto, banGhosts
<1>11. CASE Sweep
  BY <1>d, <1>c, <1>11 DEF Sweep, modVars, ghosts, banGhosts
<1>12. CASE RetireLifted
  BY <1>d, <1>c, <1>12 DEF RetireLifted, modVars, ghosts, banGhosts
<1>13. CASE Report
  BY <1>d, <1>c, <1>13 DEF Report, modVars, ghosts, banGhosts
<1>14. CASE SweepEnds
  BY <1>d, <1>c, <1>14 DEF SweepEnds, modVars, ghosts, banGhosts
<1>15. CASE ConnectionLost
  BY <1>d, <1>c, <1>15 DEF ConnectionLost, modVars, ghosts, banGhosts
<1>16. ASSUME NEW n \in DOMAIN cases, Lift(n)
       PROVE  Kept(o, v)
  BY <1>d, <1>c, <1>16 DEF Lift, Forget, modVars
<1>17. ASSUME NEW n \in DOMAIN cases, SkipCase(n)
       PROVE  Kept(o, v)
  BY <1>d, <1>c, <1>17 DEF SkipCase, modVars, ghosts, banGhosts
<1>18. ASSUME NEW u \in Users, ManualUnban(u)
       PROVE  Kept(o, v)
  BY <1>d, <1>c, <1>18 DEF ManualUnban, Forget, modVars
<1>19. CASE Tick
  BY <1>d, <1>c, <1>19 DEF Tick, modVars, ghosts, banGhosts
<1>20. CASE Restart
  BY <1>d, <1>c, <1>20 DEF Restart
<1>21. CASE UNCHANGED vars
  BY <1>d, <1>c, <1>21 DEF vars, modVars, ghosts, banGhosts
<1> QED BY <1>1, <1>2, <1>3, <1>4, <1>5, <1>6, <1>7, <1>8, <1>9, <1>10, <1>11,
           <1>12, <1>13, <1>14, <1>15, <1>16, <1>17, <1>18, <1>19, <1>20, <1>21
        DEF Next, Command, ModStep, SweepStep

-----------------------------------------------------------------------------
(* The ban in force and the case that ends it.                             *)
LEMMA TrackedPreserved ==
  ASSUME TypeOK, TodoKept, RetiringKept, Tracked, [Next]_vars
  PROVE  Tracked'
<1> DEFINE Handler(v) == \E m \in Mods :
             pc[m] = "recording" /\ user[m] = v /\ until[m] = ban[v]
           Row(v) == \E n \in ActiveTempbans(v) :
             n # current /\ cases[n].expires = ban[v]
           Kept(v) == ban[v] \in Nat /\ v \notin untracked \cup overtaken
                        => Handler(v) \/ Row(v)
<1> SUFFICES ASSUME NEW v \in Users
             PROVE  Kept(v)'
  BY DEF Tracked, CaseAhead
<1>a. Kept(v)
  BY DEF Tracked, CaseAhead
<1>b. /\ DOMAIN pc = Mods /\ DOMAIN user = Mods /\ DOMAIN until = Mods
      /\ DOMAIN ban = Users
      /\ NotBanned \notin Nat /\ Never \notin Nat
  BY SentinelAssumption DEF TypeOK
<1>c. UNCHANGED cases => ActiveTempbans(v)' = ActiveTempbans(v)
  BY DEF ActiveTempbans
<1>d. \A n \in ActiveTempbans(v) :
        n \in DOMAIN cases /\ n # 0 /\ cases[n].user = v
  BY ActiveCases DEF TypeOK
<1>e. \A n \in DOMAIN cases : cases'[n].expires = cases[n].expires
  BY RowsKeepMember
<1>1. ASSUME NEW m \in Mods, NEW u \in Users, StartUnban(m, u)
      PROVE  Kept(v)'
  BY <1>a, <1>b, <1>c, <1>1 DEF StartUnban, Goto, sweepVars, ghosts, banGhosts
<1>2. ASSUME NEW m \in Mods, NEW u \in Users, NEW e \in Expiry,
             StartBan(m, u, e)
      PROVE  Kept(v)'
  BY <1>a, <1>b, <1>c, <1>2 DEF StartBan, Goto, sweepVars, ghosts, banGhosts
<1>3. ASSUME NEW m \in Mods, GuildBan(m)
      PROVE  Kept(v)'
  <2>1. CASE v = user[m]
    BY <1>b, <1>3, <2>1 DEF GuildBan, Goto
  <2>2. CASE v # user[m]
    <3>1. /\ ban'[v] = ban[v] /\ ActiveTempbans(v)' = ActiveTempbans(v)
          /\ UNCHANGED <<cases, current>>
      BY <1>b, <1>c, <1>3, <2>2 DEF GuildBan, sweepVars
    <3>2. Handler(v) => Handler(v)'
      BY <1>b, <1>3, <3>1 DEF GuildBan, Goto
    <3>3. v \notin (untracked \cup overtaken)' => v \notin untracked \cup overtaken
      BY <1>3, <2>2 DEF GuildBan
    <3> QED BY <1>a, <3>1, <3>2, <3>3
  <2> QED BY <2>1, <2>2
<1>4. ASSUME NEW m \in Mods, GuildBanFails(m)
      PROVE  Kept(v)'
  BY <1>a, <1>b, <1>c, <1>4
     DEF GuildBanFails, Goto, sweepVars, ghosts, banGhosts
<1>5. ASSUME NEW m \in Mods, RecordBan(m)
      PROVE  Kept(v)'
  <2> DEFINE action == IF until[m] = Never THEN "ban" ELSE "tempban"
  <2>1. /\ user[m] \in Users /\ until[m] \in Expiry
        /\ action \in {"ban", "tempban", "unban"}
        /\ current \in DOMAIN cases \cup {0} /\ Len(cases) + 1 \notin DOMAIN cases
        /\ Len(cases) + 1 # 0
    BY DEF TypeOK
  <2>2. UNCHANGED <<ban, user, until, current, overtaken>>
    BY <1>5 DEF RecordBan, sweepVars
  <2>3. pc[m] = "recording" /\ pc' = [pc EXCEPT ![m] = "idle"]
    BY <1>5 DEF RecordBan, Goto
  <2>4. CASE AddCase(user[m], action, until[m]) /\ UNCHANGED untracked
    <3>1. /\ ActiveTempbans(v)' =
               ActiveTempbans(v) \cup
                 (IF v = user[m] /\ action = "tempban"
                    THEN {Len(cases) + 1} ELSE {})
          /\ cases'[Len(cases) + 1].expires = until[m]
      BY <2>1, <2>4, CaseAdded
    <3>2. Row(v) => Row(v)'
      BY <1>d, <1>e, <2>2, <3>1
    <3>3. ASSUME NEW o \in Mods, pc[o] = "recording", user[o] = v,
                 until[o] = ban[v], ban[v] \in Nat
          PROVE  Handler(v)' \/ Row(v)'
      <4>1. CASE o # m
        BY <1>b, <2>2, <2>3, <3>3, <4>1
      <4>2. CASE o = m
        <5>1. action = "tempban" /\ v = user[m]
          BY <1>b, <3>3, <4>2
        <5>2. Len(cases) + 1 \in ActiveTempbans(v)' /\ Len(cases) + 1 # current
          BY <2>1, <3>1, <5>1
        <5> QED BY <2>2, <3>1, <3>3, <4>2, <5>2
      <4> QED BY <4>1, <4>2
    <3> QED BY <1>a, <2>2, <2>4, <3>2, <3>3
  <2>5. CASE UNCHANGED cases /\ untracked' = untracked \cup {user[m]}
    <3>1. v \notin untracked' => v # user[m] /\ v \notin untracked
      BY <2>5
    <3>2. v # user[m] /\ Handler(v) => Handler(v)'
      BY <1>b, <2>2, <2>3
    <3> QED BY <1>a, <1>c, <2>2, <2>5, <3>1, <3>2
  <2> QED BY <1>5, <2>4, <2>5 DEF RecordBan
<1>6. ASSUME NEW m \in Mods, GuildUnban(m)
      PROVE  Kept(v)'
  BY <1>a, <1>b, <1>c, <1>6
     DEF GuildUnban, Goto, Forget, sweepVars, ghosts, banGhosts
<1>7. ASSUME NEW m \in Mods, ListTempbans(m)
      PROVE  Kept(v)'
  BY <1>a, <1>b, <1>c, <1>7 DEF ListTempbans, Goto, sweepVars, banGhosts
<1>8. ASSUME NEW m \in Mods, RetireTempban(m)
      PROVE  Kept(v)'
  <2>1. PICK n \in todo[m] : DeactivateCase(n) \/ UNCHANGED cases
    BY <1>8 DEF RetireTempban
  <2>2. /\ UNCHANGED <<ban, user, until, current, untracked, overtaken>>
        /\ pc[m] = "retiring" /\ n \in DOMAIN cases
        /\ (pc' = [pc EXCEPT ![m] = "retiring"] \/ pc' = [pc EXCEPT ![m] = "idle"])
    BY <1>8 DEF RetireTempban, Goto, sweepVars, banGhosts, TypeOK
  <2>3. Handler(v) => Handler(v)'
    BY <1>b, <2>2
  <2>4. CASE UNCHANGED cases
    BY <1>a, <1>c, <2>2, <2>3, <2>4
  <2>5. CASE DeactivateCase(n) /\ v = user[m]
    BY <1>b, <2>2, <2>5 DEF RetiringKept
  <2>6. CASE DeactivateCase(n) /\ v # user[m]
    <3>1. ActiveTempbans(v)' = ActiveTempbans(v) \ {n}
      BY <2>2, <2>6, CaseRetired
    <3>2. n \notin ActiveTempbans(v)
      BY <1>d, <2>1, <2>6 DEF TodoKept
    <3> QED BY <1>a, <1>d, <1>e, <2>2, <2>3, <3>1, <3>2
  <2> QED BY <2>1, <2>4, <2>5, <2>6
<1>9. ASSUME NEW m \in Mods, RetiredAll(m)
      PROVE  Kept(v)'
  BY <1>a, <1>b, <1>c, <1>9 DEF RetiredAll, Goto, sweepVars, ghosts, banGhosts
<1>10. ASSUME NEW m \in Mods, RecordUnban(m)
       PROVE  Kept(v)'
  <2>1. user[m] \in Users /\ Never \in Expiry
    BY DEF TypeOK, Expiry
  <2>2. /\ UNCHANGED <<ban, user, until, current, untracked, overtaken>>
        /\ pc[m] = "recordunban" /\ pc' = [pc EXCEPT ![m] = "idle"]
    BY <1>10 DEF RecordUnban, Goto, sweepVars, banGhosts
  <2>3. Handler(v) => Handler(v)'
    BY <1>b, <2>2
  <2>4. CASE AddCase(user[m], "unban", Never)
    <3>1. ActiveTempbans(v)' = ActiveTempbans(v)
      BY <2>1, <2>4, CaseAdded
    <3> QED BY <1>a, <1>d, <1>e, <2>2, <2>3, <3>1
  <2>5. CASE UNCHANGED cases
    BY <1>a, <1>c, <2>2, <2>3, <2>5
  <2> QED BY <1>10, <2>4, <2>5 DEF RecordUnban
<1>11. CASE Sweep
  BY <1>a, <1>b, <1>c, <1>11 DEF Sweep, modVars, ghosts, banGhosts
<1>12. CASE RetireLifted
  <2>1. UNCHANGED <<ban, modVars, ghosts>> /\ current' = 0
    BY <1>12 DEF RetireLifted
  <2>2. Handler(v) => Handler(v)'
    BY <2>1 DEF modVars
  <2>3. CASE DeactivateCase(current) /\ current \in DOMAIN cases
    <3>1. ActiveTempbans(v)' = ActiveTempbans(v) \ {current}
      BY <2>3, CaseRetired
    <3>2. Row(v) => Row(v)'
      BY <1>d, <1>e, <2>1, <3>1
    <3> QED BY <1>a, <2>1, <2>2, <3>2 DEF ghosts, banGhosts
  <2>4. CASE UNCHANGED cases
    <3>1. Row(v) => Row(v)'
      BY <1>c, <1>d, <2>1, <2>4
    <3> QED BY <1>a, <2>1, <2>2, <3>1 DEF ghosts, banGhosts
  <2>5. CASE DeactivateCase(current) /\ current \notin DOMAIN cases
    BY <2>4, <2>5 DEF DeactivateCase, TypeOK
  <2> QED BY <1>12, <2>3, <2>4, <2>5 DEF RetireLifted
<1>13. CASE Report
  BY <1>a, <1>b, <1>c, <1>13 DEF Report, modVars, ghosts, banGhosts
<1>14. CASE SweepEnds
  BY <1>a, <1>b, <1>c, <1>14 DEF SweepEnds, modVars, ghosts, banGhosts
<1>15. CASE ConnectionLost
  BY <1>a, <1>b, <1>c, <1>15 DEF ConnectionLost, modVars, ghosts, banGhosts
<1>16. ASSUME NEW n \in DOMAIN cases, Lift(n)
       PROVE  Kept(v)'
  <2>1. cases[n] \in Case
    BY DEF TypeOK
  <2>2. cases[n].user \in Users
    BY <2>1 DEF Case
  <2>3. CASE v = cases[n].user
    BY <1>b, <1>16, <2>3 DEF Lift
  <2>4. CASE v # cases[n].user
    <3>1. /\ ban'[v] = ban[v] /\ current' = n
          /\ UNCHANGED <<cases, modVars>>
      BY <1>b, <1>16, <2>4 DEF Lift
    <3>2. n \notin ActiveTempbans(v) /\ ActiveTempbans(v)' = ActiveTempbans(v)
      BY <1>c, <1>d, <2>4, <3>1
    <3>3. Row(v) => Row(v)'
      BY <3>1, <3>2
    <3>4. Handler(v) => Handler(v)'
      BY <3>1 DEF modVars
    <3>5. v \notin (untracked \cup overtaken)' => v \notin untracked \cup overtaken
      BY <1>16, <2>4 DEF Lift, Forget
    <3> QED BY <1>a, <3>1, <3>3, <3>4, <3>5
  <2> QED BY <2>3, <2>4
<1>17. ASSUME NEW n \in DOMAIN cases, SkipCase(n)
       PROVE  Kept(v)'
  BY <1>a, <1>b, <1>c, <1>17 DEF SkipCase, modVars, ghosts, banGhosts
<1>18. ASSUME NEW u \in Users, ManualUnban(u)
       PROVE  Kept(v)'
  BY <1>a, <1>b, <1>c, <1>18 DEF ManualUnban, Forget, modVars, sweepVars
<1>19. CASE Tick
  BY <1>a, <1>b, <1>c, <1>19 DEF Tick, modVars, sweepVars, ghosts, banGhosts
<1>20. CASE Restart
  <2>1. Handler(v) => v \in untracked'
    BY <1>20 DEF Restart
  <2>2. Row(v) => Row(v)'
    BY <1>c, <1>d, <1>20 DEF Restart
  <2> QED BY <1>a, <1>20, <2>1, <2>2 DEF Restart
<1>21. CASE UNCHANGED vars
  BY <1>a, <1>b, <1>c, <1>21 DEF vars, modVars, sweepVars, ghosts, banGhosts
<1> QED BY <1>1, <1>2, <1>3, <1>4, <1>5, <1>6, <1>7, <1>8, <1>9, <1>10, <1>11,
           <1>12, <1>13, <1>14, <1>15, <1>16, <1>17, <1>18, <1>19, <1>20, <1>21
        DEF Next, Command, ModStep, SweepStep

(* What points the sweeper at the member of a fresh ban.                   *)
LEMMA OwnCasePreserved ==
  ASSUME TypeOK, OwnCaseOnly, [Next]_vars
  PROVE  OwnCaseOnly'
<1> DEFINE Rows(v) == \A n \in ActiveTempbans(v) : cases[n].expires = ban[v]
           Batch(v) == \A n \in batch :
             cases[n].user = v => ban[v] \in Nat /\ ban[v] <= clock
           Handlers(v) == \A m \in Mods :
             pc[m] = "recording" /\ user[m] = v => until[m] = ban[v]
           Kept(v) == v \in fresh => Rows(v) /\ Batch(v) /\ Handlers(v)
<1> SUFFICES ASSUME NEW v \in Users
             PROVE  Kept(v)'
  <2>1. fresh' \subseteq Users
    BY ModTyped, OthersTyped DEF TypeOK, Next
  <2> QED BY <2>1 DEF OwnCaseOnly
<1>a. Kept(v)
  BY DEF OwnCaseOnly
<1>b. /\ DOMAIN pc = Mods /\ DOMAIN user = Mods /\ DOMAIN until = Mods
      /\ DOMAIN ban = Users /\ batch \subseteq DOMAIN cases
  BY DEF TypeOK
<1>c. UNCHANGED cases => ActiveTempbans(v)' = ActiveTempbans(v)
  BY DEF ActiveTempbans
<1>d. ActiveTempbans(v) \subseteq DOMAIN cases
  BY DEF ActiveTempbans
<1>e. \A n \in DOMAIN cases : /\ cases'[n].user = cases[n].user
                              /\ cases'[n].expires = cases[n].expires
  BY RowsKeepMember
<1>1. ASSUME NEW m \in Mods, NEW u \in Users, StartUnban(m, u)
      PROVE  Kept(v)'
  BY <1>a, <1>b, <1>c, <1>1 DEF StartUnban, Goto, sweepVars, ghosts, banGhosts
<1>2. ASSUME NEW m \in Mods, NEW u \in Users, NEW e \in Expiry,
             StartBan(m, u, e)
      PROVE  Kept(v)'
  BY <1>a, <1>b, <1>c, <1>2 DEF StartBan, Goto, sweepVars, ghosts, banGhosts
<1>3. ASSUME NEW m \in Mods, GuildBan(m)
      PROVE  Kept(v)'
  <2>1. CASE v = user[m]
    <3>1. v \in fresh' => Undisturbed(m, v)
      BY <1>3, <2>1 DEF GuildBan
    <3>2. Undisturbed(m, v) => Rows(v)' /\ Batch(v)'
      BY <1>c, <1>3, <2>1 DEF GuildBan, Undisturbed, sweepVars
    <3>3. Undisturbed(m, v) => Handlers(v)'
      BY <1>b, <1>3, <2>1 DEF GuildBan, Goto, Undisturbed
    <3> QED BY <3>1, <3>2, <3>3
  <2>2. CASE v # user[m]
    BY <1>a, <1>b, <1>c, <1>3, <2>2 DEF GuildBan, Goto, sweepVars
  <2> QED BY <2>1, <2>2
<1>4. ASSUME NEW m \in Mods, GuildBanFails(m)
      PROVE  Kept(v)'
  BY <1>a, <1>b, <1>c, <1>4
     DEF GuildBanFails, Goto, sweepVars, ghosts, banGhosts
<1>5. ASSUME NEW m \in Mods, RecordBan(m)
      PROVE  Kept(v)'
  <2> DEFINE action == IF until[m] = Never THEN "ban" ELSE "tempban"
  <2>1. /\ user[m] \in Users /\ until[m] \in Expiry
        /\ action \in {"ban", "tempban", "unban"}
    BY DEF TypeOK
  <2>2. /\ UNCHANGED <<ban, user, until, batch, clock, fresh>>
        /\ pc[m] = "recording" /\ pc' = [pc EXCEPT ![m] = "idle"]
    BY <1>5 DEF RecordBan, Goto, sweepVars
  <2>3. Handlers(v) => Handlers(v)'
    BY <1>b, <2>2
  <2>4. Batch(v) => Batch(v)'
    BY <1>b, <1>e, <2>2
  <2>5. CASE AddCase(user[m], action, until[m])
    <3>1. /\ ActiveTempbans(v)' \subseteq
               ActiveTempbans(v) \cup
                 (IF v = user[m] THEN {Len(cases) + 1} ELSE {})
          /\ cases'[Len(cases) + 1].expires = until[m]
      BY <2>1, <2>5, CaseAdded
    <3>2. Rows(v) /\ Handlers(v) => Rows(v)'
      BY <1>d, <1>e, <2>2, <3>1
    <3> QED BY <1>a, <2>2, <2>3, <2>4, <3>2
  <2>6. CASE UNCHANGED cases
    BY <1>a, <1>c, <2>2, <2>3, <2>4, <2>6
  <2> QED BY <1>5, <2>5, <2>6 DEF RecordBan
<1>6. ASSUME NEW m \in Mods, GuildUnban(m)
      PROVE  Kept(v)'
  BY <1>a, <1>b, <1>c, <1>6
     DEF GuildUnban, Goto, Forget, sweepVars, ghosts, banGhosts
<1>7. ASSUME NEW m \in Mods, ListTempbans(m)
      PROVE  Kept(v)'
  BY <1>a, <1>b, <1>c, <1>7 DEF ListTempbans, Goto, sweepVars, banGhosts
<1>8. ASSUME NEW m \in Mods, RetireTempban(m)
      PROVE  Kept(v)'
  <2>1. /\ UNCHANGED <<ban, user, until, batch, clock, fresh>>
        /\ \A o \in Mods : pc'[o] = "recording" => pc[o] = "recording"
    BY <1>b, <1>8 DEF RetireTempban, Goto, sweepVars, banGhosts
  <2>2. Handlers(v) => Handlers(v)'
    BY <1>b, <2>1
  <2>3. Batch(v) => Batch(v)'
    BY <1>b, <1>e, <2>1
  <2>4. ActiveTempbans(v)' \subseteq ActiveTempbans(v)
    <3>1. PICK n \in todo[m] : DeactivateCase(n) \/ UNCHANGED cases
      BY <1>8 DEF RetireTempban
    <3>2. n \in DOMAIN cases
      BY DEF TypeOK
    <3> QED BY <1>c, <3>1, <3>2, CaseRetired
  <2>5. Rows(v) => Rows(v)'
    BY <1>d, <1>e, <2>1, <2>4
  <2> QED BY <1>a, <2>1, <2>2, <2>3, <2>5
<1>9. ASSUME NEW m \in Mods, RetiredAll(m)
      PROVE  Kept(v)'
  BY <1>a, <1>b, <1>c, <1>9 DEF RetiredAll, Goto, sweepVars, ghosts, banGhosts
<1>10. ASSUME NEW m \in Mods, RecordUnban(m)
       PROVE  Kept(v)'
  <2>1. /\ UNCHANGED <<ban, user, until, batch, clock, fresh>>
        /\ \A o \in Mods : pc'[o] = "recording" => pc[o] = "recording"
    BY <1>b, <1>10 DEF RecordUnban, Goto, sweepVars, banGhosts
  <2>2. Handlers(v) => Handlers(v)'
    BY <1>b, <2>1
  <2>3. Batch(v) => Batch(v)'
    BY <1>b, <1>e, <2>1
  <2>4. ActiveTempbans(v)' \subseteq ActiveTempbans(v)
    <3>1. user[m] \in Users /\ Never \in Expiry
      BY DEF TypeOK, Expiry
    <3>2. AddCase(user[m], "unban", Never) => ActiveTempbans(v)' = ActiveTempbans(v)
      BY <3>1, CaseAdded
    <3> QED BY <1>c, <1>10, <3>2 DEF RecordUnban
  <2>5. Rows(v) => Rows(v)'
    BY <1>d, <1>e, <2>1, <2>4
  <2> QED BY <1>a, <2>1, <2>2, <2>3, <2>5
<1>11. CASE Sweep
  <2>1. UNCHANGED <<cases, ban, clock, fresh, pc, user, until>>
    BY <1>11 DEF Sweep, modVars, ghosts, banGhosts
  <2>2. ASSUME NEW n \in DueCases, cases[n].user = v, Rows(v)
        PROVE  ban[v] \in Nat /\ ban[v] <= clock
    <3>1. /\ n \in DOMAIN cases /\ cases[n].expires # Never
          /\ cases[n].expires <= clock /\ n \in ActiveTempbans(v)
      BY <2>2 DEF DueCases, ActiveTempbans
    <3>2. cases[n] \in Case
      BY <3>1 DEF TypeOK
    <3>3. cases[n].expires \in Expiry
      BY <3>2 DEF Case
    <3>4. cases[n].expires \in Nat
      BY <3>1, <3>3, BoundsAssumption DEF Expiry
    <3> QED BY <2>2, <3>1, <3>4
  <2>3. Rows(v) /\ Batch(v) => Batch(v)'
    BY <1>11, <2>1, <2>2 DEF Sweep
  <2> QED BY <1>a, <1>c, <2>1, <2>3
<1>12. CASE RetireLifted
  <2>1. /\ UNCHANGED <<ban, user, until, pc, clock, fresh>>
        /\ batch' \subseteq batch
    BY <1>12 DEF RetireLifted, modVars, ghosts, banGhosts
  <2>2. Handlers(v) => Handlers(v)'
    BY <1>b, <2>1
  <2>3. Batch(v) => Batch(v)'
    BY <1>b, <1>e, <2>1
  <2>4. ActiveTempbans(v)' \subseteq ActiveTempbans(v)
    <3>1. DeactivateCase(current) /\ current \in DOMAIN cases
            => ActiveTempbans(v)' \subseteq ActiveTempbans(v)
      BY CaseRetired
    <3>2. DeactivateCase(current) /\ current \notin DOMAIN cases
            => UNCHANGED cases
      BY DEF DeactivateCase, TypeOK
    <3> QED BY <1>c, <1>12, <3>1, <3>2 DEF RetireLifted
  <2>5. Rows(v) => Rows(v)'
    BY <1>d, <1>e, <2>1, <2>4
  <2> QED BY <1>a, <2>1, <2>2, <2>3, <2>5
<1>13. CASE Report
  BY <1>a, <1>b, <1>c, <1>13 DEF Report, modVars, ghosts, banGhosts
<1>14. CASE SweepEnds
  BY <1>a, <1>b, <1>c, <1>14 DEF SweepEnds, modVars, ghosts, banGhosts
<1>15. CASE ConnectionLost
  BY <1>a, <1>b, <1>c, <1>15 DEF ConnectionLost, modVars, ghosts, banGhosts
<1>16. ASSUME NEW n \in DOMAIN cases, Lift(n)
       PROVE  Kept(v)'
  <2>1. cases[n] \in Case
    BY DEF TypeOK
  <2>2. cases[n].user \in Users
    BY <2>1 DEF Case
  <2> QED BY <1>a, <1>b, <1>c, <1>16, <2>2 DEF Lift, NextCase, Forget, modVars
<1>17. ASSUME NEW n \in DOMAIN cases, SkipCase(n)
       PROVE  Kept(v)'
  BY <1>a, <1>c, <1>17 DEF SkipCase, NextCase, modVars, ghosts, banGhosts
<1>18. ASSUME NEW u \in Users, ManualUnban(u)
       PROVE  Kept(v)'
  BY <1>a, <1>b, <1>c, <1>18 DEF ManualUnban, Forget, modVars, sweepVars
<1>19. CASE Tick
  <2>1. /\ UNCHANGED <<cases, ban, fresh, batch, modVars>>
        /\ clock \in Nat /\ clock' = clock + 1
    BY <1>19, BoundsAssumption DEF Tick, sweepVars, ghosts, banGhosts, TypeOK
  <2>2. Batch(v) => Batch(v)'
    BY <2>1
  <2> QED BY <1>a, <1>c, <2>1, <2>2 DEF modVars
<1>20. CASE Restart
  BY <1>a, <1>b, <1>c, <1>20 DEF Restart
<1>21. CASE UNCHANGED vars
  BY <1>a, <1>b, <1>c, <1>21 DEF vars, modVars, sweepVars, ghosts, banGhosts
<1> QED BY <1>1, <1>2, <1>3, <1>4, <1>5, <1>6, <1>7, <1>8, <1>9, <1>10, <1>11,
           <1>12, <1>13, <1>14, <1>15, <1>16, <1>17, <1>18, <1>19, <1>20, <1>21
        DEF Next, Command, ModStep, SweepStep

-----------------------------------------------------------------------------
LEMMA Initially == Init => IInv
<1> SUFFICES ASSUME Init PROVE IInv
  OBVIOUS
<1>1. TypeOK
  BY InitTyped
<1>2. \A m \in Mods : pc[m] = "idle" /\ todo[m] = {}
  BY DEF Init
<1>3. \A u \in Users : ban[u] = NotBanned /\ NotBanned \notin Nat
  BY SentinelAssumption DEF Init
<1>4. fresh = {}
  BY DEF Init
<1> QED BY <1>1, <1>2, <1>3, <1>4
        DEF IInv, TodoKept, RetiringKept, SeenKept, Tracked, OwnCaseOnly

(* Every step of a handler, the sweeper, the clock or a restart keeps it.  *)
LEMMA Preserved == IInv /\ [Next]_vars => IInv'
<1> SUFFICES ASSUME IInv, [Next]_vars PROVE IInv'
  OBVIOUS
<1>1. TypeOK /\ TodoKept /\ RetiringKept /\ SeenKept /\ Tracked /\ OwnCaseOnly
  BY DEF IInv
<1>2. TypeOK'
  BY <1>1, ModTyped, OthersTyped DEF Next
<1>3. TodoKept'
  BY <1>1, TodoPreserved
<1>4. RetiringKept'
  BY <1>1, RetiringPreserved
<1>5. SeenKept'
  BY <1>1, SeenPreserved
<1>6. Tracked'
  BY <1>1, TrackedPreserved
<1>7. OwnCaseOnly'
  BY <1>1, OwnCasePreserved
<1> QED BY <1>2, <1>3, <1>4, <1>5, <1>6, <1>7 DEF IInv

(* The inductive invariant holds always.                                   *)
THEOREM Invariance == Spec => []IInv
<1>1. Init => IInv
  BY Initially
<1>2. IInv /\ [Next]_vars => IInv'
  BY Preserved
<1> QED BY <1>1, <1>2, PTL DEF Spec

(* A recorded temporary ban in force always has the active case that makes *)
(* the sweeper lift it, unless an /unban overtook it (RecordedBanTracked). *)
THEOREM BansTracked == Spec => []RecordedBanTracked
<1>1. IInv => RecordedBanTracked
  BY DEF IInv, Tracked, CaseAhead, RecordedBanTracked, HasCase
<1> QED BY <1>1, Invariance, PTL

(* When /unban writes its case, no tempban case it saw is left active:     *)
(* that needs its list to be empty by then (UnbanRetiresAll).              *)
THEOREM UnbanComplete == Spec => []UnbanRetiresAll
<1>1. IInv => UnbanRetiresAll
  <2> SUFFICES ASSUME IInv, NEW m \in Mods, pc[m] = "recordunban",
                      NEW n \in ActiveTempbans(user[m])
               PROVE  n > seen[m]
    BY DEF UnbanRetiresAll
  <2>1. todo[m] = {} /\ user[m] \in Users
    BY DEF IInv, TodoKept, TypeOK
  <2> QED BY <2>1 DEF IInv, SeenKept
<1> QED BY <1>1, Invariance, PTL

(* No sweep lifts a fresh ban before its time (FreshBansRespected).        *)
THEOREM FreshBansLast == Spec => FreshBansRespected
<1>1. ASSUME IInv, NEW n \in DOMAIN cases, Lift(n), cases[n].user \in fresh
      PROVE  Elapsed(cases[n].user)
  BY <1>1 DEF IInv, OwnCaseOnly, Lift, NextCase, Elapsed
<1>2. IInv => \A n \in DOMAIN cases :
                Lift(n) /\ cases[n].user \in fresh
                  /\ ban[cases[n].user] # NotBanned => Elapsed(cases[n].user)
  BY <1>1
<1>3. IInv /\ [Next]_vars =>
        [\A n \in DOMAIN cases :
           Lift(n) /\ cases[n].user \in fresh /\ ban[cases[n].user] # NotBanned
             => Elapsed(cases[n].user)]_vars
  BY <1>2
<1> QED BY <1>3, Invariance, PTL DEF Spec, FreshBansRespected
=============================================================================
