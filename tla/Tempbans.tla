------------------------------ MODULE Tempbans ------------------------------
(***************************************************************************)
(* Bans of one guild (src/cogs/moderation.py): the /ban, /tempban and      *)
(* /unban handlers, split at their awaits, beside the background loop that *)
(* lifts temporary bans whose time is up.  Discord holds one ban per       *)
(* member and knows nothing of expiry; the case rows do.  A database write *)
(* is one step (module CaseStore), and may raise.                          *)
(***************************************************************************)
EXTENDS Naturals, Sequences, FiniteSets

CONSTANTS
  Users,          (* members *)
  Mods,           (* coroutines running a moderator's command *)
  NotBanned,      (* Discord has no ban for the member *)
  Never,          (* a ban without end; expires_at IS NULL *)
  MaxTime,        (* bound: the clock runs from 0 to MaxTime *)
  MaxCases,       (* bound on the cases written *)
  MaxFailures     (* bound on the database calls that raise *)

ASSUME UsersAssumption    == Users # {}
ASSUME BoundsAssumption   == {MaxTime, MaxCases, MaxFailures} \subseteq Nat
ASSUME SentinelAssumption == NotBanned # Never /\ {NotBanned, Never} \cap Nat = {}

VARIABLES
  cases,       (* rows of the cases table, by number *)
  ban,         (* ban[u]: when the ban in force is meant to end *)
  clock,       (* time.time() *)
  failures,    (* database calls that have raised *)
  pc, user, until, todo,   (* per handler: where it is, its locals *)
  spc, batch, current,     (* the sweeper: where it is, cases still to do *)
  untracked,   (* history: bans in force whose case was never written *)
  fresh,       (* history: bans placed with no other tempban pending *)
  overtaken,   (* history: bans placed while an /unban was retiring cases *)
  seen         (* history, per /unban: the last case when it listed them *)

modVars   == <<pc, user, until, todo>>
sweepVars == <<spc, batch, current>>
banGhosts == <<untracked, fresh, overtaken>>
ghosts    == <<banGhosts, seen>>
vars == <<cases, ban, clock, failures, modVars, sweepVars, ghosts>>

Expiry == (1..MaxTime) \cup {Never}
Case   == [user : Users, action : {"ban", "tempban", "unban"},
           expires : Expiry, active : BOOLEAN]

Init ==
  /\ cases     = <<>>
  /\ ban       = [u \in Users |-> NotBanned]
  /\ clock     = 0
  /\ failures  = 0
  /\ pc        = [m \in Mods |-> "idle"]
  /\ user      = [m \in Mods |-> CHOOSE u \in Users : TRUE]
  /\ until     = [m \in Mods |-> Never]
  /\ todo      = [m \in Mods |-> {}]
  /\ spc       = "sleeping"
  /\ batch     = {}
  /\ current   = 0
  /\ untracked = {}
  /\ fresh     = {}
  /\ overtaken = {}
  /\ seen      = [m \in Mods |-> 0]

(* get_cases(user_id, TEMPBAN, active_only=True) and due_cases(TEMPBAN). *)
ActiveTempbans(u) ==
  {n \in DOMAIN cases : /\ cases[n].user = u
                        /\ cases[n].action = "tempban"
                        /\ cases[n].active}

(* Fault: retired cases come due again. *)
DueCasesRetiredToo ==
  {n \in DOMAIN cases : /\ cases[n].action = "tempban"
                        /\ cases[n].expires # Never
                        /\ cases[n].expires <= clock}

DueCases ==
  {n \in DOMAIN cases : /\ cases[n].action = "tempban"
                        /\ cases[n].active
                        /\ cases[n].expires # Never
                        /\ cases[n].expires <= clock}

AddCase(u, a, e) ==
  cases' = Append(cases, [user |-> u, action |-> a, expires |-> e,
                          active |-> TRUE])

DeactivateCase(n) == cases' = [cases EXCEPT ![n].active = FALSE]

(* The ban in force is over, and with it what is remembered of it. *)
Forget(u) ==
  /\ untracked' = untracked \ {u}
  /\ fresh'     = fresh \ {u}
  /\ overtaken' = overtaken \ {u}
  /\ UNCHANGED seen

(* The next database call raises; its handler ends there. *)
Raises ==
  /\ failures < MaxFailures
  /\ failures' = failures + 1

Works == UNCHANGED failures

Goto(m, from, to) ==
  /\ pc[m] = from
  /\ pc'   = [pc EXCEPT ![m] = to]

Pending == {m \in Mods : pc[m] # "idle"}
RoomForCase == Len(cases) + Cardinality(Pending) < MaxCases

-----------------------------------------------------------------------------
(* /ban and /tempban: _ban computes the expiry, then bans, then records.   *)
StartBan(m, u, e) ==
  /\ RoomForCase
  /\ e # Never => e > clock
  /\ Goto(m, "idle", "banning")
  /\ user'  = [user EXCEPT ![m] = u]
  /\ until' = [until EXCEPT ![m] = e]
  /\ UNCHANGED <<cases, ban, clock, failures, todo, sweepVars, ghosts>>

(* Does anything but this ban still point the sweeper at the member? *)
Undisturbed(m, u) ==
  /\ ActiveTempbans(u) = {}
  /\ \A n \in batch \cup ({current} \ {0}) : cases[n].user # u
  /\ \A o \in Mods \ {m} : pc[o] = "recording" => user[o] # u

(* Is an /unban between its unban and the last of the cases it retires? *)
Retiring(u) == \E o \in Mods : pc[o] \in {"listing", "retiring"} /\ user[o] = u

GuildBan(m) ==
  LET u == user[m] IN
  /\ Goto(m, "banning", "recording")
  /\ ban' = [ban EXCEPT ![u] = until[m]]
  /\ untracked' = untracked \ {u}
  /\ fresh' = IF Undisturbed(m, u) THEN fresh \cup {u} ELSE fresh \ {u}
  /\ overtaken' = IF Retiring(u) THEN overtaken \cup {u} ELSE overtaken \ {u}
  /\ UNCHANGED <<cases, clock, failures, user, until, todo, sweepVars, seen>>

GuildBanFails(m) ==
  /\ Goto(m, "banning", "idle")
  /\ UNCHANGED <<cases, ban, clock, failures, user, until, todo, sweepVars, ghosts>>

RecordBan(m) ==
  LET action == IF until[m] = Never THEN "ban" ELSE "tempban" IN
  /\ Goto(m, "recording", "idle")
  /\ \/ Works /\ AddCase(user[m], action, until[m]) /\ UNCHANGED untracked
     \/ Raises /\ untracked' = untracked \cup {user[m]} /\ UNCHANGED cases
  /\ UNCHANGED <<ban, clock, user, until, todo, sweepVars, fresh, overtaken, seen>>

-----------------------------------------------------------------------------
(* /unban: lift the ban, retire the member's tempbans, record.             *)
StartUnban(m, u) ==
  /\ RoomForCase
  /\ Goto(m, "idle", "unbanning")
  /\ user' = [user EXCEPT ![m] = u]
  /\ UNCHANGED <<cases, ban, clock, failures, until, todo, sweepVars, ghosts>>

(* guild.unban: done; or NotFound, Forbidden, HTTPException. *)
GuildUnban(m) ==
  LET u == user[m] IN
  /\ \/ /\ ban[u] # NotBanned
        /\ Goto(m, "unbanning", "listing")
        /\ ban' = [ban EXCEPT ![u] = NotBanned]
        /\ Forget(u)
     \/ /\ Goto(m, "unbanning", "idle")
        /\ UNCHANGED <<ban, ghosts>>
  /\ UNCHANGED <<cases, clock, failures, user, until, todo, sweepVars>>

(* Fault: only the latest tempban is looked up. *)
ListLatestTempban(m) ==
  LET all == ActiveTempbans(user[m]) IN
  /\ Works
  /\ Goto(m, "listing", "retiring")
  /\ todo' = [todo EXCEPT ![m] = {n \in all : \A k \in all : k <= n}]
  /\ seen' = [seen EXCEPT ![m] = Len(cases)]
  /\ UNCHANGED <<cases, ban, clock, user, until, sweepVars, banGhosts>>

(* _retire_tempbans: one read, then the cases one by one, newest first. *)
ListTempbans(m) ==
  /\ \/ /\ Works
        /\ Goto(m, "listing", "retiring")
        /\ todo' = [todo EXCEPT ![m] = ActiveTempbans(user[m])]
        /\ seen' = [seen EXCEPT ![m] = Len(cases)]
     \/ Raises /\ Goto(m, "listing", "idle") /\ UNCHANGED <<todo, seen>>
  /\ UNCHANGED <<cases, ban, clock, user, until, sweepVars, banGhosts>>

RetireTempban(m) ==
  /\ \E n \in todo[m] :
       /\ \A k \in todo[m] : k <= n
       /\ \/ /\ Works
             /\ Goto(m, "retiring", "retiring")
             /\ DeactivateCase(n)
             /\ todo' = [todo EXCEPT ![m] = @ \ {n}]
             /\ UNCHANGED seen
          \/ /\ Raises
             /\ Goto(m, "retiring", "idle")
             /\ todo' = [todo EXCEPT ![m] = {}]
             /\ seen' = [seen EXCEPT ![m] = 0]
             /\ UNCHANGED cases
  /\ UNCHANGED <<ban, clock, user, until, sweepVars, banGhosts>>

RetiredAll(m) ==
  /\ todo[m] = {}
  /\ Goto(m, "retiring", "recordunban")
  /\ UNCHANGED <<cases, ban, clock, failures, user, until, todo, sweepVars, ghosts>>

RecordUnban(m) ==
  /\ Goto(m, "recordunban", "idle")
  /\ \/ Works /\ AddCase(user[m], "unban", Never)
     \/ Raises /\ UNCHANGED cases
  /\ seen' = [seen EXCEPT ![m] = 0]
  /\ UNCHANGED <<ban, clock, user, until, todo, sweepVars, banGhosts>>

-----------------------------------------------------------------------------
(* sweep_expired_bans.  tasks.loop calls it again after every normal end;  *)
(* an exception that is not a connection error ends the loop for good.     *)
Sweep ==
  /\ spc = "sleeping"
  /\ \/ Works /\ batch' = DueCases /\ spc' = "next"
     \/ Raises /\ spc' = "dead" /\ UNCHANGED batch
  /\ UNCHANGED <<cases, ban, clock, modVars, current, ghosts>>

(* The next case in order of expiry. *)
NextCase(n) ==
  /\ spc = "next"
  /\ n \in batch
  /\ \A k \in batch : cases[n].expires <= cases[k].expires
  /\ batch' = batch \ {n}

(* Fault: NotFound is skipped like the other errors. *)
LiftOnlyBanned(n) ==
  LET u == cases[n].user IN
  /\ NextCase(n)
  /\ ban[u] # NotBanned
  /\ ban'       = [ban EXCEPT ![u] = NotBanned]
  /\ Forget(u)
  /\ current'   = n
  /\ spc'       = "retire"
  /\ UNCHANGED <<cases, clock, failures, modVars>>

(* The guild is known and the unban goes through, or finds no ban. *)
Lift(n) ==
  LET u == cases[n].user IN
  /\ NextCase(n)
  /\ ban'       = [ban EXCEPT ![u] = NotBanned]
  /\ Forget(u)
  /\ current'   = n
  /\ spc'       = "retire"
  /\ UNCHANGED <<cases, clock, failures, modVars>>

(* Fault: a refused unban falls through to deactivate_case. *)
SkipRetires(n) ==
  /\ NextCase(n)
  /\ current' = n
  /\ spc'     = "retire"
  /\ UNCHANGED <<cases, ban, clock, failures, modVars, ghosts>>

(* `continue': the guild is not there, or Discord refuses. *)
SkipCase(n) ==
  /\ NextCase(n)
  /\ UNCHANGED <<cases, ban, clock, failures, modVars, spc, current, ghosts>>

RetireLifted ==
  /\ spc = "retire"
  /\ current' = 0
  /\ \/ Works /\ DeactivateCase(current) /\ spc' = "report" /\ UNCHANGED batch
     \/ Raises /\ spc' = "dead" /\ batch' = {} /\ UNCHANGED cases
  /\ UNCHANGED <<ban, clock, modVars, ghosts>>

(* modlog.send: swallows Discord's refusals, but it reads the config. *)
Report ==
  /\ spc = "report"
  /\ \/ Works /\ spc' = "next" /\ UNCHANGED batch
     \/ Raises /\ spc' = "dead" /\ batch' = {}
  /\ UNCHANGED <<cases, ban, clock, modVars, current, ghosts>>

(* A connection error is one the loop survives: it begins anew. *)
ConnectionLost ==
  /\ spc \in {"next", "report"}
  /\ batch # {}
  /\ spc'   = "sleeping"
  /\ batch' = {}
  /\ UNCHANGED <<cases, ban, clock, failures, modVars, current, ghosts>>

SweepEnds ==
  /\ spc = "next"
  /\ batch = {}
  /\ spc' = "sleeping"
  /\ UNCHANGED <<cases, ban, clock, failures, modVars, batch, current, ghosts>>

-----------------------------------------------------------------------------
(* Somebody lifts a ban by hand, in Discord. *)
ManualUnban(u) ==
  /\ ban[u] # NotBanned
  /\ ban' = [ban EXCEPT ![u] = NotBanned]
  /\ Forget(u)
  /\ UNCHANGED <<cases, clock, failures, modVars, sweepVars>>

Tick ==
  /\ clock < MaxTime
  /\ clock' = clock + 1
  /\ UNCHANGED <<cases, ban, failures, modVars, sweepVars, ghosts>>

(* The process dies and starts again: cog_load starts a new sweeper. *)
Restart ==
  /\ pc'      = [m \in Mods |-> "idle"]
  /\ todo'    = [m \in Mods |-> {}]
  /\ spc'     = "sleeping"
  /\ batch'   = {}
  /\ current' = 0
  /\ seen'    = [m \in Mods |-> 0]
  /\ untracked' = untracked \cup
                  {user[m] : m \in {o \in Mods : pc[o] = "recording"}}
  /\ UNCHANGED <<cases, ban, clock, failures, user, until, fresh, overtaken>>

Command(m) ==
  \E u \in Users : StartUnban(m, u) \/ \E e \in Expiry : StartBan(m, u, e)

ModStep(m) ==
  \/ GuildBan(m) \/ GuildBanFails(m) \/ RecordBan(m)
  \/ GuildUnban(m) \/ ListTempbans(m) \/ RetireTempban(m) \/ RetiredAll(m)
  \/ RecordUnban(m)

SweepStep ==
  \/ Sweep \/ RetireLifted \/ Report \/ SweepEnds \/ ConnectionLost
  \/ \E n \in DOMAIN cases : Lift(n) \/ SkipCase(n)

Next ==
  \/ \E m \in Mods : Command(m) \/ ModStep(m)
  \/ SweepStep
  \/ \E u \in Users : ManualUnban(u)
  \/ Tick
  \/ Restart

Spec == Init /\ [][Next]_vars

(* The loop runs every minute and its awaits end.  The bot gets to lift a  *)
(* ban it tries to lift again and again (README: "Check that the bot still *)
(* has Ban Members and is still in the server"), and the process does not  *)
(* die between the unban and the retiring of its case every single time.   *)
FairSpec ==
  /\ Spec
  /\ WF_vars(SweepStep)
  /\ SF_vars(RetireLifted)
  /\ \A n \in 1..MaxCases : SF_vars(n \in DOMAIN cases /\ Lift(n))

-----------------------------------------------------------------------------
(* Every variable has its type. *)
TypeOK ==
  /\ cases \in Seq(Case)
  /\ ban \in [Users -> Expiry \cup {NotBanned}]
  /\ clock \in 0..MaxTime
  /\ failures \in 0..MaxFailures
  /\ pc \in [Mods -> {"idle", "banning", "recording", "unbanning", "listing",
                      "retiring", "recordunban"}]
  /\ user \in [Mods -> Users]
  /\ until \in [Mods -> Expiry]
  /\ todo \in [Mods -> SUBSET DOMAIN cases]
  /\ spc \in {"sleeping", "next", "retire", "report", "dead"}
  /\ batch \subseteq DOMAIN cases
  /\ current \in DOMAIN cases \cup {0}
  /\ untracked \subseteq Users
  /\ fresh \subseteq Users
  /\ overtaken \subseteq Users
  /\ seen \in [Mods -> 0..Len(cases)]

Elapsed(u) == ban[u] \in Nat /\ ban[u] <= clock

(* "Cases stay active until the unban succeeds": a temporary ban in force, *)
(* once recorded, has the active case that makes the sweeper lift it.  The *)
(* one exception is a ban placed while another moderator's /unban of that  *)
(* member is still retiring cases: it retires the new one as well.         *)
HasCase(u) ==
  \/ \E m \in Mods : pc[m] = "recording" /\ user[m] = u /\ until[m] = ban[u]
  \/ \E n \in ActiveTempbans(u) : cases[n].expires = ban[u]

RecordedBanTracked ==
  \A u \in Users :
    ban[u] \in Nat /\ u \notin untracked \cup overtaken => HasCase(u)

(* "Stop the sweeper chasing a ban a moderator already lifted": when       *)
(* /unban gets to write its own case, every tempban case that was there    *)
(* when it looked is retired; one that is active came later.               *)
UnbanRetiresAll ==
  \A m \in Mods :
    pc[m] = "recordunban" => \A n \in ActiveTempbans(user[m]) : n > seen[m]

(* A ban placed when no other tempban of the member was pending, stays     *)
(* until its own time: no sweep, however late or long, lifts it early.     *)
FreshBansRespected ==
  [][\A n \in DOMAIN cases :
       Lift(n) /\ cases[n].user \in fresh /\ ban[cases[n].user] # NotBanned
         => Elapsed(cases[n].user)]_vars

(* A due case is retried until it is lifted and retired, over refusals and *)
(* restarts and beside moderators at work on the same member, unless an    *)
(* error of the database ends the loop.                                    *)
Due(n) == n \in DueCases
DueCaseRetired == \A n \in 1..MaxCases : Due(n) ~> (~Due(n) \/ spc = "dead")

(* "A background sweeper unbans on expiry", without that exception: broken *)
(* by the code, whose loop an error of the database ends (README.md).      *)
SweeperSurvives == \A n \in 1..MaxCases : Due(n) ~> ~Due(n)

(* "Lift temporary bans whose duration has elapsed." *)
LiftsOnlyElapsed ==
  [][\A n \in DOMAIN cases :
       Lift(n) /\ ban[cases[n].user] # NotBanned => Elapsed(cases[n].user)]_vars
=============================================================================
