------------------------------- MODULE Cases -------------------------------
(***************************************************************************)
(* The rows of the `cases` table (src/data/db.py, src/data/models.py) and  *)
(* the reads and writes that single SQL statements make on them.  A        *)
(* guild's log is a function from case numbers to cases: the UNIQUE index  *)
(* uq_cases_number (guild_id, number) makes the number a key.              *)
(***************************************************************************)
EXTENDS Naturals, FiniteSets

CONSTANTS
  Guilds,   (* guild ids *)
  Users,    (* member ids *)
  Never,    (* expires_at IS NULL *)
  MaxTime   (* bound: the clock runs from 0 to MaxTime *)

ASSUME GuildsAssumption == Guilds # {}
ASSUME UsersAssumption  == Users # {}
ASSUME NeverAssumption  == Never \notin Nat
ASSUME TimeAssumption   == MaxTime \in Nat

(* Only warnings are counted; every other CaseAction is "other" here. *)
CaseActions == {"warn", "other"}

Instants == 0..MaxTime

(* An expiry past the last instant is one that does not come due. *)
Expiry == (1..(MaxTime + 1)) \cup {Never}

Case == [user    : Users,
         action  : CaseActions,
         created : Instants,
         expires : Expiry,
         active  : BOOLEAN]

(* A log: entries of S under finitely many numbers. *)
IsLog(log, S) == /\ IsFiniteSet(DOMAIN log)
                 /\ DOMAIN log \subseteq Nat
                 /\ log \in [DOMAIN log -> S]

EmptyLog == [n \in {} |-> 0]

(* The WHERE clause shared by add_case and count_active_warnings. *)
CountsToward(case, u, now) ==
  /\ case.user = u
  /\ case.action = "warn"
  /\ case.active
  /\ case.expires = Never \/ case.expires > now

WarningsOf(log, u, now) ==
  {n \in DOMAIN log : CountsToward(log[n], u, now)}

ActiveWarnings(log, u, now) == Cardinality(WarningsOf(log, u, now))

(* Warnings clear_warnings touches: active ones, expired or not. *)
ClearableOf(log, u) ==
  {n \in DOMAIN log : /\ log[n].user = u
                      /\ log[n].action = "warn"
                      /\ log[n].active}

(* INSERT of a row under a number not yet in use. *)
Inserted(log, n, case) ==
  [m \in DOMAIN log \cup {n} |-> IF m = n THEN case ELSE log[m]]

(* UPDATE cases SET active = 0 on the rows of S. *)
Deactivated(log, S) ==
  [n \in DOMAIN log |->
     IF n \in S THEN [log[n] EXCEPT !.active = FALSE] ELSE log[n]]
=============================================================================
