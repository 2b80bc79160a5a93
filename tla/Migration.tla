----------------------------- MODULE Migration -----------------------------
(***************************************************************************)
(* Database.connect bringing a file to the current schema (src/data/db.py).*)
(* executescript runs in autocommit mode, so every statement of            *)
(* BASE_SCHEMA and of MIGRATION_002_CASES is on disk as soon as it has     *)
(* run; the process may die, or a statement raise, between any two, and    *)
(* the next start begins again from what is there.                         *)
(***************************************************************************)
EXTENDS Naturals, Sequences

CONSTANTS
  Guilds,     (* guilds in the file *)
  Users,      (* members warned in them *)
  Columns,    (* bound: the columns added to guild_config, 1..Columns *)
  MaxRows,    (* bound on a guild's old warnings, and on its cases *)
  MaxFaults   (* bound on crashes and on statements that raise by chance *)

ASSUME BoundsAssumption == {Columns, MaxRows, MaxFaults} \subseteq Nat

VARIABLES
  tables,     (* tables of BASE_SCHEMA that exist *)
  columns,    (* columns of version 2 that guild_config has *)
  version,    (* the row of schema_version; 0 when there is none *)
  warnings,   (* version 1's table, per guild in order of id; or Dropped *)
  cases,      (* cases[g][n]: the member of case n *)
  counter,    (* case_counter *)
  pc, step, fresh, current,  (* connect: where it is, its locals *)
  faults,     (* crashes and chance failures so far *)
  history     (* history: the warnings the file held when it was first opened *)

fileVars == <<tables, columns, version, warnings, cases, counter>>
callVars == <<pc, step, fresh, current>>
vars     == <<fileVars, callVars, faults, history>>

Dropped  == [g \in {} |-> <<>>]
NewCols  == 1..Columns
Rows     == UNION {[1..n -> Users] : n \in 0..MaxRows}
NoRows   == [g \in Guilds |-> <<>>]

(* CREATE TABLE IF NOT EXISTS, in the order of BASE_SCHEMA. *)
BaseTables == <<"schema_version", "guild_config", "cases", "case_counter",
                "guild_words", "tickets", "ticket_counter">>

Base(i)  == BaseTables[i]
AllTables == {Base(i) : i \in DOMAIN BaseTables}

(* The statements of MIGRATION_002_CASES. *)
Copy    == Columns + 1
Recount == Columns + 2
Drop    == Columns + 3

(* A file that does not exist yet, or one of version 1. *)
Init ==
  /\ \/ tables = {} /\ version = 0 /\ warnings = Dropped
     \/ /\ tables = {"schema_version", "guild_config", "tickets",
                     "ticket_counter"}
        /\ version = 1
        /\ warnings \in [Guilds -> Rows]
  /\ columns = {}
  /\ cases   = NoRows
  /\ counter = [g \in Guilds |-> 0]
  /\ pc      = "down"
  /\ step    = 0
  /\ fresh   = FALSE
  /\ current = 0
  /\ faults  = 0
  /\ history = warnings

Old(g) == IF g \in DOMAIN warnings THEN warnings[g] ELSE <<>>

Goto(from, to) == pc = from /\ pc' = to

-----------------------------------------------------------------------------
(* connect: does guild_config exist?  Then BASE_SCHEMA. *)
Connect ==
  /\ Goto("down", "base")
  /\ fresh' = ("guild_config" \notin tables)
  /\ step'  = 1
  /\ UNCHANGED <<fileVars, current, faults, history>>

(* Created here, guild_config has all its columns at once. *)
CreateTable ==
  /\ pc = "base"
  /\ step \in DOMAIN BaseTables
  /\ tables'  = tables \cup {Base(step)}
  /\ columns' = IF Base(step) = "guild_config" /\ Base(step) \notin tables
                  THEN NewCols ELSE columns
  /\ step'    = step + 1
  /\ UNCHANGED <<version, warnings, cases, counter, pc, fresh, current,
                 faults, history>>

(* Fault: a freshly created file is migrated like an old one. *)
MigrateFresh ==
  /\ pc = "base"
  /\ step = Len(BaseTables) + 1
  /\ current' = version
  /\ step' = 1
  /\ pc' = IF version < 2 THEN "migrate" ELSE "ready"
  /\ UNCHANGED <<fileVars, fresh, faults, history>>

(* _migrate: a fresh file is stamped, any other compared with the version. *)
Migrate ==
  /\ pc = "base"
  /\ step = Len(BaseTables) + 1
  /\ current' = version
  /\ step' = 1
  /\ pc' = IF fresh THEN "stamp" ELSE IF version < 2 THEN "migrate" ELSE "ready"
  /\ UNCHANGED <<fileVars, fresh, faults, history>>

AddColumn ==
  /\ pc = "migrate"
  /\ step \in NewCols \ columns
  /\ columns' = columns \cup {step}
  /\ step' = step + 1
  /\ UNCHANGED <<tables, version, warnings, cases, counter, pc, fresh,
                 current, faults, history>>

(* One INSERT ... SELECT: number 1, 2, ... within each guild, or nothing.  *)
(* It raises without a warnings table, and on a case number in use.        *)
CanCopy == /\ warnings # Dropped
           /\ \A g \in Guilds : Old(g) # <<>> => cases[g] = <<>>

(* Fault: one case per guild, for want of ROW_NUMBER. *)
CopyFirst ==
  /\ pc = "migrate" /\ step = Copy
  /\ CanCopy
  /\ cases' = [g \in Guilds |-> IF Old(g) = <<>> THEN cases[g]
                                ELSE <<Head(Old(g))>>]
  /\ step' = step + 1
  /\ UNCHANGED <<tables, columns, version, warnings, counter, pc, fresh,
                 current, faults, history>>

CopyWarnings ==
  /\ pc = "migrate" /\ step = Copy
  /\ CanCopy
  /\ cases' = [g \in Guilds |-> IF Old(g) = <<>> THEN cases[g] ELSE Old(g)]
  /\ step' = step + 1
  /\ UNCHANGED <<tables, columns, version, warnings, counter, pc, fresh,
                 current, faults, history>>

(* Fault: the counter is left alone. *)
CountNothing ==
  /\ pc = "migrate" /\ step = Recount
  /\ step' = step + 1
  /\ UNCHANGED <<tables, columns, version, warnings, cases, counter, pc, fresh,
                 current, faults, history>>

CountCases ==
  /\ pc = "migrate" /\ step = Recount
  /\ counter' = [g \in Guilds |-> IF cases[g] = <<>> THEN counter[g]
                                  ELSE Len(cases[g])]
  /\ step' = step + 1
  /\ UNCHANGED <<tables, columns, version, warnings, cases, pc, fresh,
                 current, faults, history>>

DropWarnings ==
  /\ pc = "migrate" /\ step = Drop
  /\ warnings' = Dropped
  /\ Goto("migrate", "stamp")
  /\ UNCHANGED <<tables, columns, version, cases, counter, step, fresh,
                 current, faults, history>>

(* _stamp_version is a transaction. *)
StampVersion ==
  /\ Goto("stamp", "ready")
  /\ version' = 2
  /\ UNCHANGED <<tables, columns, warnings, cases, counter, step, fresh,
                 current, faults, history>>

(* The statement cannot run on this file: connect raises, the bot exits. *)
Refused ==
  /\ pc = "migrate"
  /\ \/ step \in columns
     \/ step = Copy /\ ~CanCopy
  /\ pc' = "down"
  /\ UNCHANGED <<fileVars, step, fresh, current, faults, history>>

-----------------------------------------------------------------------------
(* The bot at work: add_case. *)
AddCase(g, u) ==
  /\ pc = "ready"
  /\ Len(cases[g]) < MaxRows
  /\ counter[g] = Len(cases[g])
  /\ cases'   = [cases EXCEPT ![g] = Append(@, u)]
  /\ counter' = [counter EXCEPT ![g] = @ + 1]
  /\ UNCHANGED <<tables, columns, version, warnings, callVars, faults, history>>

(* The process dies, or a statement raises for want of disk. *)
Fault ==
  /\ pc # "down"
  /\ faults < MaxFaults
  /\ faults' = faults + 1
  /\ pc' = "down"
  /\ UNCHANGED <<fileVars, step, fresh, current, history>>

ConnectStep ==
  \/ Connect \/ CreateTable \/ Migrate \/ AddColumn \/ CopyWarnings
  \/ CountCases \/ DropWarnings \/ StampVersion \/ Refused

Next ==
  \/ ConnectStep
  \/ \E g \in Guilds, u \in Users : AddCase(g, u)
  \/ Fault

Spec == Init /\ [][Next]_vars

(* The bot is started again until it runs, and its awaits end. *)
FairSpec == Spec /\ WF_vars(ConnectStep)

-----------------------------------------------------------------------------
(* Every variable has its type. *)
TypeOK ==
  /\ tables \subseteq AllTables
  /\ columns \subseteq NewCols
  /\ version \in 0..2
  /\ DOMAIN warnings \in {{}, Guilds}
  /\ \A g \in Guilds : Old(g) \in Rows
  /\ cases \in [Guilds -> Rows]
  /\ counter \in [Guilds -> 0..MaxRows]
  /\ pc \in {"down", "base", "migrate", "stamp", "ready"}
  /\ step \in 0..(Drop + Len(BaseTables))
  /\ fresh \in BOOLEAN
  /\ current \in 0..2
  /\ faults \in 0..MaxFaults

(* "v1 warnings become numbered cases; nothing is lost": at every moment,  *)
(* however often the upgrade is interrupted, each old warning is still in  *)
(* its table or is the case of its guild and position.                     *)
NothingLost ==
  \A g \in DOMAIN history :
    \/ warnings = history
    \/ /\ Len(cases[g]) >= Len(history[g])
       /\ SubSeq(cases[g], 1, Len(history[g])) = history[g]

(* A bot that runs has the whole schema, stamped, and numbers its cases    *)
(* from where the migrated ones end.                                       *)
ReadyIsCurrent ==
  pc = "ready" => /\ tables = AllTables
                  /\ columns = NewCols
                  /\ version = 2
                  /\ warnings = Dropped
                  /\ \A g \in Guilds : counter[g] = Len(cases[g])

(* A start that nothing disturbs brings any file up to date: an old one is *)
(* migrated, a new one is not, and the bot runs from then on.              *)
UndisturbedMigrates == [](faults = 0) => <>[](pc = "ready")

(* "The database migrates itself on start": after the last crash, some     *)
(* start brings the file up to date and the bot runs.                      *)
MigratesItself == <>[](pc = "ready")
=============================================================================
