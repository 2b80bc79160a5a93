----------------------------- MODULE CaseStore -----------------------------
(***************************************************************************)
(* The write path of src/data/db.py for cases, one action per SQL          *)
(* statement: every `await` on the shared aiosqlite connection is a point  *)
(* where another coroutine may run.  One connection means one transaction  *)
(* at a time, and reads that do not take _write_lock see its uncommitted   *)
(* rows.  `counter' and `cases' are what the connection sees, `durCounter' *)
(* and `durCases' what the last COMMIT left on disk.                       *)
(***************************************************************************)
EXTENDS Cases, Sequences

CONSTANTS
  Clients,   (* coroutines that call the Database *)
  Free,      (* _write_lock is not held *)
  MaxCases   (* bound on the cases of a guild *)

ASSUME FreeAssumption  == Free \notin Clients
ASSUME BoundAssumption == MaxCases \in Nat

VARIABLES
  counter, cases,         (* case_counter and cases, seen by the connection *)
  durCounter, durCases,   (* the same, as last committed *)
  inTx,                   (* the connection is between BEGIN and its end *)
  lock, waiters,          (* Database._write_lock: holder and FIFO queue *)
  pc,                     (* where each coroutine is suspended *)
  task,                   (* its arguments and locals *)
  clock,                  (* time.time() *)
  told                    (* history: totals returned by add_case *)

dbVars  == <<counter, cases>>
durVars == <<durCounter, durCases, told>>
vars    == <<counter, cases, durCounter, durCases, inTx, lock, waiters,
             pc, task, clock, told>>

(* begin: waiting for, or holding, the lock and not yet in a transaction. *)
StatementPCs == {"bump", "number", "insert", "count", "update"}
TxPCs        == StatementPCs \cup {"commit", "rollback"}
PCs          == TxPCs \cup {"idle", "looked", "begin"}

Task == [op      : {"none", "add", "retire", "clear"},
         guild   : Guilds,
         user    : Users,
         action  : CaseActions,
         now     : Instants,
         expires : Expiry,
         number  : Nat,
         total   : Nat]

NoTask == [op |-> "none", guild |-> CHOOSE g \in Guilds : TRUE,
           user |-> CHOOSE u \in Users : TRUE, action |-> "other",
           now |-> 0, expires |-> Never, number |-> 0, total |-> 0]

Init ==
  /\ counter    = [g \in Guilds |-> 0]
  /\ cases      = [g \in Guilds |-> EmptyLog]
  /\ durCounter = [g \in Guilds |-> 0]
  /\ durCases   = [g \in Guilds |-> EmptyLog]
  /\ inTx       = FALSE
  /\ lock       = Free
  /\ waiters    = <<>>
  /\ pc         = [c \in Clients |-> "idle"]
  /\ task       = [c \in Clients |-> NoTask]
  /\ clock      = 0
  /\ told       = [g \in Guilds |-> EmptyLog]

-----------------------------------------------------------------------------
(* Fault: the latest waiter is served first. *)
AcquireLifo(c) ==
  IF lock = Free
    THEN lock' = c /\ UNCHANGED waiters
    ELSE waiters' = <<c>> \o waiters /\ UNCHANGED lock

(* `async with self._write_lock': asyncio.Lock serves waiters in order.    *)
Acquire(c) ==
  IF lock = Free
    THEN lock' = c /\ UNCHANGED waiters
    ELSE waiters' = Append(waiters, c) /\ UNCHANGED lock

Release(c) ==
  /\ lock'    = IF waiters = <<>> THEN Free ELSE Head(waiters)
  /\ waiters' = IF waiters = <<>> THEN <<>> ELSE Tail(waiters)
  /\ pc'      = [pc EXCEPT ![c] = "idle"]
  /\ task'    = [task EXCEPT ![c] = NoTask]

Goto(c, from, to) ==
  /\ pc[c] = from
  /\ pc'   = [pc EXCEPT ![c] = to]

(* Calls of add_case under way: they and the cases made stay in MaxCases. *)
Adding(g) == {c \in Clients : task[c].op = "add" /\ task[c].guild = g}

(* add_case up to the lock: the clock is read before waiting for it. *)
AddCase(c, g, u, a, e) ==
  /\ durCounter[g] + Cardinality(Adding(g)) < MaxCases
  /\ e # Never => e > clock
  /\ Goto(c, "idle", "begin")
  /\ task' = [task EXCEPT ![c] =
                [NoTask EXCEPT !.op = "add", !.guild = g, !.user = u,
                               !.action = a, !.now = clock, !.expires = e]]
  /\ Acquire(c)
  /\ UNCHANGED <<dbVars, durVars, inTx, clock>>

(* deactivate_case, its get_case: a read that does not take the lock and   *)
(* answers from whatever the connection sees.  An absent or retired case   *)
(* ends the call here, with nothing changed.                               *)
DeactivateCase(c, g, n) ==
  /\ n \in DOMAIN cases[g] /\ cases[g][n].active
  /\ Goto(c, "idle", "looked")
  /\ task' = [task EXCEPT ![c] =
                [NoTask EXCEPT !.op = "retire", !.guild = g, !.number = n]]
  /\ UNCHANGED <<dbVars, durVars, inTx, lock, waiters, clock>>

(* ... and its transaction, entered when the coroutine is resumed. *)
Looked(c) ==
  /\ Goto(c, "looked", "begin")
  /\ Acquire(c)
  /\ UNCHANGED <<dbVars, durVars, inTx, task, clock>>

ClearWarnings(c, g, u) ==
  /\ Goto(c, "idle", "begin")
  /\ task' = [task EXCEPT ![c] =
                [NoTask EXCEPT !.op = "clear", !.guild = g, !.user = u]]
  /\ Acquire(c)
  /\ UNCHANGED <<dbVars, durVars, inTx, clock>>

-----------------------------------------------------------------------------
(* Faults: BEGIN without the lock; BEGIN inside another's transaction. *)
BeginUnlocked(c) ==
  /\ ~inTx
  /\ inTx' = TRUE
  /\ Goto(c, "begin", IF task[c].op = "add" THEN "bump" ELSE "update")
  /\ UNCHANGED <<dbVars, durVars, lock, waiters, task, clock>>

BeginNested(c) ==
  /\ inTx' = TRUE
  /\ Goto(c, "begin", IF task[c].op = "add" THEN "bump" ELSE "update")
  /\ UNCHANGED <<dbVars, durVars, lock, waiters, task, clock>>

(* transaction(): BEGIN IMMEDIATE, outside the try.  It fails inside an    *)
(* open transaction, and when another process keeps the file locked.       *)
Begin(c) ==
  /\ lock = c
  /\ ~inTx
  /\ inTx' = TRUE
  /\ Goto(c, "begin", IF task[c].op = "add" THEN "bump" ELSE "update")
  /\ UNCHANGED <<dbVars, durVars, lock, waiters, task, clock>>

(* Fault: the lock is not released when BEGIN raises. *)
BeginFailsHolding(c) ==
  /\ lock = c
  /\ pc[c] = "begin"
  /\ pc'   = [pc EXCEPT ![c] = "idle"]
  /\ task' = [task EXCEPT ![c] = NoTask]
  /\ UNCHANGED <<dbVars, durVars, inTx, lock, waiters, clock>>

BeginFails(c) ==
  /\ lock = c
  /\ pc[c] = "begin"
  /\ Release(c)
  /\ UNCHANGED <<dbVars, durVars, inTx, clock>>

(* add_case, statement by statement. *)
BumpCounter(c) ==
  LET g == task[c].guild IN
  /\ Goto(c, "bump", "number")
  /\ counter' = [counter EXCEPT ![g] = @ + 1]
  /\ UNCHANGED <<cases, durVars, inTx, lock, waiters, task, clock>>

ReadNumber(c) ==
  /\ Goto(c, "number", "insert")
  /\ task' = [task EXCEPT ![c].number = counter[task[c].guild]]
  /\ UNCHANGED <<dbVars, durVars, inTx, lock, waiters, clock>>

NewCase(t) == [user |-> t.user, action |-> t.action, created |-> t.now,
               expires |-> t.expires, active |-> TRUE]

InsertCase(c) ==
  LET t == task[c] IN
  /\ t.number \notin DOMAIN cases[t.guild]
  /\ Goto(c, "insert", "count")
  /\ cases' = [cases EXCEPT ![t.guild] = Inserted(@, t.number, NewCase(t))]
  /\ UNCHANGED <<counter, durVars, inTx, lock, waiters, task, clock>>

CountWarnings(c) ==
  LET t == task[c] IN
  /\ Goto(c, "count", "commit")
  /\ task' = [task EXCEPT ![c].total =
                ActiveWarnings(cases[t.guild], t.user, t.now)]
  /\ UNCHANGED <<dbVars, durVars, inTx, lock, waiters, clock>>

(* Fault: the UPDATE lost its WHERE number = ?. *)
UpdateEveryRow(c) ==
  LET g == task[c].guild IN
  /\ Goto(c, "update", "commit")
  /\ cases' = [cases EXCEPT ![g] = Deactivated(@, DOMAIN @)]
  /\ UNCHANGED <<counter, durVars, inTx, lock, waiters, task, clock>>

(* The one UPDATE of deactivate_case and of clear_warnings. *)
Update(c) ==
  LET t == task[c]
      S == IF t.op = "retire" THEN {t.number}
                              ELSE ClearableOf(cases[t.guild], t.user)
  IN  /\ Goto(c, "update", "commit")
      /\ cases' = [cases EXCEPT ![t.guild] = Deactivated(@, S)]
      /\ UNCHANGED <<counter, durVars, inTx, lock, waiters, task, clock>>

(* Any statement may raise; a duplicate case number always does. *)
StatementFails(c) ==
  /\ pc[c] \in StatementPCs
  /\ pc' = [pc EXCEPT ![c] = "rollback"]
  /\ UNCHANGED <<dbVars, durVars, inTx, lock, waiters, task, clock>>

(* Fault: the number of a case that was never made stays used. *)
RollbackKeepsNumber(c) ==
  /\ pc[c] = "rollback"
  /\ cases' = durCases
  /\ inTx'  = FALSE
  /\ Release(c)
  /\ UNCHANGED <<counter, durVars, clock>>

Rollback(c) ==
  /\ pc[c] = "rollback"
  /\ counter' = durCounter
  /\ cases'   = durCases
  /\ inTx'    = FALSE
  /\ Release(c)
  /\ UNCHANGED <<durVars, clock>>

Commit(c) ==
  LET t == task[c] IN
  /\ pc[c] = "commit"
  /\ durCounter' = counter
  /\ durCases'   = cases
  /\ told' = IF t.op = "add"
               THEN [told EXCEPT ![t.guild] = Inserted(@, t.number, t.total)]
               ELSE told
  /\ inTx' = FALSE
  /\ Release(c)
  /\ UNCHANGED <<dbVars, clock>>

(* commit() is outside the try: when it raises nothing rolls back.  SQLite *)
(* itself either has rolled back or keeps the transaction open.            *)
CommitFails(c) ==
  /\ pc[c] = "commit"
  /\ \/ UNCHANGED <<dbVars, inTx>>
     \/ counter' = durCounter /\ cases' = durCases /\ inTx' = FALSE
  /\ Release(c)
  /\ UNCHANGED <<durVars, clock>>

-----------------------------------------------------------------------------
(* The process dies and is started again. *)
Crash ==
  /\ counter' = durCounter
  /\ cases'   = durCases
  /\ inTx'    = FALSE
  /\ lock'    = Free
  /\ waiters' = <<>>
  /\ pc'      = [c \in Clients |-> "idle"]
  /\ task'    = [c \in Clients |-> NoTask]
  /\ UNCHANGED <<durVars, clock>>

Tick ==
  /\ clock < MaxTime
  /\ clock' = clock + 1
  /\ UNCHANGED <<dbVars, durVars, inTx, lock, waiters, pc, task>>

Call(c) ==
  \E g \in Guilds :
    \/ \E u \in Users, a \in CaseActions, e \in Expiry : AddCase(c, g, u, a, e)
    \/ \E n \in DOMAIN cases[g] : DeactivateCase(c, g, n)
    \/ \E u \in Users : ClearWarnings(c, g, u)

Step(c) ==
  \/ Looked(c)
  \/ Begin(c) \/ BeginFails(c)
  \/ BumpCounter(c) \/ ReadNumber(c) \/ InsertCase(c) \/ CountWarnings(c)
  \/ Update(c) \/ StatementFails(c) \/ Rollback(c)
  \/ Commit(c) \/ CommitFails(c)

Next ==
  \/ \E c \in Clients : Call(c) \/ Step(c)
  \/ Crash
  \/ Tick

Spec == Init /\ [][Next]_vars

-----------------------------------------------------------------------------
(* Every variable has its type. *)
TypeOK ==
  /\ counter    \in [Guilds -> Nat]
  /\ durCounter \in [Guilds -> Nat]
  /\ \A g \in Guilds : /\ IsLog(cases[g], Case)
                        /\ IsLog(durCases[g], Case)
                        /\ IsLog(told[g], Nat)
  /\ cases    = [g \in Guilds |-> cases[g]]
  /\ durCases = [g \in Guilds |-> durCases[g]]
  /\ told     = [g \in Guilds |-> told[g]]
  /\ inTx \in BOOLEAN
  /\ lock \in Clients \cup {Free}
  /\ waiters \in Seq(Clients)
  /\ pc \in [Clients -> PCs]
  /\ task \in [Clients -> Task]
  /\ clock \in Instants

(* One coroutine at a time is inside transaction(), it is the one holding  *)
(* the lock, and the connection is in a transaction all that time: no      *)
(* commit() can land in the middle of another coroutine's statements.      *)
OneTransaction ==
  \A c \in Clients : pc[c] \in TxPCs => lock = c /\ inTx

(* Rows that differ from the file exist only while a transaction is open,  *)
(* and the file only ever holds whole operations: every guild's cases are  *)
(* numbered 1, 2, ... up to its counter, with no gap and no number used    *)
(* twice, whatever rolled back, failed to commit or died in between.       *)
NumbersContiguous ==
  /\ \A g \in Guilds : DOMAIN durCases[g] = 1..durCounter[g]
  /\ ~inTx => counter = durCounter /\ cases = durCases

(* "two concurrent warns can't both report the same total": the total      *)
(* add_case is about to return counts the rows it is about to commit.      *)
(* Nobody adds, retires or clears a warning between its COUNT and its      *)
(* COMMIT, however long the statements take.                               *)
TotalStillTrue ==
  \A c \in Clients :
    pc[c] = "commit" /\ task[c].op = "add" =>
      task[c].total =
        ActiveWarnings(cases[task[c].guild], task[c].user, task[c].now)

(* Case numbers follow the clock: the time is read before the wait for     *)
(* the lock, and the lock's queue is first in, first out.                  *)
CreatedInOrder ==
  \A g \in Guilds : \A m, n \in DOMAIN durCases[g] :
    m < n => durCases[g][m].created <= durCases[g][n].created

(* Every operation is one atomic step of the ledger, or none of it is. *)
Ledger == INSTANCE CaseLedger WITH last <- durCounter, ledger <- durCases
ImplementsLedger == Ledger!LedgerSpec

(* No writer is left waiting: whatever raised, the write lock is held by a *)
(* call that still has a statement under way, every call that wants it     *)
(* holds it or is queued for it once, and nobody queues at a free lock.    *)
WritersServed ==
  /\ lock # Free => pc[lock] \in TxPCs \cup {"begin"}
  /\ lock = Free => waiters = <<>>
  /\ \A c \in Clients :
       pc[c] = "begin" =>
         Cardinality({i \in DOMAIN waiters : waiters[i] = c}) =
           (IF lock = c THEN 0 ELSE 1)

(* deactivate_case returns "None if absent or already retired": a caller   *)
(* that is about to be handed the case is the one that retired it.  The    *)
(* code breaks this: it looks before it asks for the lock (README.md).     *)
RetiredByOneCaller ==
  \A c \in Clients :
    /\ pc[c] = "commit" /\ task[c].op = "retire"
    /\ task[c].number \in DOMAIN durCases[task[c].guild]
    => durCases[task[c].guild][task[c].number].active
=============================================================================
