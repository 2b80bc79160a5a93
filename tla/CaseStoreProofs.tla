-------------------------- MODULE CaseStoreProofs --------------------------
(***************************************************************************)
(* Theorems about CaseStore, for any sets of guilds, members and           *)
(* coroutines.  The inductive invariant adds to the checked invariants     *)
(* what a transaction has done so far to the committed state (Progress)    *)
(* and which operation its statements belong to (Operations).  A second    *)
(* one, QInv, is about the queue of the write lock and the times at which  *)
(* the calls in it were made.                                              *)
(***************************************************************************)
EXTENDS CaseStore, TLAPS, FiniteSetTheorems

(* A statement only runs for the operation it is part of. *)
OperationOf(c) ==
  /\ pc[c] = "looked" => task[c].op = "retire"
  /\ pc[c] \in {"begin", "commit"} => task[c].op \in {"add", "retire", "clear"}
  /\ pc[c] \in {"bump", "number", "insert", "count"} => task[c].op = "add"
  /\ pc[c] = "update" => task[c].op \in {"retire", "clear"}

Operations == \A c \in Clients : OperationOf(c)

Bumped(c)  == [durCounter EXCEPT ![task[c].guild] = @ + 1]
NextNum(c) == durCounter[task[c].guild] + 1
WithNew(c) == [durCases EXCEPT ![task[c].guild] =
                 Inserted(@, NextNum(c), NewCase(task[c]))]
Targets(c) == IF task[c].op = "retire"
                THEN {task[c].number}
                ELSE ClearableOf(durCases[task[c].guild], task[c].user)
Updated(c) == [durCases EXCEPT ![task[c].guild] = Deactivated(@, Targets(c))]

(* Before its first write a transaction sees the committed state; after    *)
(* each statement, that state with exactly its own writes.                 *)
ProgressOf(c) ==
  /\ pc[c] \in {"bump", "update"} => counter = durCounter /\ cases = durCases
  /\ pc[c] \in {"number", "insert"} => counter = Bumped(c) /\ cases = durCases
  /\ pc[c] = "insert" => task[c].number = NextNum(c)
  /\ pc[c] = "count" \/ (pc[c] = "commit" /\ task[c].op = "add") =>
       /\ counter = Bumped(c)
       /\ cases = WithNew(c)
       /\ task[c].number = NextNum(c)
  /\ pc[c] = "commit" /\ task[c].op = "add" =>
       task[c].total =
         ActiveWarnings(cases[task[c].guild], task[c].user, task[c].now)
  /\ pc[c] = "commit" /\ task[c].op # "add" =>
       counter = durCounter /\ cases = Updated(c)

Progress == \A c \in Clients : ProgressOf(c)

IInv == /\ TypeOK
        /\ OneTransaction
        /\ NumbersContiguous
        /\ Operations
        /\ Progress

-----------------------------------------------------------------------------
(* The blank task is a task. *)
LEMMA NoTaskType == NoTask \in Task
  BY GuildsAssumption, UsersAssumption, TimeAssumption
     DEF NoTask, Task, Instants, Expiry, CaseActions

(* An insert under a natural number keeps a log a log. *)
LEMMA InsertedLog ==
  ASSUME NEW S, NEW log, IsLog(log, S), NEW n \in Nat, NEW x \in S
  PROVE  /\ IsLog(Inserted(log, n, x), S)
         /\ DOMAIN Inserted(log, n, x) = DOMAIN log \cup {n}
  <1>1. DOMAIN Inserted(log, n, x) = DOMAIN log \cup {n}
    BY DEF Inserted
  <1>2. IsFiniteSet(DOMAIN log \cup {n})
    BY FS_AddElement DEF IsLog
  <1>3. Inserted(log, n, x) \in [DOMAIN log \cup {n} -> S]
    BY DEF Inserted, IsLog
  <1> QED
    BY <1>1, <1>2, <1>3 DEF IsLog

(* Retiring cases keeps a log of cases a log of cases, with its numbers. *)
LEMMA DeactivatedLog ==
  ASSUME NEW log, IsLog(log, Case), NEW S
  PROVE  /\ IsLog(Deactivated(log, S), Case)
         /\ DOMAIN Deactivated(log, S) = DOMAIN log
  <1>1. DOMAIN Deactivated(log, S) = DOMAIN log
    BY DEF Deactivated
  <1>2. ASSUME NEW n \in DOMAIN log
        PROVE  Deactivated(log, S)[n] \in Case
    BY DEF Deactivated, IsLog, Case
  <1>3. Deactivated(log, S) \in [DOMAIN log -> Case]
    BY <1>2 DEF Deactivated
  <1> QED
    BY <1>1, <1>3 DEF IsLog

(* The number of warnings that count is a natural number. *)
LEMMA ActiveWarningsType ==
  ASSUME NEW log, IsLog(log, Case), NEW u, NEW now
  PROVE  ActiveWarnings(log, u, now) \in Nat
  <1>1. WarningsOf(log, u, now) \subseteq DOMAIN log
    BY DEF WarningsOf
  <1>2. IsFiniteSet(WarningsOf(log, u, now))
    BY <1>1, FS_Subset DEF IsLog
  <1> QED
    BY <1>2, FS_CardinalityType DEF ActiveWarnings

(* Leaving transaction() leaves the lock variables well typed and the      *)
(* caller idle; nobody else moves.                                         *)
LEMMA ReleaseType ==
  ASSUME TypeOK, NEW c \in Clients, Release(c)
  PROVE  /\ lock' \in Clients \cup {Free}
         /\ waiters' \in Seq(Clients)
         /\ pc' \in [Clients -> PCs]
         /\ task' \in [Clients -> Task]
         /\ pc'[c] = "idle"
         /\ \A d \in Clients \ {c} : pc'[d] = pc[d] /\ task'[d] = task[d]
  <1>1. CASE waiters = <<>>
    BY <1>1, NoTaskType DEF TypeOK, Release, PCs
  <1>2. CASE waiters # <<>>
    <2>1. Head(waiters) \in Clients /\ Tail(waiters) \in Seq(Clients)
      BY <1>2 DEF TypeOK
    <2> QED
      BY <1>2, <2>1, NoTaskType DEF TypeOK, Release, PCs
  <1> QED
    BY <1>1, <1>2

(* Asking for the lock keeps its variables well typed, and a held lock     *)
(* stays with its holder.                                                  *)
LEMMA AcquireType ==
  ASSUME TypeOK, NEW c \in Clients, Acquire(c)
  PROVE  /\ lock' \in Clients \cup {Free}
         /\ waiters' \in Seq(Clients)
         /\ lock # Free => lock' = lock
  <1>1. CASE lock = Free
    BY <1>1 DEF TypeOK, Acquire
  <1>2. CASE lock # Free
    <2>1. waiters' = Append(waiters, c) /\ lock' = lock
      BY <1>2 DEF Acquire
    <2>2. waiters \in Seq(Clients) /\ lock \in Clients \cup {Free}
      BY DEF TypeOK
    <2> QED
      BY <2>1, <2>2
  <1> QED
    BY <1>1, <1>2

-----------------------------------------------------------------------------
(* The initial state satisfies the inductive invariant. *)
LEMMA InitIInv == Init => IInv
  <1> SUFFICES ASSUME Init PROVE IInv
    OBVIOUS
  <1>1. IsLog(EmptyLog, Case) /\ IsLog(EmptyLog, Nat) /\ DOMAIN EmptyLog = {}
    BY FS_EmptySet DEF IsLog, EmptyLog
  <1>2. TypeOK
    <2>1. /\ pc \in [Clients -> PCs]
          /\ task \in [Clients -> Task]
          /\ waiters \in Seq(Clients)
          /\ clock \in Instants
      BY NoTaskType, TimeAssumption DEF Init, PCs, Instants
    <2>2. /\ \A g \in Guilds : /\ IsLog(cases[g], Case)
                              /\ IsLog(durCases[g], Case)
                              /\ IsLog(told[g], Nat)
          /\ cases    = [g \in Guilds |-> cases[g]]
          /\ durCases = [g \in Guilds |-> durCases[g]]
          /\ told     = [g \in Guilds |-> told[g]]
      BY <1>1 DEF Init
    <2> QED
      BY <2>1, <2>2 DEF Init, TypeOK
  <1>3. OneTransaction /\ Operations /\ Progress
    BY DEF Init, OneTransaction, Operations, OperationOf, Progress, ProgressOf, TxPCs,
           StatementPCs
  <1>4. NumbersContiguous
    BY <1>1 DEF Init, NumbersContiguous
  <1> QED
    BY <1>2, <1>3, <1>4 DEF IInv

-----------------------------------------------------------------------------
(* Whoever is inside a transaction is there alone. *)
LEMMA Alone ==
  ASSUME OneTransaction, NEW c \in Clients, pc[c] \in TxPCs
  PROVE  /\ lock = c /\ inTx
         /\ \A d \in Clients \ {c} : pc[d] \notin TxPCs
  BY DEF OneTransaction

(* A coroutine that moves outside the transaction, takes nobody's lock and *)
(* writes nothing disturbs no part of the invariant.                       *)
LEMMA OutsideStep ==
  ASSUME IInv, TypeOK', NEW c \in Clients,
         UNCHANGED <<counter, cases, durCounter, durCases, told, inTx>>,
         pc'[c] \notin TxPCs, OperationOf(c)',
         \A d \in Clients \ {c} : /\ pc'[d] = pc[d] /\ task'[d] = task[d]
                                  /\ lock = d => lock' = d
  PROVE  IInv'
  <1> USE DEF TxPCs, StatementPCs
  <1>1. OneTransaction'
    BY DEF IInv, OneTransaction
  <1>2. NumbersContiguous'
    BY DEF IInv, NumbersContiguous
  <1>3. Operations'
    BY DEF IInv, Operations, OperationOf
  <1>4. Progress'
    <2> SUFFICES ASSUME NEW d \in Clients \ {c}
                 PROVE  ProgressOf(d)'
      BY DEF Progress, ProgressOf
    <2> QED
      BY DEF IInv, Progress, ProgressOf, Bumped, WithNew, NextNum, Updated,
             Targets
  <1> QED
    BY <1>1, <1>2, <1>3, <1>4 DEF IInv

(* A statement inside the transaction: the rest of the invariant follows   *)
(* once the coroutine's own operation and progress do.                     *)
LEMMA InsideStep ==
  ASSUME IInv, TypeOK', NEW c \in Clients,
         pc[c] \in TxPCs, pc'[c] \in TxPCs,
         UNCHANGED <<durCounter, durCases, told, inTx, lock>>,
         \A d \in Clients \ {c} : pc'[d] = pc[d] /\ task'[d] = task[d],
         OperationOf(c)', ProgressOf(c)'
  PROVE  IInv'
  <1>1. /\ lock = c /\ inTx
        /\ \A d \in Clients \ {c} : pc[d] \notin TxPCs
    BY Alone DEF IInv
  <1>2. OneTransaction' /\ Operations'
    BY <1>1 DEF IInv, OneTransaction, Operations, OperationOf, TxPCs,
                StatementPCs
  <1>3. NumbersContiguous'
    BY <1>1 DEF IInv, NumbersContiguous
  <1>4. Progress'
    BY <1>1 DEF Progress, ProgressOf, TxPCs, StatementPCs
  <1> QED
    BY <1>2, <1>3, <1>4 DEF IInv

(* The end of a transaction leaves nobody inside one. *)
LEMMA EndStep ==
  ASSUME IInv, TypeOK', NumbersContiguous', NEW c \in Clients,
         pc[c] \in TxPCs, pc'[c] = "idle",
         \A d \in Clients \ {c} : pc'[d] = pc[d] /\ task'[d] = task[d]
  PROVE  IInv'
  <1>1. \A d \in Clients : pc'[d] \notin TxPCs
    BY Alone DEF IInv, TxPCs, StatementPCs
  <1>2. OneTransaction' /\ Progress'
    BY <1>1 DEF OneTransaction, Progress, ProgressOf, TxPCs, StatementPCs
  <1>3. Operations'
    BY DEF IInv, Operations, OperationOf
  <1> QED
    BY <1>2, <1>3 DEF IInv

-----------------------------------------------------------------------------
(* The calls: what happens before the transaction. *)
LEMMA CallIInv ==
  ASSUME IInv, NEW c \in Clients, Call(c) \/ Looked(c)
  PROVE  IInv'
  <1> USE DEF IInv, Goto, dbVars, durVars
  <1>1. ASSUME NEW g \in Guilds, NEW u \in Users, NEW a \in CaseActions,
               NEW e \in Expiry, AddCase(c, g, u, a, e)
        PROVE  IInv'
    <2>1. [NoTask EXCEPT !.op = "add", !.guild = g, !.user = u,
                         !.action = a, !.now = clock, !.expires = e] \in Task
      BY NoTaskType DEF TypeOK, Task
    <2>2. TypeOK' /\ (lock # Free => lock' = lock)
      BY <1>1, <2>1, AcquireType DEF AddCase, TypeOK, PCs
    <2>3. /\ pc'[c] = "begin"
          /\ \A d \in Clients \ {c} : /\ pc'[d] = pc[d] /\ task'[d] = task[d]
                                   /\ lock = d => lock' = d
          /\ OperationOf(c)'
      BY <1>1, <2>2, FreeAssumption
         DEF AddCase, TypeOK, OperationOf, NoTask
    <2> QED
      BY <1>1, <2>2, <2>3, OutsideStep DEF AddCase, TxPCs, StatementPCs
  <1>2. ASSUME NEW g \in Guilds, NEW n \in DOMAIN cases[g],
               DeactivateCase(c, g, n)
        PROVE  IInv'
    <2>1. [NoTask EXCEPT !.op = "retire", !.guild = g, !.number = n] \in Task
      BY NoTaskType DEF TypeOK, Task, IsLog
    <2>2. TypeOK'
      BY <1>2, <2>1 DEF DeactivateCase, TypeOK, PCs
    <2> QED
      BY <1>2, <2>2, OutsideStep
         DEF DeactivateCase, TypeOK, TxPCs, StatementPCs, OperationOf, NoTask
  <1>3. ASSUME NEW g \in Guilds, NEW u \in Users, ClearWarnings(c, g, u)
        PROVE  IInv'
    <2>1. [NoTask EXCEPT !.op = "clear", !.guild = g, !.user = u] \in Task
      BY NoTaskType DEF TypeOK, Task
    <2>2. TypeOK' /\ (lock # Free => lock' = lock)
      BY <1>3, <2>1, AcquireType DEF ClearWarnings, TypeOK, PCs
    <2>3. /\ pc'[c] = "begin"
          /\ \A d \in Clients \ {c} : /\ pc'[d] = pc[d] /\ task'[d] = task[d]
                                   /\ lock = d => lock' = d
          /\ OperationOf(c)'
      BY <1>3, <2>2, FreeAssumption
         DEF ClearWarnings, TypeOK, OperationOf, NoTask
    <2> QED
      BY <1>3, <2>2, <2>3, OutsideStep DEF ClearWarnings, TxPCs, StatementPCs
  <1>4. ASSUME Looked(c)
        PROVE  IInv'
    <2>1. TypeOK' /\ (lock # Free => lock' = lock)
      BY <1>4, AcquireType DEF Looked, TypeOK, PCs
    <2>2. /\ pc'[c] = "begin"
          /\ \A d \in Clients \ {c} : /\ pc'[d] = pc[d] /\ task'[d] = task[d]
                                   /\ lock = d => lock' = d
          /\ OperationOf(c)'
      BY <1>4, <2>1, FreeAssumption
         DEF Looked, TypeOK, OperationOf, NoTask, Operations
    <2> QED
      BY <1>4, <2>1, <2>2, OutsideStep DEF Looked, TxPCs, StatementPCs
  <1> QED
    BY <1>1, <1>2, <1>3, <1>4 DEF Call

(* Entering the transaction, or failing to. *)
LEMMA BeginIInv ==
  ASSUME IInv, NEW c \in Clients, Begin(c) \/ BeginFails(c)
  PROVE  IInv'
  <1> USE DEF IInv, dbVars, durVars
  <1>1. CASE BeginFails(c)
    <2>1. /\ pc'[c] = "idle"
          /\ \A d \in Clients \ {c} : pc'[d] = pc[d] /\ task'[d] = task[d]
          /\ TypeOK'
      BY <1>1, ReleaseType DEF BeginFails, TypeOK
    <2> QED
      BY <1>1, <2>1, OutsideStep DEF BeginFails, TxPCs, StatementPCs, OperationOf
  <1>2. CASE Begin(c)
    <2>1. TypeOK'
      BY <1>2 DEF Begin, Goto, TypeOK, PCs, TxPCs, StatementPCs
    <2>2. \A d \in Clients : pc[d] \notin TxPCs
      BY <1>2 DEF OneTransaction, Begin
    <2>3. task[c].op \in {"add", "retire", "clear"}
      BY <1>2 DEF Begin, Goto, Operations, OperationOf
    <2>4. /\ pc'[c] = IF task[c].op = "add" THEN "bump" ELSE "update"
          /\ \A d \in Clients \ {c} : pc'[d] = pc[d] /\ task'[d] = task[d]
          /\ task'[c] = task[c]
      BY <1>2 DEF Begin, Goto, TypeOK
    <2>5. OneTransaction' /\ NumbersContiguous'
      BY <1>2, <2>2, <2>4 DEF OneTransaction, NumbersContiguous, Begin
    <2>6. Operations'
      BY <2>3, <2>4 DEF Operations, OperationOf
    <2>7. counter' = durCounter' /\ cases' = durCases'
      BY <1>2 DEF Begin, NumbersContiguous
    <2>8. Progress'
      BY <2>2, <2>4, <2>7 DEF Progress, ProgressOf, TxPCs, StatementPCs
    <2> QED
      BY <2>1, <2>5, <2>6, <2>8
  <1> QED
    BY <1>1, <1>2

(* The statements of add_case. *)
LEMMA AddIInv ==
  ASSUME IInv, NEW c \in Clients,
         BumpCounter(c) \/ ReadNumber(c) \/ InsertCase(c) \/ CountWarnings(c)
  PROVE  IInv'
  <1> DEFINE t == task[c]
             g == t.guild
  <1>1. /\ t \in Task /\ g \in Guilds /\ durCounter[g] \in Nat
        /\ IsLog(durCases[g], Case) /\ IsLog(cases[g], Case)
        /\ DOMAIN durCases[g] = 1..durCounter[g]
    BY DEF IInv, TypeOK, NumbersContiguous, Task
  <1>2. NewCase(t) \in Case
    BY <1>1 DEF NewCase, Task, Case
  <1>3. CASE BumpCounter(c)
    <2>1. pc[c] = "bump" /\ counter = durCounter /\ cases = durCases
          /\ t.op = "add"
      BY <1>3 DEF IInv, Progress, ProgressOf, BumpCounter, Goto,
                  Operations, OperationOf
    <2>2. TypeOK'
      BY <1>1, <1>3 DEF IInv, TypeOK, BumpCounter, Goto, PCs, TxPCs,
                        StatementPCs, durVars
    <2>3. ProgressOf(c)' /\ OperationOf(c)'
      BY <1>3, <2>1 DEF IInv, TypeOK, BumpCounter, Goto, durVars, ProgressOf,
                        OperationOf, Bumped
    <2> QED
      BY <1>3, <2>1, <2>2, <2>3, InsideStep
         DEF IInv, TypeOK, BumpCounter, Goto, durVars, TxPCs, StatementPCs
  <1>4. CASE ReadNumber(c)
    <2>1. pc[c] = "number" /\ counter = Bumped(c) /\ cases = durCases
          /\ t.op = "add"
      BY <1>4 DEF IInv, Progress, ProgressOf, ReadNumber, Goto,
                  Operations, OperationOf
    <2>2. /\ task' = [task EXCEPT ![c].number = counter[g]]
          /\ counter[g] = NextNum(c) /\ NextNum(c) \in Nat
      BY <1>1, <1>4, <2>1 DEF ReadNumber, Bumped, NextNum, IInv, TypeOK
    <2>3. task' = [task EXCEPT ![c] = [t EXCEPT !.number = NextNum(c)]]
      BY <2>2 DEF IInv, TypeOK
    <2>4. task' \in [Clients -> Task] /\ task'[c] = [t EXCEPT !.number = NextNum(c)]
      <3>1. [t EXCEPT !.number = NextNum(c)] \in Task
        BY <1>1, <2>2 DEF Task
      <3> QED
        BY <2>3, <3>1 DEF IInv, TypeOK
    <2>5. TypeOK'
      BY <1>4, <2>4 DEF IInv, TypeOK, ReadNumber, Goto, PCs, TxPCs,
                        StatementPCs, durVars, dbVars
    <2>6. ProgressOf(c)' /\ OperationOf(c)'
      BY <1>1, <1>4, <2>1, <2>4 DEF IInv, TypeOK, ReadNumber, Goto, durVars, dbVars,
                 ProgressOf, OperationOf, Bumped, NextNum, Task
    <2> QED
      BY <1>4, <2>1, <2>3, <2>5, <2>6, InsideStep
         DEF IInv, TypeOK, ReadNumber, Goto, durVars, TxPCs, StatementPCs
  <1>5. CASE InsertCase(c)
    <2>1. pc[c] = "insert" /\ counter = Bumped(c) /\ cases = durCases
          /\ t.op = "add" /\ t.number = NextNum(c)
      BY <1>5 DEF IInv, Progress, ProgressOf, InsertCase, Goto,
                  Operations, OperationOf
    <2>2. IsLog(Inserted(cases[g], t.number, NewCase(t)), Case)
      BY <1>1, <1>2, <2>1, InsertedLog DEF Task
    <2>3. TypeOK'
      BY <1>1, <1>5, <2>2 DEF IInv, TypeOK, InsertCase, Goto, PCs, TxPCs,
                              StatementPCs, durVars
    <2>4. ProgressOf(c)' /\ OperationOf(c)'
      BY <1>5, <2>1 DEF IInv, TypeOK, InsertCase, Goto, durVars, ProgressOf,
                        OperationOf, Bumped, NextNum, WithNew
    <2> QED
      BY <1>5, <2>1, <2>3, <2>4, InsideStep
         DEF IInv, TypeOK, InsertCase, Goto, durVars, TxPCs, StatementPCs
  <1>6. CASE CountWarnings(c)
    <2> DEFINE k == ActiveWarnings(cases[g], t.user, t.now)
    <2>1. pc[c] = "count" /\ counter = Bumped(c) /\ cases = WithNew(c)
          /\ t.op = "add" /\ t.number = NextNum(c)
      BY <1>6 DEF IInv, Progress, ProgressOf, CountWarnings, Goto,
                  Operations, OperationOf
    <2>2. k \in Nat
      BY <1>1, ActiveWarningsType
    <2>3. task' = [task EXCEPT ![c] = [t EXCEPT !.total = k]]
      BY <1>6 DEF CountWarnings, IInv, TypeOK
    <2> HIDE DEF k
    <2>4. task' \in [Clients -> Task] /\ task'[c] = [t EXCEPT !.total = k]
      BY <1>1, <2>2, <2>3 DEF IInv, TypeOK, Task
    <2>5. TypeOK'
      BY <1>6, <2>4 DEF IInv, TypeOK, CountWarnings, Goto, PCs, TxPCs,
                        StatementPCs, durVars, dbVars
    <2>6. NewCase(task[c])' = NewCase(task[c]) /\ g' = g
      BY <1>1, <2>4 DEF NewCase, Task
    <2>7. OperationOf(c)'
      BY <1>1, <1>6, <2>1, <2>4 DEF IInv, TypeOK, CountWarnings, Goto, OperationOf, Task
    <2>8. /\ counter' = Bumped(c)' /\ cases' = WithNew(c)'
          /\ task'[c].number = NextNum(c)'
      BY <1>1, <1>6, <2>1, <2>4, <2>6
         DEF CountWarnings, durVars, dbVars, Bumped, NextNum, WithNew, Task
    <2>9. task'[c].total =
            ActiveWarnings(cases'[task'[c].guild], task'[c].user, task'[c].now)
      <3>1. cases' = cases /\ task'[c].total = k
        BY <1>1, <1>6, <2>4 DEF CountWarnings, dbVars, Task
      <3>2. task'[c].guild = g /\ task'[c].user = t.user /\ task'[c].now = t.now
        BY <1>1, <2>4 DEF Task
      <3> QED
        BY <3>1, <3>2 DEF k
    <2>10. ProgressOf(c)'
      BY <1>1, <1>6, <2>1, <2>4, <2>8, <2>9
         DEF CountWarnings, Goto, ProgressOf, IInv, TypeOK, Task
    <2> QED
      BY <1>6, <2>1, <2>3, <2>5, <2>7, <2>10, InsideStep
         DEF IInv, TypeOK, CountWarnings, Goto, durVars, TxPCs, StatementPCs
  <1> QED
    BY <1>3, <1>4, <1>5, <1>6

(* The UPDATE of deactivate_case and clear_warnings, and a failing         *)
(* statement of any operation.                                             *)
LEMMA UpdateIInv ==
  ASSUME IInv, NEW c \in Clients, Update(c) \/ StatementFails(c)
  PROVE  IInv'
  <1> DEFINE t == task[c]
             g == t.guild
  <1>1. /\ t \in Task /\ g \in Guilds /\ IsLog(cases[g], Case)
    BY DEF IInv, TypeOK, Task
  <1>2. CASE Update(c)
    <2>1. pc[c] = "update" /\ counter = durCounter /\ cases = durCases
          /\ t.op \in {"retire", "clear"}
      BY <1>2 DEF IInv, Progress, ProgressOf, Update, Goto,
                  Operations, OperationOf
    <2>2. cases' = [cases EXCEPT ![g] = Deactivated(@, Targets(c))]
      BY <1>2, <2>1 DEF Update, Targets
    <2>3. IsLog(Deactivated(cases[g], Targets(c)), Case)
      BY <1>1, DeactivatedLog
    <2>4. TypeOK'
      BY <1>1, <1>2, <2>2, <2>3
         DEF IInv, TypeOK, Update, Goto, PCs, TxPCs, StatementPCs, durVars
    <2>5. ProgressOf(c)' /\ OperationOf(c)'
      BY <1>2, <2>1, <2>2 DEF IInv, TypeOK, Update, Goto, durVars, ProgressOf,
                              OperationOf, Updated, Targets
    <2> QED
      BY <1>2, <2>1, <2>4, <2>5, InsideStep
         DEF IInv, TypeOK, Update, Goto, durVars, TxPCs, StatementPCs
  <1>3. CASE StatementFails(c)
    <2>1. TypeOK'
      BY <1>3 DEF IInv, TypeOK, StatementFails, PCs, TxPCs, dbVars, durVars
    <2>2. pc'[c] = "rollback" /\ \A d \in Clients \ {c} : pc'[d] = pc[d]
      BY <1>3 DEF IInv, TypeOK, StatementFails
    <2>3. ProgressOf(c)' /\ OperationOf(c)'
      BY <2>2 DEF ProgressOf, OperationOf
    <2> QED
      BY <1>3, <2>1, <2>2, <2>3, InsideStep
         DEF StatementFails, dbVars, durVars, TxPCs
  <1> QED
    BY <1>2, <1>3

(* The three ends of a transaction. *)
LEMMA EndIInv ==
  ASSUME IInv, NEW c \in Clients, Commit(c) \/ CommitFails(c) \/ Rollback(c)
  PROVE  IInv'
  <1> DEFINE t == task[c]
             g == t.guild
  <1>1. /\ pc[c] \in TxPCs
        /\ pc'[c] = "idle"
        /\ \A d \in Clients \ {c} : pc'[d] = pc[d] /\ task'[d] = task[d]
        /\ lock' \in Clients \cup {Free}
        /\ waiters' \in Seq(Clients)
        /\ pc' \in [Clients -> PCs]
        /\ task' \in [Clients -> Task]
    BY ReleaseType DEF IInv, Commit, CommitFails, Rollback, TxPCs
  <1>2. /\ t \in Task /\ g \in Guilds /\ durCounter[g] \in Nat
        /\ DOMAIN durCases[g] = 1..durCounter[g] /\ IsLog(durCases[g], Case)
        /\ inTx
    BY <1>1 DEF IInv, TypeOK, NumbersContiguous, Task, OneTransaction
  <1>3. CASE Commit(c)
    <2>1. told' = told \/ told' = [told EXCEPT ![g] = Inserted(@, t.number, t.total)]
      BY <1>3 DEF Commit
    <2>2. IsLog(Inserted(told[g], t.number, t.total), Nat)
      BY <1>2, InsertedLog DEF IInv, TypeOK, Task
    <2>3. TypeOK'
      BY <1>1, <1>2, <1>3, <2>1, <2>2 DEF IInv, TypeOK, Commit, dbVars
    <2>4. CASE t.op = "add"
      <3>1. counter = Bumped(c) /\ cases = WithNew(c)
        BY <1>3, <2>4 DEF IInv, Progress, ProgressOf, Commit
      <3>2. DOMAIN Inserted(durCases[g], NextNum(c), NewCase(t))
              = 1..(durCounter[g] + 1)
        BY <1>2 DEF Inserted, NextNum
      <3>3. \A h \in Guilds : DOMAIN cases[h] = 1..counter[h]
        BY <1>2, <3>1, <3>2 DEF IInv, TypeOK, NumbersContiguous, Bumped, WithNew
      <3> QED
        BY <1>1, <1>3, <2>3, <3>3, EndStep
           DEF Commit, NumbersContiguous, dbVars
    <2>5. CASE t.op # "add"
      <3>1. counter = durCounter /\ cases = Updated(c)
        BY <1>3, <2>5 DEF IInv, Progress, ProgressOf, Commit
      <3>2. DOMAIN Deactivated(durCases[g], Targets(c)) = 1..durCounter[g]
        BY <1>2, DeactivatedLog
      <3>3. \A h \in Guilds : DOMAIN cases[h] = 1..counter[h]
        BY <1>2, <3>1, <3>2 DEF IInv, TypeOK, NumbersContiguous, Updated
      <3> QED
        BY <1>1, <1>3, <2>3, <3>3, EndStep
           DEF Commit, NumbersContiguous, dbVars
    <2> QED
      BY <2>4, <2>5
  <1>4. CASE CommitFails(c) \/ Rollback(c)
    <2>1. /\ UNCHANGED <<durCounter, durCases, told, clock>>
          /\ \/ UNCHANGED <<counter, cases, inTx>>
             \/ counter' = durCounter /\ cases' = durCases /\ inTx' = FALSE
      BY <1>4 DEF CommitFails, Rollback, dbVars, durVars
    <2>2. TypeOK'
      BY <1>1, <2>1 DEF IInv, TypeOK
    <2>3. NumbersContiguous'
      BY <1>2, <2>1 DEF IInv, NumbersContiguous
    <2> QED
      BY <1>1, <2>2, <2>3, EndStep
  <1> QED
    BY <1>3, <1>4

(* A crash goes back to the committed state; time touches nothing. *)
LEMMA CrashTickIInv ==
  ASSUME IInv, Crash \/ Tick
  PROVE  IInv'
  <1>1. CASE Crash
    <2>1. TypeOK'
      <3>1. pc' \in [Clients -> PCs] /\ task' \in [Clients -> Task]
        BY <1>1, NoTaskType DEF Crash, PCs
      <3>2. waiters' \in Seq(Clients)
        BY <1>1 DEF Crash
      <3>3. lock' \in Clients \cup {Free} /\ inTx' \in BOOLEAN
        BY <1>1 DEF Crash
      <3>4. counter' = durCounter /\ cases' = durCases
            /\ UNCHANGED <<durCounter, durCases, told, clock>>
        BY <1>1 DEF Crash, durVars
      <3> QED
        BY <3>1, <3>2, <3>3, <3>4 DEF IInv, TypeOK
    <2>2. OneTransaction' /\ NumbersContiguous' /\ Operations' /\ Progress'
      BY <1>1 DEF IInv, Crash, durVars, OneTransaction, NumbersContiguous,
                  Operations, OperationOf, Progress, ProgressOf, TxPCs,
                  StatementPCs
    <2> QED
      BY <2>1, <2>2 DEF IInv
  <1>2. CASE Tick
    <2>1. TypeOK'
      BY <1>2, TimeAssumption DEF IInv, TypeOK, Tick, dbVars, durVars, Instants
    <2>2. OneTransaction' /\ NumbersContiguous' /\ Operations'
      BY <1>2 DEF IInv, Tick, dbVars, durVars, OneTransaction,
                  NumbersContiguous, Operations, OperationOf
    <2>3. Progress'
      BY <1>2 DEF IInv, Tick, dbVars, durVars, Progress, ProgressOf, Bumped,
                  WithNew, NextNum, Updated, Targets
    <2> QED
      BY <2>1, <2>2, <2>3 DEF IInv
  <1> QED
    BY <1>1, <1>2

-----------------------------------------------------------------------------
(* The inductive invariant holds in every reachable state. *)
THEOREM Invariance == Spec => []IInv
  <1>1. IInv /\ [Next]_vars => IInv'
    <2> SUFFICES ASSUME IInv, [Next]_vars PROVE IInv'
      OBVIOUS
    <2>1. ASSUME NEW c \in Clients, Call(c) \/ Step(c) PROVE IInv'
      BY <2>1, CallIInv, BeginIInv, AddIInv, UpdateIInv, EndIInv DEF Step
    <2>2. CASE Crash \/ Tick
      BY <2>2, CrashTickIInv
    <2>3. CASE UNCHANGED vars
      <3>1. TypeOK' /\ OneTransaction' /\ NumbersContiguous' /\ Operations'
        BY <2>3 DEF vars, IInv, TypeOK, OneTransaction, NumbersContiguous,
                    Operations, OperationOf
      <3>2. Progress'
        BY <2>3 DEF vars, IInv, Progress, ProgressOf, Bumped, WithNew, NextNum,
                    Updated, Targets
      <3> QED
        BY <3>1, <3>2 DEF IInv
    <2> QED
      BY <2>1, <2>2, <2>3 DEF Next
  <1> QED
    BY InitIInv, <1>1, PTL DEF Spec

(* Every variable has its type in every reachable state. *)
THEOREM TypeCorrect == Spec => []TypeOK
  BY Invariance, PTL DEF IInv

(* The write lock makes transactions exclusive: see OneTransaction. *)
THEOREM Exclusion == Spec => []OneTransaction
  BY Invariance, PTL DEF IInv

(* Committed case numbers are 1, 2, ... with no gap: see NumbersContiguous. *)
THEOREM Numbering == Spec => []NumbersContiguous
  BY Invariance, PTL DEF IInv

(* The total add_case returns is the one it commits: see TotalStillTrue. *)
THEOREM TotalsFresh == Spec => []TotalStillTrue
  <1>1. IInv => TotalStillTrue
    BY DEF IInv, Progress, ProgressOf, TotalStillTrue
  <1> QED
    BY <1>1, Invariance, PTL

-----------------------------------------------------------------------------
(* The ledger's instance of module Cases has the same operators. *)
LEMMA SameCases ==
  /\ Ledger!EmptyLog = EmptyLog
  /\ Ledger!Instants = Instants /\ Ledger!Expiry = Expiry
  /\ Ledger!CaseActions = CaseActions
  /\ \A log, n, x : Ledger!Inserted(log, n, x) = Inserted(log, n, x)
  /\ \A log, S : Ledger!Deactivated(log, S) = Deactivated(log, S)
  /\ \A log, u : Ledger!ClearableOf(log, u) = ClearableOf(log, u)
  /\ \A log, u, now :
       Ledger!ActiveWarnings(log, u, now) = ActiveWarnings(log, u, now)
  <1>1. /\ Ledger!EmptyLog = EmptyLog
        /\ Ledger!Instants = Instants /\ Ledger!Expiry = Expiry
        /\ Ledger!CaseActions = CaseActions
    BY DEF Ledger!EmptyLog, EmptyLog, Ledger!Instants, Instants,
           Ledger!Expiry, Expiry, Ledger!CaseActions, CaseActions
  <1>2. ASSUME NEW log, NEW n, NEW x
        PROVE  Ledger!Inserted(log, n, x) = Inserted(log, n, x)
    BY DEF Ledger!Inserted, Inserted
  <1>3. ASSUME NEW log, NEW S
        PROVE  Ledger!Deactivated(log, S) = Deactivated(log, S)
    BY DEF Ledger!Deactivated, Deactivated
  <1>4. ASSUME NEW log, NEW u
        PROVE  Ledger!ClearableOf(log, u) = ClearableOf(log, u)
    BY DEF Ledger!ClearableOf, ClearableOf
  <1>5. ASSUME NEW log, NEW u, NEW now
        PROVE  Ledger!ActiveWarnings(log, u, now) = ActiveWarnings(log, u, now)
    <2>1. Ledger!WarningsOf(log, u, now) = WarningsOf(log, u, now)
      BY DEF Ledger!WarningsOf, WarningsOf, Ledger!CountsToward, CountsToward
    <2>2. \A S : Ledger!Cardinality(S) = Cardinality(S)
      BY DEF Ledger!Cardinality, Cardinality, Ledger!IsFiniteSet, IsFiniteSet
    <2> QED
      BY <2>1, <2>2 DEF Ledger!ActiveWarnings, ActiveWarnings
  <1> QED
    BY <1>1, <1>2, <1>3, <1>4, <1>5

(* A committed transaction is one step of the ledger. *)
LEMMA CommitRefines ==
  ASSUME IInv, NEW c \in Clients, Commit(c)
  PROVE  Ledger!LedgerNext \/ UNCHANGED Ledger!ledgerVars
  <1> DEFINE t == task[c]
             g == t.guild
  <1>1. /\ t \in Task /\ g \in Guilds /\ t.user \in Users
        /\ t.action \in CaseActions /\ t.now \in Instants /\ t.expires \in Expiry
    BY DEF IInv, TypeOK, Task
  <1>2. /\ pc[c] = "commit" /\ t.op \in {"add", "retire", "clear"}
        /\ durCounter' = counter /\ durCases' = cases
    BY DEF IInv, Commit, Operations, OperationOf
  <1>3. CASE t.op = "add"
    <2>1. /\ counter = Bumped(c) /\ cases = WithNew(c)
          /\ t.number = durCounter[g] + 1
          /\ t.total = ActiveWarnings(cases[g], t.user, t.now)
      BY <1>2, <1>3 DEF IInv, Progress, ProgressOf, NextNum
    <2>2. told' = [told EXCEPT ![g] = Inserted(@, t.number, t.total)]
      BY <1>3 DEF Commit
    <2>3. cases[g] = Inserted(durCases[g], durCounter[g] + 1, NewCase(t))
      BY <1>1, <2>1 DEF IInv, TypeOK, WithNew, NextNum
    <2>4. Ledger!Record(g, t.user, t.action, t.now, t.expires)
      BY <1>1, <1>2, <2>1, <2>2, <2>3, SameCases
         DEF Ledger!Record, NewCase, Bumped, WithNew, NextNum
    <2> QED
      BY <1>1, <2>4, SameCases DEF Ledger!LedgerNext
  <1>4. CASE t.op = "retire"
    <2>1. /\ counter = durCounter
          /\ cases = [durCases EXCEPT ![g] = Deactivated(@, {t.number})]
          /\ told' = told
      BY <1>2, <1>4 DEF IInv, Progress, ProgressOf, Updated, Targets, Commit
    <2>2. CASE t.number \in DOMAIN durCases[g]
      <3>1. Ledger!Retire(g, t.number)
        BY <1>2, <2>1, SameCases DEF Ledger!Retire
      <3> QED
        BY <1>1, <2>2, <3>1 DEF Ledger!LedgerNext
    <2>3. CASE t.number \notin DOMAIN durCases[g]
      <3>1. Deactivated(durCases[g], {t.number}) = durCases[g]
        BY <1>1, <2>3 DEF Deactivated, IInv, TypeOK, IsLog
      <3>2. cases = durCases
        BY <1>1, <2>1, <3>1 DEF IInv, TypeOK
      <3> QED
        BY <1>2, <2>1, <3>2 DEF Ledger!ledgerVars
    <2> QED
      BY <2>2, <2>3
  <1>5. CASE t.op = "clear"
    <2>1. /\ counter = durCounter /\ told' = told
          /\ cases = [durCases EXCEPT ![g] =
                         Deactivated(@, ClearableOf(durCases[g], t.user))]
      BY <1>2, <1>5 DEF IInv, Progress, ProgressOf, Updated, Targets, Commit
    <2>2. Ledger!Clear(g, t.user)
      BY <1>2, <2>1, SameCases DEF Ledger!Clear
    <2> QED
      BY <1>1, <2>2 DEF Ledger!LedgerNext
  <1> QED
    BY <1>2, <1>3, <1>4, <1>5

(* Every behaviour of the statement-level store is a behaviour of the      *)
(* atomic ledger: see ImplementsLedger.                                    *)
THEOREM Refinement == Spec => ImplementsLedger
  <1>1. Init => Ledger!LedgerInit
    BY SameCases DEF Init, Ledger!LedgerInit
  <1>2. IInv /\ [Next]_vars => [Ledger!LedgerNext]_(Ledger!ledgerVars)
    <2> SUFFICES ASSUME IInv, [Next]_vars
                 PROVE  Ledger!LedgerNext \/ UNCHANGED Ledger!ledgerVars
      OBVIOUS
    <2> USE DEF Ledger!ledgerVars, durVars
    <2>1. ASSUME NEW c \in Clients, Call(c)
          PROVE  UNCHANGED Ledger!ledgerVars
      BY <2>1 DEF Call, AddCase, DeactivateCase, ClearWarnings
    <2>2. ASSUME NEW c \in Clients, Step(c), ~Commit(c)
          PROVE  UNCHANGED Ledger!ledgerVars
      BY <2>2 DEF Step, Looked, Begin, BeginFails, BumpCounter, ReadNumber,
                  InsertCase, CountWarnings, Update, StatementFails, Rollback,
                  CommitFails
    <2>3. ASSUME NEW c \in Clients, Commit(c)
          PROVE  Ledger!LedgerNext \/ UNCHANGED Ledger!ledgerVars
      BY <2>3, CommitRefines
    <2>4. CASE Crash \/ Tick
      BY <2>4 DEF Crash, Tick
    <2>5. CASE UNCHANGED vars
      BY <2>5 DEF vars
    <2> QED
      BY <2>1, <2>2, <2>3, <2>4, <2>5 DEF Next
  <1> QED
    BY <1>1, <1>2, Invariance, PTL DEF Spec, ImplementsLedger, Ledger!LedgerSpec
-----------------------------------------------------------------------------
(* The queue of the write lock, and the times its calls were made at: a    *)
(* second invariant, inductive beside the first.                           *)

Wanting == TxPCs \cup {"begin"}

(* The queue holds each call that is about to begin and lacks the lock,    *)
(* once; a held lock belongs to a call that wants it.                      *)
Line ==
  /\ \A i, j \in DOMAIN waiters : waiters[i] = waiters[j] => i = j
  /\ \A i \in DOMAIN waiters : pc[waiters[i]] = "begin" /\ waiters[i] # lock
  /\ \A c \in Clients :
       pc[c] = "begin" => c = lock \/ \E i \in DOMAIN waiters : waiters[i] = c
  /\ \A c \in Clients : lock = c => pc[c] \in Wanting
  /\ lock = Free => waiters = <<>>

(* What was committed was asked for before what is still to come, and      *)
(* nothing was asked for in the future.                                    *)
Elder(c) ==
  \A g \in Guilds : \A n \in DOMAIN durCases[g] :
    durCases[g][n].created <= task[c].now

Asked(c) == pc[c] \in Wanting /\ task[c].op = "add"

Times ==
  /\ \A c \in Clients : task[c].now <= clock
  /\ \A g \in Guilds : \A n \in DOMAIN durCases[g] :
       durCases[g][n].created <= clock
  /\ \A c \in Clients : Asked(c) => Elder(c)
  /\ \A i, j \in DOMAIN waiters :
       i < j /\ Asked(waiters[i]) /\ Asked(waiters[j]) =>
         task[waiters[i]].now <= task[waiters[j]].now
  /\ \A c \in Clients : \A i \in DOMAIN waiters :
       lock = c /\ Asked(c) /\ Asked(waiters[i]) =>
         task[c].now <= task[waiters[i]].now

QInv == Line /\ Times /\ CreatedInOrder

(* Nobody wants a free lock, and only the holder wants a lock without      *)
(* waiting for it.                                                         *)
LEMMA WantingHoldsOrWaits ==
  ASSUME IInv, Line, NEW c \in Clients, pc[c] \in Wanting
  PROVE  lock = c \/ \E i \in DOMAIN waiters : waiters[i] = c
  BY DEF IInv, OneTransaction, Line, Wanting

(* A call that joins the queue is the youngest in it. *)
LEMMA JoinQInv ==
  ASSUME IInv, QInv, NEW c \in Clients,
         pc[c] \in {"idle", "looked"}, pc' = [pc EXCEPT ![c] = "begin"],
         Acquire(c), UNCHANGED <<durCases, clock>>,
         \A d \in Clients \ {c} : task'[d] = task[d],
         task'[c].now <= clock, task'[c].op = "add" => task'[c].now = clock
  PROVE  QInv'
  <1> DEFINE Asks(d) == pc'[d] \in Wanting /\ task'[d].op = "add"
  <1>1. /\ \A d \in Clients \ {c} : pc'[d] = pc[d]
        /\ pc'[c] = "begin" /\ pc[c] \notin Wanting /\ lock # c
        /\ \A i \in DOMAIN waiters : waiters[i] # c
        /\ waiters \in Seq(Clients) /\ lock \in Clients \cup {Free}
    BY DEF IInv, TypeOK, QInv, Line, Wanting, TxPCs, StatementPCs
  <1>2. CreatedInOrder'
    BY DEF QInv, CreatedInOrder
  <1>3. \A d \in Clients \ {c} : (Asks(d) <=> Asked(d)) /\ Elder(d)' = Elder(d)
    BY <1>1 DEF Asked, Elder
  <1> HIDE DEF Asks
  <1>4. Asks(c) => Elder(c)'
    BY DEF Asks, Elder, QInv, Times
  <1>5. \A d \in Clients : task'[d].now <= clock' /\ (Asks(d) => Elder(d)')
    BY <1>3, <1>4 DEF QInv, Times
  <1>6. \A g \in Guilds : \A n \in DOMAIN durCases'[g] :
          durCases'[g][n].created <= clock'
    BY DEF QInv, Times
  <1>7. CASE lock = Free
    <2>1. lock' = c /\ waiters' = <<>> /\ DOMAIN waiters' = {}
      BY <1>7 DEF Acquire, QInv, Line
    <2>2. \A d \in Clients : pc[d] \notin Wanting
      BY <1>7, FreeAssumption, WantingHoldsOrWaits DEF QInv, Line
    <2>3. Line'
      BY <1>1, <2>1, <2>2, FreeAssumption DEF Line, Wanting
    <2>4. Times'
      BY <1>5, <1>6, <2>1 DEF Times, Asked, Asks
    <2> QED
      BY <1>2, <2>3, <2>4 DEF QInv
  <1>8. CASE lock # Free
    <2>1. waiters' = Append(waiters, c) /\ lock' = lock
      BY <1>8 DEF Acquire
    <2>2. /\ DOMAIN waiters = 1..Len(waiters) /\ Len(waiters) \in Nat
          /\ DOMAIN waiters' = 1..(Len(waiters) + 1)
          /\ waiters'[Len(waiters) + 1] = c
          /\ \A i \in DOMAIN waiters : waiters'[i] = waiters[i]
      BY <1>1, <2>1
    <2>3. \A i \in DOMAIN waiters' :
            \/ i \in DOMAIN waiters /\ waiters'[i] = waiters[i]
               /\ waiters[i] \in Clients \ {c}
            \/ i = Len(waiters) + 1 /\ waiters'[i] = c
      BY <1>1, <2>2
    <2>4. Line'
      <3>1. \A i, j \in DOMAIN waiters' : waiters'[i] = waiters'[j] => i = j
        BY <2>3 DEF QInv, Line
      <3>2. \A i \in DOMAIN waiters' :
              pc'[waiters'[i]] = "begin" /\ waiters'[i] # lock'
        BY <1>1, <2>1, <2>3 DEF QInv, Line
      <3>3. ASSUME NEW d \in Clients, pc'[d] = "begin"
            PROVE  d = lock' \/ \E i \in DOMAIN waiters' : waiters'[i] = d
        <4>1. CASE d = c
          BY <2>2, <4>1
        <4>2. CASE d # c
          <5>1. d = lock \/ \E i \in DOMAIN waiters : waiters[i] = d
            BY <1>1, <3>3, <4>2 DEF QInv, Line
          <5>2. DOMAIN waiters \subseteq DOMAIN waiters'
            BY <2>2
          <5> QED
            BY <2>1, <2>2, <5>1, <5>2
        <4> QED
          BY <4>1, <4>2
      <3>4. \A d \in Clients : lock' = d => pc'[d] \in Wanting
        BY <1>1, <2>1 DEF QInv, Line
      <3> QED
        BY <1>8, <2>1, <3>1, <3>2, <3>3, <3>4 DEF Line
    <2>5. \A i, j \in DOMAIN waiters' :
            i < j /\ Asks(waiters'[i]) /\ Asks(waiters'[j]) =>
              task'[waiters'[i]].now <= task'[waiters'[j]].now
      <3> SUFFICES ASSUME NEW i \in DOMAIN waiters', NEW j \in DOMAIN waiters',
                          i < j, Asks(waiters'[i]), Asks(waiters'[j])
                   PROVE  task'[waiters'[i]].now <= task'[waiters'[j]].now
        OBVIOUS
      <3>1. i \in DOMAIN waiters
        BY <2>2
      <3>2. waiters'[i] = waiters[i] /\ waiters[i] \in Clients \ {c}
            /\ Asked(waiters[i]) /\ task'[waiters[i]].now = task[waiters[i]].now
        <4>1. waiters'[i] = waiters[i] /\ waiters[i] \in Clients \ {c}
          BY <1>1, <2>2, <3>1
        <4> QED
          BY <1>3, <4>1
      <3>3. CASE j \in DOMAIN waiters
        <4>1. waiters'[j] = waiters[j] /\ waiters[j] \in Clients \ {c}
          BY <1>1, <2>2, <3>3
        <4>2. Asked(waiters[j]) /\ task'[waiters[j]].now = task[waiters[j]].now
          BY <1>3, <4>1
        <4> QED
          BY <3>1, <3>2, <3>3, <4>1, <4>2 DEF QInv, Times
      <3>4. CASE j \notin DOMAIN waiters
        <4>1. waiters'[j] = c
          BY <2>3, <3>4
        <4>2. task'[c].now = clock
          BY <4>1 DEF Asks
        <4> QED
          BY <3>2, <4>1, <4>2 DEF QInv, Times
      <3> QED
        BY <3>3, <3>4
    <2>6. \A d \in Clients : \A i \in DOMAIN waiters' :
            lock' = d /\ Asks(d) /\ Asks(waiters'[i]) =>
              task'[d].now <= task'[waiters'[i]].now
      <3> SUFFICES ASSUME NEW d \in Clients, NEW i \in DOMAIN waiters',
                          lock' = d, Asks(d), Asks(waiters'[i])
                   PROVE  task'[d].now <= task'[waiters'[i]].now
        OBVIOUS
      <3>1. d # c /\ lock = d /\ Asked(d) /\ task'[d] = task[d]
        BY <1>1, <1>3, <2>1
      <3>2. CASE i \in DOMAIN waiters
        <4>1. waiters'[i] = waiters[i] /\ waiters[i] \in Clients \ {c}
          BY <1>1, <2>2, <3>2
        <4>2. Asked(waiters[i]) /\ task'[waiters[i]].now = task[waiters[i]].now
          BY <1>3, <4>1
        <4> QED
          BY <3>1, <3>2, <4>1, <4>2 DEF QInv, Times
      <3>3. CASE i \notin DOMAIN waiters
        <4>1. waiters'[i] = c
          BY <2>3, <3>3
        <4>2. task'[c].now = clock
          BY <4>1 DEF Asks
        <4> QED
          BY <3>1, <4>1, <4>2 DEF QInv, Times
      <3> QED
        BY <3>2, <3>3
    <2>7. Times'
      BY <1>5, <1>6, <2>5, <2>6 DEF Times, Asked, Asks
    <2> QED
      BY <1>2, <2>4, <2>7 DEF QInv
  <1> QED
    BY <1>7, <1>8

(* The lock passes to the head of the queue. *)
LEMMA LeaveQInv ==
  ASSUME IInv, QInv, NEW c \in Clients, lock = c, Release(c),
         clock' = clock, CreatedInOrder',
         \A g \in Guilds : \A n \in DOMAIN durCases'[g] :
           durCases'[g][n].created <= clock,
         \A i \in DOMAIN waiters : Asked(waiters[i]) =>
           \A g \in Guilds : \A n \in DOMAIN durCases'[g] :
             durCases'[g][n].created <= task[waiters[i]].now
  PROVE  QInv'
  <1> DEFINE Asks(d) == pc'[d] \in Wanting /\ task'[d].op = "add"
  <1>1. /\ \A d \in Clients \ {c} : pc'[d] = pc[d] /\ task'[d] = task[d]
        /\ pc'[c] = "idle" /\ pc'[c] \notin Wanting /\ task'[c] = NoTask
        /\ NoTask.now = 0 /\ clock \in Nat
        /\ waiters \in Seq(Clients) /\ lock # Free
    BY ReleaseType, FreeAssumption, TimeAssumption
       DEF IInv, TypeOK, Release, NoTask, Wanting, TxPCs, StatementPCs, Instants
  <1>2. \A d \in Clients : task'[d].now <= clock'
    BY <1>1 DEF QInv, Times
  <1>3. \A i \in DOMAIN waiters :
          /\ waiters[i] \in Clients \ {c}
          /\ Asks(waiters[i]) = Asked(waiters[i])
          /\ task'[waiters[i]] = task[waiters[i]]
    BY <1>1 DEF QInv, Line, Asked
  <1>4. \A d \in Clients : Asks(d) => Elder(d)'
    <2> SUFFICES ASSUME NEW d \in Clients, Asks(d) PROVE Elder(d)'
      OBVIOUS
    <2>1. d # c /\ pc[d] \in Wanting
      BY <1>1 DEF Asked
    <2>2. PICK i \in DOMAIN waiters : waiters[i] = d
      BY <2>1, WantingHoldsOrWaits DEF QInv
    <2> QED
      BY <1>3, <2>2 DEF Elder
  <1>5. CASE waiters = <<>>
    <2>1. lock' = Free /\ waiters' = <<>> /\ DOMAIN waiters' = {}
      BY <1>5 DEF Release
    <2>2. \A d \in Clients : pc'[d] \notin Wanting
      BY <1>1, <1>5, WantingHoldsOrWaits DEF QInv
    <2>3. Line'
      BY <2>1, <2>2, FreeAssumption DEF Line, Wanting
    <2>4. Times'
      BY <1>2, <1>4, <2>1 DEF Times, Asked
    <2> QED
      BY <2>3, <2>4 DEF QInv
  <1>6. CASE waiters # <<>>
    <2>1. /\ lock' = waiters[1] /\ 1 \in DOMAIN waiters
          /\ waiters' = Tail(waiters)
          /\ DOMAIN waiters = 1..Len(waiters) /\ Len(waiters) \in Nat
          /\ DOMAIN waiters' = 1..(Len(waiters) - 1)
          /\ \A i \in DOMAIN waiters' : waiters'[i] = waiters[i + 1]
      BY <1>1, <1>6 DEF Release
    <2>2. \A i \in DOMAIN waiters' :
            i + 1 \in DOMAIN waiters /\ waiters'[i] = waiters[i + 1] /\ i \in Nat
      BY <2>1
    <2>3. Line'
      <3>1. \A i, j \in DOMAIN waiters' : waiters'[i] = waiters'[j] => i = j
        <4> SUFFICES ASSUME NEW i \in DOMAIN waiters', NEW j \in DOMAIN waiters',
                            waiters'[i] = waiters'[j]
                     PROVE  i = j
          OBVIOUS
        <4>1. i + 1 = j + 1
          BY <2>2 DEF QInv, Line
        <4> QED
          BY <2>2, <4>1
      <3>2. \A i \in DOMAIN waiters' :
              pc'[waiters'[i]] = "begin" /\ waiters'[i] # lock'
        <4> SUFFICES ASSUME NEW i \in DOMAIN waiters'
                     PROVE  pc'[waiters'[i]] = "begin" /\ waiters'[i] # lock'
          OBVIOUS
        <4>1. pc[waiters[i + 1]] = "begin" /\ waiters[i + 1] # waiters[1]
          BY <2>1, <2>2 DEF QInv, Line
        <4> QED
          BY <1>1, <1>3, <2>1, <2>2, <4>1
      <3>3. ASSUME NEW d \in Clients, pc'[d] = "begin"
            PROVE  d = lock' \/ \E i \in DOMAIN waiters' : waiters'[i] = d
        <4>1. d # c /\ pc[d] \in Wanting
          BY <1>1, <3>3 DEF Wanting
        <4>2. PICK i \in DOMAIN waiters : waiters[i] = d
          BY <4>1, WantingHoldsOrWaits DEF QInv
        <4>3. CASE i = 1
          BY <2>1, <4>2, <4>3
        <4>4. CASE i # 1
          <5>1. i - 1 \in DOMAIN waiters' /\ (i - 1) + 1 = i
            BY <2>1, <4>4
          <5> QED
            BY <2>2, <4>2, <5>1
        <4> QED
          BY <4>3, <4>4
      <3>4. waiters[1] \in Clients /\ pc'[waiters[1]] = "begin"
        BY <1>1, <1>3, <2>1 DEF QInv, Line
      <3> QED
        BY <2>1, <3>1, <3>2, <3>3, <3>4, FreeAssumption DEF Line, Wanting
    <2>4. \A i, j \in DOMAIN waiters' :
            i < j /\ Asks(waiters'[i]) /\ Asks(waiters'[j]) =>
              task'[waiters'[i]].now <= task'[waiters'[j]].now
      <3> SUFFICES ASSUME NEW i \in DOMAIN waiters', NEW j \in DOMAIN waiters',
                          i < j, Asks(waiters'[i]), Asks(waiters'[j])
                   PROVE  task'[waiters'[i]].now <= task'[waiters'[j]].now
        OBVIOUS
      <3>1. /\ i + 1 \in DOMAIN waiters /\ j + 1 \in DOMAIN waiters
            /\ i + 1 < j + 1
            /\ waiters'[i] = waiters[i + 1] /\ waiters'[j] = waiters[j + 1]
        BY <2>1, <2>2
      <3>2. Asked(waiters[i + 1]) /\ Asked(waiters[j + 1])
        BY <1>3, <3>1
      <3>3. task[waiters[i + 1]].now <= task[waiters[j + 1]].now
        BY <3>1, <3>2 DEF QInv, Times
      <3> QED
        BY <1>3, <3>1, <3>3
    <2>5. \A d \in Clients : \A i \in DOMAIN waiters' :
            lock' = d /\ Asks(d) /\ Asks(waiters'[i]) =>
              task'[d].now <= task'[waiters'[i]].now
      <3> SUFFICES ASSUME NEW d \in Clients, NEW i \in DOMAIN waiters',
                          lock' = d, Asks(d), Asks(waiters'[i])
                   PROVE  task'[d].now <= task'[waiters'[i]].now
        OBVIOUS
      <3>1. /\ i + 1 \in DOMAIN waiters /\ 1 < i + 1
            /\ waiters'[i] = waiters[i + 1] /\ d = waiters[1]
        BY <2>1, <2>2
      <3>2. Asked(waiters[1]) /\ Asked(waiters[i + 1])
        BY <1>3, <2>1, <3>1
      <3>3. task[waiters[1]].now <= task[waiters[i + 1]].now
        BY <2>1, <3>1, <3>2 DEF QInv, Times
      <3> QED
        BY <1>3, <2>1, <3>1, <3>3
    <2>6. Times'
      BY <1>2, <1>4, <2>4, <2>5 DEF Times, Asked
    <2> QED
      BY <2>3, <2>6 DEF QInv
  <1> QED
    BY <1>5, <1>6

(* The holder moves on inside its call, and its place and time stay.       *)
LEMMA StayQInv ==
  ASSUME IInv, QInv, NEW c \in Clients, lock = c, pc'[c] \in TxPCs,
         \A d \in Clients \ {c} : pc'[d] = pc[d] /\ task'[d] = task[d],
         task'[c].op = task[c].op, task'[c].now = task[c].now,
         UNCHANGED <<durCases, clock, lock, waiters>>
  PROVE  QInv'
  <1>1. pc[c] \in Wanting /\ pc'[c] \in Wanting /\ pc'[c] # "begin"
    BY DEF QInv, Line, Wanting, TxPCs, StatementPCs
  <1>2. \A d \in Clients : /\ Asked(d)' = Asked(d)
                           /\ task'[d].now = task[d].now
                           /\ Elder(d)' = Elder(d)
    BY <1>1 DEF Asked, Elder
  <1>3. \A i \in DOMAIN waiters : waiters[i] \in Clients \ {c}
    BY DEF IInv, TypeOK, QInv, Line
  <1>4. Line'
    BY <1>1, <1>3 DEF QInv, Line
  <1>5. Times'
    BY <1>2, <1>3 DEF QInv, Times
  <1>6. CreatedInOrder'
    BY DEF QInv, CreatedInOrder
  <1> QED
    BY <1>4, <1>5, <1>6 DEF QInv

(* The calls: deactivate_case looks before it asks for the lock.           *)
LEMMA CallQInv ==
  ASSUME IInv, QInv, NEW c \in Clients, Call(c) \/ Looked(c)
  PROVE  QInv'
  <1>1. clock \in Nat /\ task \in [Clients -> Task] /\ pc \in [Clients -> PCs]
    BY TimeAssumption DEF IInv, TypeOK, Instants
  <1>2. ASSUME NEW g \in Guilds, NEW u \in Users, NEW a \in CaseActions,
               NEW e \in Expiry, AddCase(c, g, u, a, e)
        PROVE  QInv'
    <2>1. task'[c].now = clock /\ \A d \in Clients \ {c} : task'[d] = task[d]
      BY <1>1, <1>2 DEF AddCase, NoTask
    <2>2. /\ pc[c] \in {"idle", "looked"} /\ pc' = [pc EXCEPT ![c] = "begin"]
          /\ Acquire(c) /\ UNCHANGED <<durCases, clock>>
      BY <1>2 DEF AddCase, Goto, durVars
    <2>3. task'[c].now <= clock /\ (task'[c].op = "add" => task'[c].now = clock)
      BY <1>1, <2>1
    <2> QED
      BY <2>1, <2>2, <2>3, JoinQInv
  <1>3. ASSUME NEW g \in Guilds, NEW n \in DOMAIN cases[g],
               DeactivateCase(c, g, n)
        PROVE  QInv'
    <2>1. /\ pc[c] = "idle" /\ pc'[c] = "looked"
          /\ task'[c].now = 0 /\ task'[c].op = "retire"
          /\ \A d \in Clients \ {c} : pc'[d] = pc[d] /\ task'[d] = task[d]
          /\ UNCHANGED <<durCases, clock, lock, waiters>>
      BY <1>1, <1>3 DEF DeactivateCase, Goto, NoTask, durVars
    <2>2. pc[c] \notin Wanting /\ pc'[c] \notin Wanting /\ pc'[c] # "begin"
      BY <2>1 DEF Wanting, TxPCs, StatementPCs
    <2>3. \A i \in DOMAIN waiters : waiters[i] \in Clients \ {c}
      BY <2>1 DEF IInv, TypeOK, QInv, Line
    <2>4. Line'
      BY <2>1, <2>2, <2>3 DEF QInv, Line
    <2>5. \A d \in Clients : Asked(d)' => /\ Asked(d) /\ Elder(d)'
                                          /\ task'[d].now = task[d].now
      BY <2>1, <2>2 DEF Asked, Elder, QInv, Times
    <2>6. \A d \in Clients : task'[d].now <= clock'
      BY <1>1, <2>1 DEF QInv, Times
    <2>7. Times'
      BY <2>1, <2>3, <2>5, <2>6 DEF QInv, Times
    <2> QED
      BY <2>1, <2>4, <2>7 DEF QInv, CreatedInOrder
  <1>4. ASSUME NEW g \in Guilds, NEW u \in Users, ClearWarnings(c, g, u)
        PROVE  QInv'
    <2>1. /\ task'[c].now = 0 /\ task'[c].op = "clear"
          /\ \A d \in Clients \ {c} : task'[d] = task[d]
      BY <1>1, <1>4 DEF ClearWarnings, NoTask
    <2>2. /\ pc[c] \in {"idle", "looked"} /\ pc' = [pc EXCEPT ![c] = "begin"]
          /\ Acquire(c) /\ UNCHANGED <<durCases, clock>>
      BY <1>4 DEF ClearWarnings, Goto, durVars
    <2>3. task'[c].now <= clock /\ (task'[c].op = "add" => task'[c].now = clock)
      BY <1>1, <2>1
    <2> QED
      BY <2>1, <2>2, <2>3, JoinQInv
  <1>5. CASE Looked(c)
    <2>1. task[c].op = "retire" /\ task[c].now <= clock
      BY <1>5 DEF Looked, Goto, IInv, Operations, OperationOf, QInv, Times
    <2> QED
      BY <1>1, <1>5, <2>1, JoinQInv DEF Looked, Goto, durVars
  <1> QED
    BY <1>2, <1>3, <1>4, <1>5 DEF Call

(* The transaction up to its last statement. *)
LEMMA InsideQInv ==
  ASSUME IInv, QInv, NEW c \in Clients,
         \/ Begin(c) \/ BumpCounter(c) \/ ReadNumber(c) \/ InsertCase(c)
         \/ CountWarnings(c) \/ Update(c) \/ StatementFails(c)
  PROVE  QInv'
  <1> USE DEF TxPCs, StatementPCs, durVars, dbVars, Goto
  <1>1. pc \in [Clients -> PCs] /\ task \in [Clients -> Task]
    BY DEF IInv, TypeOK
  <1>2. lock = c
    BY DEF Begin, BumpCounter, ReadNumber, InsertCase, CountWarnings, Update,
           StatementFails, IInv, OneTransaction
  <1>3. /\ pc'[c] \in TxPCs
        /\ \A d \in Clients \ {c} : pc'[d] = pc[d]
        /\ UNCHANGED <<durCases, clock, lock, waiters>>
    BY <1>1 DEF Begin, BumpCounter, ReadNumber, InsertCase, CountWarnings,
                Update, StatementFails
  <1>4. /\ \A d \in Clients \ {c} : task'[d] = task[d]
        /\ task'[c].op = task[c].op /\ task'[c].now = task[c].now
    <2>1. \/ task' = task
          \/ \E k : task' = [task EXCEPT ![c].number = k]
          \/ \E k : task' = [task EXCEPT ![c].total = k]
      BY DEF Begin, BumpCounter, ReadNumber, InsertCase, CountWarnings, Update,
             StatementFails
    <2> QED
      BY <1>1, <2>1 DEF Task
  <1> QED
    BY <1>2, <1>3, <1>4, StayQInv

(* A commit dates no row later than the calls still waiting.               *)
LEMMA CommitQInv ==
  ASSUME IInv, QInv, NEW c \in Clients, Commit(c)
  PROVE  QInv'
  <1> DEFINE t == task[c]
             g == t.guild
             n == NextNum(c)
  <1>1. /\ lock = c /\ Release(c) /\ clock' = clock /\ durCases' = cases
        /\ pc[c] = "commit" /\ t \in Task /\ g \in Guilds
        /\ durCounter[g] \in Nat /\ DOMAIN durCases[g] = 1..durCounter[g]
        /\ DOMAIN durCases = Guilds /\ n = durCounter[g] + 1
    BY DEF Commit, IInv, OneTransaction, TypeOK, Task, TxPCs,
           NumbersContiguous, NextNum
  <1>2. CASE t.op = "add"
    <2>1. cases = WithNew(c)
      BY <1>1, <1>2 DEF IInv, Progress, ProgressOf
    <2>2. \A h \in Guilds : h # g => cases[h] = durCases[h]
      BY <1>1, <2>1 DEF WithNew
    <2>3. /\ DOMAIN cases[g] = DOMAIN durCases[g] \cup {n}
          /\ cases[g][n].created = t.now
          /\ \A m \in DOMAIN durCases[g] : m < n /\ cases[g][m] = durCases[g][m]
      BY <1>1, <2>1 DEF WithNew, Inserted, NewCase
    <2>4. Asked(c) /\ Elder(c) /\ t.now <= clock
      BY <1>1, <1>2 DEF Asked, Wanting, TxPCs, QInv, Times
    <2>5. CreatedInOrder'
      <3> SUFFICES ASSUME NEW h \in Guilds, NEW i \in DOMAIN cases[h],
                          NEW j \in DOMAIN cases[h], i < j
                   PROVE  cases[h][i].created <= cases[h][j].created
        BY <1>1 DEF CreatedInOrder
      <3>1. CASE h # g
        BY <2>2, <3>1 DEF QInv, CreatedInOrder
      <3>2. CASE h = g /\ j # n
        <4>1. j \in DOMAIN durCases[g] /\ i # n
          BY <1>1, <2>3, <3>2
        <4> QED
          BY <1>1, <2>3, <3>2, <4>1 DEF QInv, CreatedInOrder
      <3>3. CASE h = g /\ j = n
        <4>1. i \in DOMAIN durCases[g]
          BY <1>1, <2>3, <3>3
        <4> QED
          BY <1>1, <2>3, <2>4, <3>3, <4>1 DEF Elder
      <3> QED
        BY <3>1, <3>2, <3>3
    <2>6. \A h \in Guilds : \A m \in DOMAIN cases[h] :
            cases[h][m].created <= clock
      BY <2>2, <2>3, <2>4 DEF QInv, Times
    <2>7. ASSUME NEW i \in DOMAIN waiters, Asked(waiters[i]),
                 NEW h \in Guilds, NEW m \in DOMAIN cases[h]
          PROVE  cases[h][m].created <= task[waiters[i]].now
      <3>1. waiters[i] \in Clients /\ t.now <= task[waiters[i]].now
            /\ Elder(waiters[i])
        BY <1>1, <2>4, <2>7 DEF IInv, TypeOK, QInv, Times
      <3>2. CASE h = g /\ m = n
        BY <2>3, <3>1, <3>2
      <3>3. CASE ~(h = g /\ m = n)
        <4>1. m \in DOMAIN durCases[h] /\ cases[h][m] = durCases[h][m]
          BY <2>2, <2>3, <3>3
        <4> QED
          BY <3>1, <4>1 DEF Elder
      <3> QED
        BY <3>2, <3>3
    <2> QED
      BY <1>1, <2>5, <2>6, <2>7, LeaveQInv
  <1>3. CASE t.op # "add"
    <2>1. cases = Updated(c)
      BY <1>1, <1>3 DEF IInv, Progress, ProgressOf
    <2>2. ASSUME NEW h \in Guilds
          PROVE  /\ DOMAIN cases[h] = DOMAIN durCases[h]
                 /\ \A m \in DOMAIN cases[h] :
                      cases[h][m].created = durCases[h][m].created
      <3>1. \A m \in DOMAIN durCases[h] : durCases[h][m] \in Case
        BY DEF IInv, TypeOK, IsLog
      <3>2. CASE h # g
        BY <1>1, <2>1, <3>2 DEF Updated
      <3>3. CASE h = g
        BY <1>1, <2>1, <3>1, <3>3 DEF Updated, Deactivated, Case
      <3> QED
        BY <3>2, <3>3
    <2>3. CreatedInOrder'
      BY <1>1, <2>2 DEF QInv, CreatedInOrder
    <2>4. \A h \in Guilds : \A m \in DOMAIN cases[h] :
            cases[h][m].created <= clock
      BY <2>2 DEF QInv, Times
    <2>5. ASSUME NEW i \in DOMAIN waiters, Asked(waiters[i]),
                 NEW h \in Guilds, NEW m \in DOMAIN cases[h]
          PROVE  cases[h][m].created <= task[waiters[i]].now
      <3>1. waiters[i] \in Clients /\ Elder(waiters[i])
        BY <2>5 DEF IInv, TypeOK, QInv, Times
      <3> QED
        BY <2>2, <3>1 DEF Elder
    <2> QED
      BY <1>1, <2>3, <2>4, <2>5, LeaveQInv
  <1> QED
    BY <1>2, <1>3

(* A call that ends without a commit changes no dated row. *)
LEMMA GiveUpQInv ==
  ASSUME IInv, QInv, NEW c \in Clients,
         BeginFails(c) \/ Rollback(c) \/ CommitFails(c)
  PROVE  QInv'
  <1>1. /\ lock = c /\ Release(c) /\ clock' = clock /\ durCases' = durCases
    BY DEF BeginFails, Rollback, CommitFails, IInv, OneTransaction, TxPCs, durVars
  <1>2. CreatedInOrder'
    BY <1>1 DEF QInv, CreatedInOrder
  <1>3. \A g \in Guilds : \A n \in DOMAIN durCases[g] :
          durCases[g][n].created <= clock
    BY DEF QInv, Times
  <1>4. \A i \in DOMAIN waiters : Asked(waiters[i]) => Elder(waiters[i])
    BY DEF IInv, TypeOK, QInv, Times
  <1> QED
    BY <1>1, <1>2, <1>3, <1>4, LeaveQInv DEF Elder

(* A crash empties the queue; time leaves what was asked in the past. *)
LEMMA CrashTickQInv ==
  ASSUME IInv, QInv, Crash \/ Tick
  PROVE  QInv'
  <1>1. CASE Crash
    <2>1. /\ waiters' = <<>> /\ DOMAIN waiters' = {} /\ lock' = Free
          /\ \A c \in Clients : pc'[c] = "idle" /\ task'[c] = NoTask
          /\ UNCHANGED <<durCases, clock>> /\ NoTask.now = 0
      BY <1>1 DEF Crash, durVars, NoTask
    <2>2. Line'
      BY <2>1, FreeAssumption DEF Line
    <2>3. clock \in Nat /\ \A c \in Clients : ~Asked(c)'
      BY <2>1, TimeAssumption
         DEF Asked, Wanting, TxPCs, StatementPCs, IInv, TypeOK, Instants
    <2>4. Times'
      BY <2>1, <2>3 DEF QInv, Times
    <2> QED
      BY <2>1, <2>2, <2>4 DEF QInv, CreatedInOrder
  <1>2. CASE Tick
    <2>1. /\ UNCHANGED <<durCases, lock, waiters, pc, task>>
          /\ clock' = clock + 1 /\ clock \in Nat
      BY <1>2, TimeAssumption DEF Tick, durVars, IInv, TypeOK, Instants
    <2>2. \A c \in Clients : task[c].now \in Nat
      BY TimeAssumption DEF IInv, TypeOK, Task, Instants
    <2>3. \A g \in Guilds : \A n \in DOMAIN durCases[g] :
            durCases[g][n].created \in Nat
      BY TimeAssumption DEF IInv, TypeOK, IsLog, Case, Instants
    <2>4. /\ \A c \in Clients : task'[c].now <= clock'
          /\ \A g \in Guilds : \A n \in DOMAIN durCases'[g] :
               durCases'[g][n].created <= clock'
      BY <2>1, <2>2, <2>3 DEF QInv, Times
    <2>5. Times'
      BY <2>1, <2>4 DEF QInv, Times, Asked, Elder
    <2> QED
      BY <2>1, <2>5 DEF QInv, Line, CreatedInOrder
  <1> QED
    BY <1>1, <1>2

(* The second invariant holds in every reachable state. *)
THEOREM QueueInvariance == Spec => []QInv
  <1>1. Init => QInv
    <2> SUFFICES ASSUME Init PROVE QInv
      OBVIOUS
    <2>1. /\ waiters = <<>> /\ DOMAIN waiters = {} /\ lock = Free /\ clock = 0
          /\ \A c \in Clients : pc[c] = "idle" /\ task[c] = NoTask
          /\ \A g \in Guilds : DOMAIN durCases[g] = {}
          /\ NoTask.now = 0
      BY DEF Init, NoTask, EmptyLog
    <2>2. Line
      BY <2>1, FreeAssumption DEF Line
    <2>3. Times
      BY <2>1 DEF Times, Elder
    <2> QED
      BY <2>1, <2>2, <2>3 DEF QInv, CreatedInOrder
  <1>2. IInv /\ QInv /\ [Next]_vars => QInv'
    <2> SUFFICES ASSUME IInv, QInv, [Next]_vars PROVE QInv'
      OBVIOUS
    <2>1. ASSUME NEW c \in Clients, Call(c) \/ Step(c) PROVE QInv'
      BY <2>1, CallQInv, InsideQInv, CommitQInv, GiveUpQInv DEF Step
    <2>2. CASE Crash \/ Tick
      BY <2>2, CrashTickQInv
    <2>3. CASE UNCHANGED vars
      BY <2>3 DEF vars, QInv, Line, Times, Asked, Elder, CreatedInOrder
    <2> QED
      BY <2>1, <2>2, <2>3 DEF Next
  <1> QED
    BY <1>1, <1>2, Invariance, PTL DEF Spec

(* Committed cases are numbered in the order of their times: see           *)
(* CreatedInOrder.                                                         *)
THEOREM NumbersFollowClock == Spec => []CreatedInOrder
  BY QueueInvariance, PTL DEF QInv

(* The lock is never left behind, and every call that wants it has it or   *)
(* is queued for it exactly once: see WritersServed.                       *)
THEOREM LockServed == Spec => []WritersServed
  <1>1. IInv /\ QInv => WritersServed
    <2> SUFFICES ASSUME IInv, QInv PROVE WritersServed
      OBVIOUS
    <2>1. lock # Free => pc[lock] \in TxPCs \cup {"begin"}
      BY DEF IInv, TypeOK, QInv, Line, Wanting
    <2>2. lock = Free => waiters = <<>>
      BY DEF QInv, Line
    <2>3. ASSUME NEW c \in Clients, pc[c] = "begin", lock = c
          PROVE  Cardinality({i \in DOMAIN waiters : waiters[i] = c}) = 0
      <3>1. {i \in DOMAIN waiters : waiters[i] = c} = {}
        BY <2>3 DEF QInv, Line
      <3> QED
        BY <3>1, FS_EmptySet
    <2>4. ASSUME NEW c \in Clients, pc[c] = "begin", lock # c
          PROVE  Cardinality({i \in DOMAIN waiters : waiters[i] = c}) = 1
      <3>1. PICK i \in DOMAIN waiters : waiters[i] = c
        BY <2>4 DEF QInv, Line
      <3>2. {j \in DOMAIN waiters : waiters[j] = c} = {i}
        BY <3>1 DEF QInv, Line
      <3> QED
        BY <3>2, FS_Singleton
    <2> QED
      BY <2>1, <2>2, <2>3, <2>4 DEF WritersServed
  <1> QED
    BY <1>1, Invariance, QueueInvariance, PTL
=============================================================================
