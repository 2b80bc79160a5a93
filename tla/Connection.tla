----------------------------- MODULE Connection -----------------------------
(***************************************************************************)
(* The one aiosqlite connection of src/data/db.py as its coroutines share  *)
(* it: a thread that runs statements in the order they were submitted and  *)
(* resumes their callers in that order, and Database._write_lock, whose    *)
(* waiters are served first come, first served.  The two caches that read  *)
(* through it share its variables (module Caches).                         *)
(* CaseStore lets the event loop resume coroutines in any order; where the *)
(* order decides what a cache ends up holding, it is kept as it is.        *)
(***************************************************************************)
EXTENDS Sequences

CONSTANTS
  Coros,   (* coroutines that call the Database *)
  Free     (* _write_lock is not held *)

ASSUME FreeAssumption == Free \notin Coros

VARIABLES
  conn,  (* pending statements and the write lock, a record as Idle *)
  pc     (* where each coroutine is suspended *)

Idle == [queue |-> <<>>, lock |-> Free, waiters |-> <<>>]

IsConnection(k) ==
  /\ k.queue \in Seq(Coros)
  /\ k.lock \in Coros \cup {Free}
  /\ k.waiters \in Seq(Coros)

Goto(c, to) == pc' = [pc EXCEPT ![c] = to]

(* c has a statement at the thread; the thread is done with the first one. *)
Submit(k, c)  == [k EXCEPT !.queue = Append(@, c)]
IsNext(k, c)  == k.queue # <<>> /\ Head(k.queue) = c
Answered(k)   == [k EXCEPT !.queue = Tail(@)]

(* The thread has run c's statement, the one c waited for at `at'. *)
Resumed(c, at) == IsNext(conn, c) /\ pc[c] = at

(* The caller of the first statement goes on to another one. *)
Continue(k, c) == Submit(Answered(k), c)

(* `async with self._write_lock', then BEGIN IMMEDIATE is submitted. *)
Lock(k, c) ==
  IF k.lock = Free /\ k.waiters = <<>>
    THEN Submit([k EXCEPT !.lock = c], c)
    ELSE [k EXCEPT !.waiters = Append(@, c)]

Unlock(k) ==
  IF k.waiters = <<>>
    THEN [k EXCEPT !.lock = Free]
    ELSE Submit([k EXCEPT !.lock = Head(k.waiters),
                          !.waiters = Tail(@)], Head(k.waiters))
=============================================================================
