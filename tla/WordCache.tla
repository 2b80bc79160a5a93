------------------------------ MODULE WordCache ------------------------------
(***************************************************************************)
(* One guild's word filter (src/services/word_filter.py over the word      *)
(* methods of src/data/db.py): messages read the compiled filter through a *)
(* cache that every change of the list drops.  A change is a transaction   *)
(* of one statement per word; a read does not take the write lock and sees *)
(* what the connection sees.                                               *)
(***************************************************************************)
EXTENDS Connection, FiniteSets

CONSTANTS
  Words,      (* words a moderator may add *)
  NotCached   (* no compiled filter for the guild *)

VARIABLES
  words,     (* guild_words as the connection sees it *)
  stored,    (* guild_words as last committed *)
  filter,    (* _cache[guild_id]: the words the compiled filter looks for *)
  op,        (* per coroutine: what it does *)
  arg, left, (* words to add or remove, those without a statement yet *)
  custom,    (* rows its SELECT returned *)
  failed     (* history: some statement of a change has raised *)

callVars == <<op, arg, left, custom>>
vars     == <<conn, words, stored, filter, pc, callVars, failed>>

Changes == {"add", "remove", "clear"}

Init ==
  /\ conn   = Idle
  /\ words \in SUBSET Words
  /\ stored = words
  /\ filter = NotCached
  /\ pc     = [c \in Coros |-> "idle"]
  /\ op     = [c \in Coros |-> "find"]
  /\ arg    = [c \in Coros |-> {}]
  /\ left   = [c \in Coros |-> {}]
  /\ custom = [c \in Coros |-> {}]
  /\ failed = FALSE

(* The call returns or raises; its locals are gone. *)
Return(c) ==
  /\ Goto(c, "idle")
  /\ op'     = [op EXCEPT ![c] = "find"]
  /\ arg'    = [arg EXCEPT ![c] = {}]
  /\ left'   = [left EXCEPT ![c] = {}]
  /\ custom' = [custom EXCEPT ![c] = {}]

-----------------------------------------------------------------------------
(* find without a compiled filter (with one it does not suspend).          *)
Find(c) ==
  /\ pc[c] = "idle"
  /\ filter = NotCached
  /\ Goto(c, "select")
  /\ conn' = Submit(conn, c)
  /\ UNCHANGED <<words, stored, filter, callVars, failed>>

(* get_words: three awaits on the thread, for SELECT, fetchall and close.  *)
Select(c) ==
  /\ Resumed(c, "select")
  /\ custom' = [custom EXCEPT ![c] = words]
  /\ Goto(c, "fetch")
  /\ conn' = Continue(conn, c)
  /\ UNCHANGED <<words, stored, filter, op, arg, left, failed>>

(* SQLite steps a SELECT as its rows are fetched: it is undefined which of *)
(* the writes made meanwhile on the same connection they show.             *)
FetchAll(c) ==
  /\ Resumed(c, "fetch")
  /\ \E rows \in SUBSET (custom[c] \cup words) :
       /\ custom[c] \cap words \subseteq rows
       /\ custom' = [custom EXCEPT ![c] = rows]
  /\ Goto(c, "close")
  /\ conn' = Continue(conn, c)
  /\ UNCHANGED <<words, stored, filter, op, arg, left, failed>>

(* _filter_for compiles the filter and caches it. *)
Fill(c) ==
  /\ Resumed(c, "close")
  /\ filter' = custom[c]
  /\ Return(c)
  /\ conn' = Answered(conn)
  /\ UNCHANGED <<words, stored, failed>>

ReadFails(c) ==
  /\ \E at \in {"select", "fetch", "close"} : Resumed(c, at)
  /\ Return(c)
  /\ conn' = Answered(conn)
  /\ UNCHANGED <<words, stored, filter, failed>>

-----------------------------------------------------------------------------
(* add, remove and clear: a transaction, then invalidate. *)
Change(c, o, ws) ==
  /\ pc[c] = "idle"
  /\ op'   = [op EXCEPT ![c] = o]
  /\ arg'  = [arg EXCEPT ![c] = ws]
  /\ left' = [left EXCEPT ![c] = ws]
  /\ Goto(c, "begin")
  /\ conn' = Lock(conn, c)
  /\ UNCHANGED <<words, stored, filter, custom, failed>>

Begin(c) ==
  /\ Resumed(c, "begin")
  /\ Goto(c, "write")
  /\ conn' = Continue(conn, c)
  /\ UNCHANGED <<words, stored, filter, callVars, failed>>

BeginFails(c) ==
  /\ Resumed(c, "begin")
  /\ Return(c)
  /\ conn' = Unlock(Answered(conn))
  /\ UNCHANGED <<words, stored, filter, failed>>

(* One INSERT per word, or the one DELETE. *)
Write(c) ==
  /\ Resumed(c, "write")
  /\ \/ /\ op[c] = "add"
        /\ \E w \in left[c] :
             /\ words' = words \cup {w}
             /\ left'  = [left EXCEPT ![c] = @ \ {w}]
     \/ /\ op[c] = "remove"
        /\ words' = words \ arg[c]
        /\ left'  = [left EXCEPT ![c] = {}]
     \/ /\ op[c] = "clear"
        /\ words' = {}
        /\ UNCHANGED left
  /\ Goto(c, "written")
  /\ conn' = Continue(conn, c)
  /\ UNCHANGED <<stored, filter, op, arg, custom, failed>>

(* The cursor is closed before the next statement. *)
Written(c) ==
  /\ Resumed(c, "written")
  /\ Goto(c, IF left[c] = {} THEN "commit" ELSE "write")
  /\ conn' = Continue(conn, c)
  /\ UNCHANGED <<words, stored, filter, callVars, failed>>

WriteFails(c) ==
  /\ Resumed(c, "write") \/ Resumed(c, "written")
  /\ Goto(c, "rollback")
  /\ failed' = TRUE
  /\ conn' = Continue(conn, c)
  /\ UNCHANGED <<words, stored, filter, callVars>>

(* Fault: the transaction is given up without a ROLLBACK. *)
RollbackForgotten(c) ==
  /\ Resumed(c, "rollback")
  /\ Return(c)
  /\ conn' = Unlock(Answered(conn))
  /\ UNCHANGED <<words, stored, filter, failed>>

(* The error leaves the method before it gets to invalidate. *)
Rollback(c) ==
  /\ Resumed(c, "rollback")
  /\ words' = stored
  /\ Return(c)
  /\ conn' = Unlock(Answered(conn))
  /\ UNCHANGED <<stored, filter, failed>>

(* So does a COMMIT that raises and undoes the transaction (module         *)
(* CaseStore has the one that leaves it open).                             *)
CommitFails(c) ==
  /\ Resumed(c, "commit")
  /\ words' = stored
  /\ failed' = TRUE
  /\ Return(c)
  /\ conn' = Unlock(Answered(conn))
  /\ UNCHANGED <<stored, filter>>

(* Fault: the change does not drop the compiled filter. *)
CommitKeepsFilter(c) ==
  /\ Resumed(c, "commit")
  /\ stored' = words
  /\ Return(c)
  /\ conn' = Unlock(Answered(conn))
  /\ UNCHANGED <<words, filter, failed>>

Commit(c) ==
  /\ Resumed(c, "commit")
  /\ stored' = words
  /\ filter' = NotCached
  /\ Return(c)
  /\ conn' = Unlock(Answered(conn))
  /\ UNCHANGED <<words, failed>>

-----------------------------------------------------------------------------
(* invalidate, on its own in reload_defaults. *)
Invalidate ==
  /\ filter' = NotCached
  /\ UNCHANGED <<conn, words, stored, pc, callVars, failed>>

Restart ==
  /\ conn'   = Idle
  /\ words'  = stored
  /\ filter' = NotCached
  /\ pc'     = [c \in Coros |-> "idle"]
  /\ op'     = [c \in Coros |-> "find"]
  /\ arg'    = [c \in Coros |-> {}]
  /\ left'   = [c \in Coros |-> {}]
  /\ custom' = [c \in Coros |-> {}]
  /\ UNCHANGED <<stored, failed>>

Call(c) ==
  \/ Find(c)
  \/ \E ws \in SUBSET Words \ {{}} : Change(c, "add", ws)
  \/ \E w \in Words : Change(c, "remove", {w})
  \/ Change(c, "clear", {})

Step(c) ==
  \/ Select(c) \/ FetchAll(c) \/ Fill(c) \/ ReadFails(c)
  \/ Begin(c) \/ BeginFails(c) \/ Write(c) \/ Written(c) \/ WriteFails(c)
  \/ Rollback(c) \/ CommitFails(c) \/ Commit(c)

Next ==
  \/ \E c \in Coros : Call(c) \/ Step(c)
  \/ Invalidate
  \/ Restart

Spec == Init /\ [][Next]_vars

-----------------------------------------------------------------------------
(* Every variable has its type. *)
TypeOK ==
  /\ IsConnection(conn)
  /\ words \subseteq Words /\ stored \subseteq Words
  /\ filter \in SUBSET Words \cup {NotCached}
  /\ pc \in [Coros -> {"idle", "select", "fetch", "close", "begin", "write",
                       "written", "commit", "rollback"}]
  /\ op \in [Coros -> Changes \cup {"find"}]
  /\ arg \in [Coros -> SUBSET Words]
  /\ left \in [Coros -> SUBSET Words]
  /\ custom \in [Coros -> SUBSET Words]
  /\ failed \in BOOLEAN

(* What one call makes of the list. *)
Result(c, list) ==
  CASE op[c] = "add"    -> list \cup arg[c]
    [] op[c] = "remove" -> list \ arg[c]
    [] op[c] = "clear"  -> {}

(* A call changes the committed list as a whole or not at all: no word of  *)
(* an /words add that failed half-way rides along with a later commit.     *)
AllOrNothing ==
  [][stored' # stored =>
       \E c \in Coros : op[c] \in Changes /\ stored' = Result(c, stored)]_vars

(* "a guild's cache entry is dropped whenever its list changes": while no  *)
(* change holds the write lock, messages are held against the stored list, *)
(* as long as no change has failed (the rows of one that failed may have   *)
(* been read and cached before they were rolled back).  A reader that      *)
(* missed the cache fills it two awaits after its SELECT; what keeps it    *)
(* from filling in an old list after a change has dropped the entry is the *)
(* order in which the connection answers.                                  *)
FilterCurrent ==
  conn.lock = Free /\ ~failed => filter \in {NotCached, stored}
=============================================================================
