----------------------------- MODULE ConfigCache -----------------------------
(***************************************************************************)
(* One guild's settings: GuildConfigService (src/services/guild_config.py) *)
(* over get_config and upsert_config (src/data/db.py), at the awaits.      *)
(* get reads through the cache and writes the defaults on first use;       *)
(* update merges some fields into the whole config it got and writes the   *)
(* whole row.  The cached config is read without suspending, so what an    *)
(* update merges into can be old by the time its row is written.           *)
(***************************************************************************)
EXTENDS Connection, Naturals

CONSTANTS
  Channels,       (* channels the mod log may be set to *)
  Unset,          (* mod_log_channel_id IS NULL *)
  MaxThreshold,   (* bound on the warning thresholds *)
  Absent          (* no row, or no cache entry, for the guild *)

VARIABLES
  row,      (* the guild_config row as the connection sees it *)
  stored,   (* the row as last committed *)
  cache,    (* _cache[guild_id] *)
  fields,   (* the fields it updates; none when it only reads *)
  cfg,      (* the config it has read, or is writing *)
  making,   (* coroutines whose get_config is writing the defaults *)
  left      (* history: the bot has left the guild since it started *)

callVars == <<fields, cfg, making>>
vars     == <<conn, row, stored, cache, pc, callVars, left>>

Config == [kick : 1..MaxThreshold, ban : 1..MaxThreshold,
           log  : Channels \cup {Unset}]

(* GuildConfig(guild_id): kick below ban, no mod log. *)
Defaults == [kick |-> 1, ban |-> MaxThreshold, log |-> Unset]

(* What the commands pass to update: the two thresholds, checked by        *)
(* /set_warn_thresholds, or the mod log of /set_modlog.  The other         *)
(* commands of admin.py pass one unchecked field, like the mod log, or     *)
(* several at once, like the thresholds.                                   *)
NoFields == [set |-> "none"]
Thresholds ==
  {[set |-> "thresholds", kick |-> k, ban |-> b] :
     k \in 1..MaxThreshold, b \in 1..MaxThreshold}
(* Fault: /set_warn_thresholds does not compare the two. *)
AnyThresholds == Thresholds

ValidThresholds == {f \in Thresholds : f.ban >= f.kick}
LogChannels == {[set |-> "log", log |-> ch] : ch \in Channels}
Fields == ValidThresholds \cup LogChannels

(* dataclasses.replace(cfg, **fields) *)
Merge(c, f) ==
  CASE f.set = "none"       -> c
    [] f.set = "thresholds" -> [c EXCEPT !.kick = f.kick, !.ban = f.ban]
    [] f.set = "log"        -> [c EXCEPT !.log = f.log]

Init ==
  /\ conn   = Idle
  /\ row \in Config \cup {Absent}
  /\ row # Absent => row.kick <= row.ban
  /\ stored = row
  /\ cache  = Absent
  /\ pc     = [c \in Coros |-> "idle"]
  /\ fields = [c \in Coros |-> NoFields]
  /\ cfg    = [c \in Coros |-> Defaults]
  /\ making = {}
  /\ left   = FALSE

(* get or update ends, and the connection is left as k. *)
Return(c, k) ==
  /\ Goto(c, "idle")
  /\ conn'   = k
  /\ fields' = [fields EXCEPT ![c] = NoFields]
  /\ cfg'    = [cfg EXCEPT ![c] = Defaults]
  /\ making' = making \ {c}

(* upsert_config(new), up to its BEGIN. *)
Upsert(c, new, k) ==
  /\ Goto(c, "begin")
  /\ cfg'  = [cfg EXCEPT ![c] = new]
  /\ conn' = Lock(k, c)

(* get caches its config: a reader returns it, an update goes on to write. *)
Got(c, config, k) ==
  /\ cache' = config
  /\ IF fields[c] = NoFields
       THEN Return(c, k)
       ELSE /\ Upsert(c, Merge(config, fields[c]), k)
            /\ making' = making \ {c}
            /\ UNCHANGED fields

-----------------------------------------------------------------------------
(* get finds no cached config and submits get_config's SELECT.             *)
Miss(c, f) ==
  /\ pc[c] = "idle"
  /\ cache = Absent
  /\ fields' = [fields EXCEPT ![c] = f]
  /\ Goto(c, "select")
  /\ conn' = Submit(conn, c)
  /\ UNCHANGED <<row, stored, cache, cfg, making, left>>

(* update with a cached config merges at once and waits for the lock.      *)
UpdateCached(c, f) ==
  /\ pc[c] = "idle"
  /\ cache # Absent
  /\ fields' = [fields EXCEPT ![c] = f]
  /\ Upsert(c, Merge(cache, f), conn)
  /\ UNCHANGED <<row, stored, cache, making, left>>

(* The SELECT steps to its only row as it is executed. *)
Select(c) ==
  /\ Resumed(c, "select")
  /\ cfg' = [cfg EXCEPT ![c] = row]
  /\ Goto(c, "fetch")
  /\ conn' = Continue(conn, c)
  /\ UNCHANGED <<row, stored, cache, fields, making, left>>

FetchOne(c) ==
  /\ Resumed(c, "fetch")
  /\ Goto(c, "close")
  /\ conn' = Continue(conn, c)
  /\ UNCHANGED <<row, stored, cache, callVars, left>>

(* With a row, get caches it; without one, get_config writes the defaults. *)
Closed(c) ==
  /\ Resumed(c, "close")
  /\ \/ cfg[c] # Absent /\ Got(c, cfg[c], Answered(conn))
     \/ /\ cfg[c] = Absent
        /\ making' = making \cup {c}
        /\ Upsert(c, Defaults, Answered(conn))
        /\ UNCHANGED <<cache, fields>>
  /\ UNCHANGED <<row, stored, left>>

ReadFails(c) ==
  /\ \E at \in {"select", "fetch", "close"} : Resumed(c, at)
  /\ Return(c, Answered(conn))
  /\ UNCHANGED <<row, stored, cache, left>>

-----------------------------------------------------------------------------
(* upsert_config's transaction: of the defaults, or of an update. *)
Begin(c) ==
  /\ Resumed(c, "begin")
  /\ Goto(c, "insert")
  /\ conn' = Continue(conn, c)
  /\ UNCHANGED <<row, stored, cache, callVars, left>>

BeginFails(c) ==
  /\ Resumed(c, "begin")
  /\ Return(c, Unlock(Answered(conn)))
  /\ UNCHANGED <<row, stored, cache, left>>

(* INSERT ... ON CONFLICT DO UPDATE: every column is written. *)
Insert(c) ==
  /\ Resumed(c, "insert")
  /\ row' = cfg[c]
  /\ Goto(c, "commit")
  /\ conn' = Continue(conn, c)
  /\ UNCHANGED <<stored, cache, callVars, left>>

InsertFails(c) ==
  /\ Resumed(c, "insert")
  /\ Goto(c, "rollback")
  /\ conn' = Continue(conn, c)
  /\ UNCHANGED <<row, stored, cache, callVars, left>>

Rollback(c) ==
  /\ Resumed(c, "rollback")
  /\ row' = stored
  /\ Return(c, Unlock(Answered(conn)))
  /\ UNCHANGED <<stored, cache, left>>

(* A COMMIT that raises undoes the transaction here (module CaseStore has  *)
(* the one that leaves it open).                                           *)
CommitFails(c) ==
  /\ Resumed(c, "commit")
  /\ row' = stored
  /\ Return(c, Unlock(Answered(conn)))
  /\ UNCHANGED <<stored, cache, left>>

(* Fault: the write does not refresh the cache. *)
CommitUncached(c) ==
  /\ Resumed(c, "commit")
  /\ stored' = row
  /\ \/ c \in making /\ Got(c, cfg[c], Unlock(Answered(conn)))
     \/ /\ c \notin making
        /\ Return(c, Unlock(Answered(conn)))
        /\ UNCHANGED cache
  /\ UNCHANGED <<row, left>>

(* The lock is released and, without suspending, the cache is written; an  *)
(* update that has just made the defaults queues for the lock again.       *)
Commit(c) ==
  /\ Resumed(c, "commit")
  /\ stored' = row
  /\ \/ c \in making /\ Got(c, cfg[c], Unlock(Answered(conn)))
     \/ /\ c \notin making
        /\ cache' = cfg[c]
        /\ Return(c, Unlock(Answered(conn)))
  /\ UNCHANGED <<row, left>>

-----------------------------------------------------------------------------
(* on_guild_remove: invalidate. *)
Invalidate ==
  /\ cache' = Absent
  /\ left'  = TRUE
  /\ UNCHANGED <<conn, row, stored, pc, callVars>>

Restart ==
  /\ conn'   = Idle
  /\ row'    = stored
  /\ cache'  = Absent
  /\ pc'     = [c \in Coros |-> "idle"]
  /\ fields' = [c \in Coros |-> NoFields]
  /\ cfg'    = [c \in Coros |-> Defaults]
  /\ making' = {}
  /\ left'   = FALSE
  /\ UNCHANGED stored

Call(c) ==
  \/ \E f \in Fields \cup {NoFields} : Miss(c, f)
  \/ \E f \in Fields : UpdateCached(c, f)

Step(c) ==
  \/ Select(c) \/ FetchOne(c) \/ Closed(c) \/ ReadFails(c)
  \/ Begin(c) \/ BeginFails(c) \/ Insert(c) \/ InsertFails(c)
  \/ Rollback(c) \/ CommitFails(c) \/ Commit(c)

Next ==
  \/ \E c \in Coros : Call(c) \/ Step(c)
  \/ Invalidate
  \/ Restart

Spec == Init /\ [][Next]_vars

-----------------------------------------------------------------------------
(* Every variable has its type. *)
TypeOK ==
  /\ IsConnection(conn)
  /\ row \in Config \cup {Absent} /\ stored \in Config \cup {Absent}
  /\ cache \in Config \cup {Absent}
  /\ pc \in [Coros -> {"idle", "select", "fetch", "close", "begin", "insert",
                       "commit", "rollback"}]
  /\ fields \in [Coros -> Fields \cup {NoFields}]
  /\ cfg \in [Coros -> Config \cup {Absent}]
  /\ making \subseteq Coros
  /\ left \in BOOLEAN

(* "Ban threshold must be >= kick threshold": no mix of concurrent updates *)
(* leaves a pair that no moderator set, on disk or for escalation to read. *)
ThresholdsOrdered ==
  \A c \in {row, stored, cache} : c # Absent => c.kick <= c.ban

(* The cache is written by three paths (a read, the defaults, an update).  *)
(* While nobody holds the write lock it is what a fresh read would give,   *)
(* although a get that missed fills it three awaits after it has read, and *)
(* whatever update fails.  (Once the bot has left the guild the entry may  *)
(* be filled from an update that is rolled back; nobody reads it then.)    *)
CacheFresh ==
  conn.lock = Free /\ ~left =>
    cache \in {Absent, IF stored = Absent THEN Defaults ELSE stored}

(* "materialising defaults on first use": the defaults get_config writes   *)
(* are the guild's first row, never one that replaces settings in use:     *)
(* broken by the code, which decides outside the write lock (README.md).   *)
DefaultsOnlyWhenAbsent ==
  [][\A c \in making :
       stored' # stored /\ Commit(c) => stored = Absent]_vars

(* "Persist ``fields`` for a guild": an update changes the fields it was   *)
(* given and leaves the others as they were stored: broken by the code,    *)
(* which merges before it asks for the lock (README.md).                   *)
OnlyItsFields ==
  [][\A c \in Coros \ making :
       Commit(c) /\ stored # Absent =>
         stored' = Merge(stored, fields[c])]_vars
=============================================================================
