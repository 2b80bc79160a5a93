------------------------------ MODULE Tickets ------------------------------
(***************************************************************************)
(* Support tickets of one guild (src/cogs/tickets.py): the button handlers *)
(* that open and close tickets, split at every `await', with the map of    *)
(* asyncio.Locks, the rows of the `tickets' table, the channels as Discord *)
(* has them and as the bot's gateway cache shows them.  A database write   *)
(* is one step (module CaseStore says why) that may raise and then changes *)
(* nothing; a Discord call may fail and then changes nothing.              *)
(***************************************************************************)
EXTENDS Naturals, Sequences, FiniteSets

CONSTANTS
  Users,      (* members who open tickets *)
  Channels,   (* bound: channel ids Discord can hand out, each once *)
  Clicks,     (* coroutines running open_ticket *)
  Closers,    (* coroutines running close_ticket *)
  Mixes,      (* bound: how many of them are pressed, <<clicks, closers>> *)
  Locks,      (* asyncio.Lock objects *)
  None

ASSUME UsersAssumption == Users # {} /\ None \notin Users
ASSUME NoneAssumption  == None \notin Channels /\ None \notin Locks
ASSUME CoroutinesAssumption == /\ IsFiniteSet(Clicks) /\ IsFiniteSet(Closers)
                               /\ Clicks \cap Closers = {}
ASSUME LocksAssumption == /\ IsFiniteSet(Locks)
                          /\ Cardinality(Locks) >= Cardinality(Clicks)

VARIABLES
  owner, status,      (* table tickets *)
  channel,            (* channel[ch]: what became of the channel on Discord *)
  cached,             (* channels guild.get_channel finds *)
  lockOf,             (* Tickets._open_locks *)
  held, queue,        (* per lock object: locked(), and its waiters *)
  pc, user, lock, existing, mine,  (* per click: where it is, its locals *)
  cpc, target,        (* per closer: where it is, its channel *)
  callers,            (* the coroutines that run, while the bot does *)
  delivered,          (* history: how a channel's transcript was delivered *)
  leaked              (* history: channels a failed call or a crash left *)

rowVars    == <<owner, status>>
lockVars   == <<lockOf, held, queue>>
clickVars  == <<pc, user, lock, existing, mine>>
closerVars == <<cpc, target>>
vars == <<rowVars, channel, cached, lockVars, clickVars, closerVars,
          callers, delivered, leaked>>

Init ==
  /\ owner     = [ch \in Channels |-> None]
  /\ status    = [ch \in Channels |-> "none"]
  /\ channel   = [ch \in Channels |-> "absent"]
  /\ cached    = {}
  /\ lockOf    = [u \in Users |-> None]
  /\ held      = [l \in Locks |-> FALSE]
  /\ queue     = [l \in Locks |-> <<>>]
  /\ pc        = [c \in Clicks |-> "idle"]
  /\ user      = [c \in Clicks |-> None]
  /\ lock      = [c \in Clicks |-> None]
  /\ existing  = [c \in Clicks |-> None]
  /\ mine      = [c \in Clicks |-> None]
  /\ cpc       = [k \in Closers |-> "idle"]
  /\ target    = [k \in Closers |-> None]
  /\ callers \in SUBSET (Clicks \cup Closers)
  /\ <<Cardinality(callers \cap Clicks), Cardinality(callers \cap Closers)>>
       \in Mixes
  /\ delivered = [ch \in Channels |-> "no"]
  /\ leaked    = {}

OpenTicketsOf(u) == {ch \in Channels : owner[ch] = u /\ status[ch] = "open"}

(* db.close_ticket: UPDATE ... WHERE channel_id = ? AND status != closed. *)
CloseRow(ch) ==
  /\ status' = [status EXCEPT ![ch] = IF @ = "open" THEN "closed" ELSE @]
  /\ UNCHANGED owner

(* Fault: no UNIQUE index on open tickets. *)
CreateRowUnchecked(ch, u) ==
  /\ owner'  = [owner EXCEPT ![ch] = u]
  /\ status' = [status EXCEPT ![ch] = "open"]

(* db.create_ticket: the ticket's number and its row in one transaction,   *)
(* which the UNIQUE index uq_tickets_open aborts when the member has an    *)
(* open ticket.  The number is on show only.                               *)
CreateRow(ch, u) ==
  /\ OpenTicketsOf(u) = {}
  /\ owner'  = [owner EXCEPT ![ch] = u]
  /\ status' = [status EXCEPT ![ch] = "open"]

-----------------------------------------------------------------------------
(* The lock of a member.                                                   *)
Goto(c, from, to) ==
  /\ pc[c] = from
  /\ pc'   = [pc EXCEPT ![c] = to]

UnusedLocks == {l \in Locks : /\ \A u \in Users : lockOf[u] # l
                              /\ \A c \in Clicks : lock[c] # l}

(* setdefault((guild, user), asyncio.Lock()) *)
LockFor(u) == IF lockOf[u] # None THEN lockOf[u]
                                  ELSE CHOOSE l \in UnusedLocks : TRUE

(* open_ticket from _lock_for to the lock: taken at once when it is free   *)
(* and nobody waits, else the coroutine joins its queue.                   *)
EnterLock(c, u) ==
  LET l    == LockFor(u)
      free == ~held[l] /\ queue[l] = <<>>
  IN  /\ Goto(c, "idle", IF free THEN "lookup" ELSE "waiting")
      /\ lockOf' = [lockOf EXCEPT ![u] = l]
      /\ held'   = [held EXCEPT ![l] = @ \/ free]
      /\ queue'  = [queue EXCEPT ![l] = IF free THEN @ ELSE Append(@, c)]
      /\ user'   = [user EXCEPT ![c] = u]
      /\ lock'   = [lock EXCEPT ![c] = l]
      /\ UNCHANGED <<rowVars, channel, cached, existing, mine, closerVars,
                     delivered, leaked>>

(* A released lock stays unlocked until its first waiter is resumed. *)
Resume(c) ==
  LET l == lock[c] IN
  /\ Goto(c, "waiting", "lookup")
  /\ ~held[l]
  /\ Head(queue[l]) = c
  /\ held'  = [held EXCEPT ![l] = TRUE]
  /\ queue' = [queue EXCEPT ![l] = Tail(@)]
  /\ UNCHANGED <<rowVars, channel, cached, lockOf, user, lock, existing, mine,
                 closerVars, delivered, leaked>>

(* _release_lock: forget the member's lock unless it is locked just now. *)
ReleaseLock(u, heldNow) ==
  lockOf' = [lockOf EXCEPT ![u] =
               IF @ # None /\ ~heldNow[@] THEN None ELSE @]

(* Fault: an early return that skips the release. *)
FinishHolding(c) ==
  /\ Goto(c, "finish", "idle")
  /\ ReleaseLock(user[c], held)
  /\ user'     = [user EXCEPT ![c] = None]
  /\ lock'     = [lock EXCEPT ![c] = None]
  /\ existing' = [existing EXCEPT ![c] = None]
  /\ mine'     = [mine EXCEPT ![c] = None]
  /\ UNCHANGED <<rowVars, channel, cached, held, queue, closerVars, delivered,
                 leaked>>

(* The handler's end: leave `async with lock', then the finally clause. *)
Finish(c) ==
  LET heldNow == [held EXCEPT ![lock[c]] = FALSE] IN
  /\ Goto(c, "finish", "idle")
  /\ held' = heldNow
  /\ ReleaseLock(user[c], heldNow)
  /\ user'     = [user EXCEPT ![c] = None]
  /\ lock'     = [lock EXCEPT ![c] = None]
  /\ existing' = [existing EXCEPT ![c] = None]
  /\ mine'     = [mine EXCEPT ![c] = None]
  /\ UNCHANGED <<rowVars, channel, cached, queue, closerVars, delivered, leaked>>

-----------------------------------------------------------------------------
(* _create_ticket, await by await.                                         *)
LookUp(c) ==
  /\ \/ /\ Goto(c, "lookup", "decide")
        /\ existing' = [existing EXCEPT ![c] =
             IF OpenTicketsOf(user[c]) = {} THEN None
             ELSE CHOOSE ch \in OpenTicketsOf(user[c]) : TRUE]
     \/ Goto(c, "lookup", "finish") /\ UNCHANGED existing
  /\ UNCHANGED <<rowVars, channel, cached, lockVars, user, lock, mine,
                 closerVars, delivered, leaked>>

(* Fault: the old ticket is closed without a look for its channel. *)
DecideBlind(c) ==
  /\ \/ existing[c] = None /\ Goto(c, "decide", "create")
     \/ existing[c] \in Channels /\ Goto(c, "decide", "closeold")
  /\ UNCHANGED <<rowVars, channel, cached, lockVars, user, lock, existing,
                 mine, closerVars, delivered, leaked>>

Decide(c) ==
  /\ \/ existing[c] = None /\ Goto(c, "decide", "create")
     \/ existing[c] \in cached /\ Goto(c, "decide", "finish")
     \/ existing[c] \in Channels \ cached /\ Goto(c, "decide", "closeold")
  /\ UNCHANGED <<rowVars, channel, cached, lockVars, user, lock, existing,
                 mine, closerVars, delivered, leaked>>

CloseOld(c) ==
  /\ \/ Goto(c, "closeold", "create") /\ CloseRow(existing[c])
     \/ Goto(c, "closeold", "finish") /\ UNCHANGED rowVars
  /\ UNCHANGED <<channel, cached, lockVars, user, lock, existing, mine,
                 closerVars, delivered, leaked>>

CreateChannel(c) ==
  /\ Goto(c, "create", "persist")
  /\ \E ch \in Channels :
       /\ channel[ch] = "absent"
       /\ channel' = [channel EXCEPT ![ch] = "live"]
       /\ cached'  = cached \cup {ch}
       /\ mine'    = [mine EXCEPT ![c] = ch]
  /\ UNCHANGED <<rowVars, lockVars, user, lock, existing, closerVars,
                 delivered, leaked>>

CreateChannelFails(c) ==
  /\ Goto(c, "create", "finish")
  /\ UNCHANGED <<rowVars, channel, cached, lockVars, user, lock, existing,
                 mine, closerVars, delivered, leaked>>

(* Fault: the channel is not removed when its row cannot be written. *)
PersistKeepsChannel(c) ==
  /\ Goto(c, "persist", "finish")
  /\ CreateRow(mine[c], user[c]) \/ UNCHANGED rowVars
  /\ UNCHANGED <<channel, cached, lockVars, user, lock, existing, mine,
                 closerVars, delivered, leaked>>

Persist(c) ==
  /\ \/ Goto(c, "persist", "finish") /\ CreateRow(mine[c], user[c])
     \/ Goto(c, "persist", "cleanup") /\ UNCHANGED rowVars
  /\ UNCHANGED <<channel, cached, lockVars, user, lock, existing, mine,
                 closerVars, delivered, leaked>>

(* channel.delete: done, or refused and then logged. *)
DeleteChannel(ch) ==
  \/ /\ channel[ch] = "live"
     /\ channel' = [channel EXCEPT ![ch] = "bybot"]
     /\ UNCHANGED leaked
  \/ /\ leaked' = leaked \cup {ch}
     /\ UNCHANGED channel

CleanUp(c) ==
  /\ Goto(c, "cleanup", "finish")
  /\ DeleteChannel(mine[c])
  /\ UNCHANGED <<rowVars, cached, lockVars, user, lock, existing, mine,
                 closerVars, delivered>>

-----------------------------------------------------------------------------
(* close_ticket, await by await.                                           *)
GotoK(k, from, to) ==
  /\ cpc[k] = from
  /\ cpc'   = [cpc EXCEPT ![k] = to]
  /\ target' = [target EXCEPT ![k] = IF to = "idle" THEN None ELSE @]

(* The row is looked up by channel; its status is not asked for. *)
PressClose(k, ch) ==
  /\ channel[ch] = "live"
  /\ status[ch] # "none"
  /\ cpc[k]  = "idle"
  /\ cpc'    = [cpc EXCEPT ![k] = "modlog"]
  /\ target' = [target EXCEPT ![k] = ch]
  /\ UNCHANGED <<rowVars, channel, cached, lockVars, clickVars, delivered,
                 leaked>>

(* _deliver_transcript: the mod log, and failing that the closer's DMs.    *)
(* The press may also end on the way here, for an acknowledgement Discord  *)
(* does not take or settings that cannot be read.                          *)
DeliverModlog(k) ==
  /\ \/ /\ GotoK(k, "modlog", "close")
        /\ delivered' = [delivered EXCEPT ![target[k]] = "modlog"]
     \/ GotoK(k, "modlog", "dm") /\ UNCHANGED delivered
     \/ GotoK(k, "modlog", "idle") /\ UNCHANGED delivered
  /\ UNCHANGED <<rowVars, channel, cached, lockVars, clickVars, leaked>>

(* Fault: a DM that fails counts as delivery. *)
DeliverDMAnyway(k) ==
  /\ GotoK(k, "dm", "close")
  /\ UNCHANGED <<rowVars, channel, cached, lockVars, clickVars, delivered,
                 leaked>>

DeliverDM(k) ==
  /\ \/ /\ GotoK(k, "dm", "close")
        /\ delivered' = [delivered EXCEPT ![target[k]] =
                           IF @ = "modlog" THEN @ ELSE "dm"]
     \/ GotoK(k, "dm", "idle") /\ UNCHANGED delivered
  /\ UNCHANGED <<rowVars, channel, cached, lockVars, clickVars, leaked>>

(* Fault: the channel is deleted although the row could not be closed. *)
CloseTicketAnyway(k) ==
  /\ GotoK(k, "close", "delete")
  /\ CloseRow(target[k]) \/ UNCHANGED rowVars
  /\ UNCHANGED <<channel, cached, lockVars, clickVars, delivered, leaked>>

CloseTicket(k) ==
  /\ \/ GotoK(k, "close", "delete") /\ CloseRow(target[k])
     \/ GotoK(k, "close", "idle") /\ UNCHANGED rowVars
  /\ UNCHANGED <<channel, cached, lockVars, clickVars, delivered, leaked>>

DeleteTicketChannel(k) ==
  /\ GotoK(k, "delete", "idle")
  /\ DeleteChannel(target[k])
  /\ UNCHANGED <<rowVars, cached, lockVars, clickVars, delivered>>

-----------------------------------------------------------------------------
(* The world.  A moderator deletes a channel by hand; the gateway tells    *)
(* the bot, some time later, that a channel is gone; the process dies and  *)
(* starts again, with empty locks and a fresh cache.                       *)
HumanDeletes(ch) ==
  /\ channel[ch] = "live"
  /\ channel' = [channel EXCEPT ![ch] = "byhuman"]
  /\ UNCHANGED <<rowVars, cached, lockVars, clickVars, closerVars, delivered,
                 leaked>>

GatewayDelete(ch) ==
  /\ ch \in cached
  /\ channel[ch] # "live"
  /\ cached' = cached \ {ch}
  /\ UNCHANGED <<rowVars, channel, lockVars, clickVars, closerVars, delivered,
                 leaked>>

Live == {ch \in Channels : channel[ch] = "live"}

Restart ==
  /\ lockOf'   = [u \in Users |-> None]
  /\ held'     = [l \in Locks |-> FALSE]
  /\ queue'    = [l \in Locks |-> <<>>]
  /\ pc'       = [c \in Clicks |-> "idle"]
  /\ user'     = [c \in Clicks |-> None]
  /\ lock'     = [c \in Clicks |-> None]
  /\ existing' = [c \in Clicks |-> None]
  /\ mine'     = [c \in Clicks |-> None]
  /\ cpc'      = [k \in Closers |-> "idle"]
  /\ target'   = [k \in Closers |-> None]
  /\ cached'   = Live
  /\ leaked'   = leaked \cup {ch \in Live : status[ch] # "open"}
  /\ UNCHANGED <<rowVars, channel, delivered>>

ClickStep(c) ==
  \/ Resume(c) \/ LookUp(c) \/ Decide(c) \/ CloseOld(c)
  \/ CreateChannel(c) \/ CreateChannelFails(c)
  \/ Persist(c) \/ CleanUp(c) \/ Finish(c)

CloserStep(k) ==
  \/ DeliverModlog(k) \/ DeliverDM(k) \/ CloseTicket(k)
  \/ DeleteTicketChannel(k)

Opening == \E c \in Clicks \cap callers :
             (\E u \in Users : EnterLock(c, u)) \/ ClickStep(c)

Closing == \E k \in Closers \cap callers :
             (\E ch \in Channels : PressClose(k, ch)) \/ CloserStep(k)

Next ==
  /\ \/ Opening \/ Closing
     \/ \E ch \in Channels : HumanDeletes(ch) \/ GatewayDelete(ch)
     \/ Restart
  /\ UNCHANGED callers

Spec == Init /\ [][Next]_vars

-----------------------------------------------------------------------------
(* Every variable has its type. *)
TypeOK ==
  /\ owner \in [Channels -> Users \cup {None}]
  /\ status \in [Channels -> {"none", "open", "closed"}]
  /\ channel \in [Channels -> {"absent", "live", "bybot", "byhuman"}]
  /\ cached \subseteq Channels
  /\ lockOf \in [Users -> Locks \cup {None}]
  /\ held \in [Locks -> BOOLEAN]
  /\ queue \in [Locks -> Seq(Clicks)]
  /\ pc \in [Clicks -> {"idle", "waiting", "lookup", "decide", "closeold",
                        "create", "persist", "cleanup", "finish"}]
  /\ user \in [Clicks -> Users \cup {None}]
  /\ lock \in [Clicks -> Locks \cup {None}]
  /\ existing \in [Clicks -> Channels \cup {None}]
  /\ mine \in [Clicks -> Channels \cup {None}]
  /\ cpc \in [Closers -> {"idle", "modlog", "dm", "close", "delete"}]
  /\ target \in [Closers -> Channels \cup {None}]
  /\ callers \subseteq Clicks \cup Closers
  /\ delivered \in [Channels -> {"no", "modlog", "dm"}]
  /\ leaked \subseteq Channels

(* "One open ticket per user per server": however many clicks run at once, *)
(* whatever fails, is closed or restarts in between.                       *)
OneOpenTicketPerUser ==
  \A u \in Users : Cardinality(OpenTicketsOf(u)) <= 1

(* The bot never deletes a channel whose ticket is still open: such a      *)
(* member would be told to use a channel that is gone.                     *)
BotKeepsOpenTickets ==
  \A ch \in Channels : channel[ch] = "bybot" => status[ch] # "open"

(* The bot deletes a ticket's channel only after its transcript reached    *)
(* somebody, by the mod log or by DM.                                      *)
TranscriptBeforeDelete ==
  \A ch \in Channels :
    channel[ch] = "bybot" /\ status[ch] # "none" => delivered[ch] # "no"

(* A live channel the bot made is an open ticket's, or a coroutine still   *)
(* has it in hand, or a refused deletion or a crash is to blame: the click *)
(* that loses the race at the UNIQUE index takes its channel away.         *)
NoStrayChannels ==
  \A ch \in Live :
    \/ status[ch] = "open"
    \/ ch \in leaked
    \/ \E c \in Clicks : pc[c] \in {"persist", "cleanup"} /\ mine[c] = ch
    \/ \E k \in Closers : cpc[k] = "delete" /\ target[k] = ch

(* A ticket is closed only once its transcript is delivered or its channel *)
(* is gone: a stale lookup never closes a ticket that is in use.           *)
ClosedForAReason ==
  [][\A ch \in Channels :
       status[ch] = "open" /\ status'[ch] = "closed" =>
         delivered[ch] # "no" \/ channel[ch] # "live"]_vars

(* A lock lives as long as somebody needs it.  A member nobody is opening  *)
(* a ticket for has none in the map; and no waiter is forgotten when its   *)
(* lock is dropped: it is in the queue of its lock, which is free for the  *)
(* first in the queue or held by a click that is running.                  *)
WaitersServed ==
  /\ \A u \in Users :
       lockOf[u] # None => \E c \in Clicks : user[c] = u /\ lock[c] = lockOf[u]
  /\ \A c \in Clicks :
       pc[c] = "waiting" =>
         /\ \E i \in DOMAIN queue[lock[c]] : queue[lock[c]][i] = c
         /\ held[lock[c]] => \E d \in Clicks : /\ lock[d] = lock[c]
                                               /\ pc[d] \notin {"idle", "waiting"}

(* "a per-(guild, user) lock serialises simultaneous clicks": broken by    *)
(* the code when a lock is dropped between its release and the resumption  *)
(* of its waiter (README.md).                                              *)
ClicksSerialised ==
  \A c, d \in Clicks :
    c # d /\ {pc[c], pc[d]} \cap {"idle", "waiting"} = {} => user[c] # user[d]

(* "If the mod log is missing or the send fails, the channel is kept       *)
(* open": broken by the code, which is content with a DM (README.md).      *)
KeptWithoutModlog ==
  \A ch \in Channels :
    channel[ch] = "bybot" /\ status[ch] # "none" => delivered[ch] = "modlog"
=============================================================================
