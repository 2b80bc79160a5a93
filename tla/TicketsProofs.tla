--------------------------- MODULE TicketsProofs ---------------------------
(***************************************************************************)
(* Theorems about Tickets, for any sets of members, channels and presses.  *)
(* The inductive invariant has two halves.  TicketInv relates what a       *)
(* coroutine remembers across its awaits to the rows and the channels, and *)
(* yields every property of tickets.  LockInv relates the lock objects to  *)
(* the clicks that hold or await them, and yields WaitersServed.  Neither  *)
(* half uses the other: one open ticket per member does not rest on the    *)
(* lock, which the code may drop too early.                                *)
(***************************************************************************)
EXTENDS Tickets, TLAPS, FiniteSetTheorems

-----------------------------------------------------------------------------
(* The rows and the channels.                                              *)
InHand(c) == pc[c] \in {"persist", "cleanup"}

(* A channel nobody made has no row; the cache lags behind deletions only. *)
ChannelsKnown ==
  \A ch \in Channels :
    /\ channel[ch] = "absent" => status[ch] = "none"
    /\ channel[ch] = "live"   => ch \in cached

OpenOnce ==
  \A ch1, ch2 \in Channels :
    /\ status[ch1] = "open" /\ status[ch2] = "open"
    /\ owner[ch1] = owner[ch2]
    => ch1 = ch2

(* A click's own channel has no row yet, and the bot has not deleted it.   *)
OwnChannels ==
  /\ \A c \in Clicks :
       InHand(c) => /\ mine[c] \in Channels
                    /\ channel[mine[c]] \in {"live", "byhuman"}
                    /\ status[mine[c]] = "none"
  /\ \A c, d \in Clicks : InHand(c) /\ InHand(d) /\ mine[c] = mine[d] => c = d

(* The old ticket a click looked up: once its channel was not in the cache *)
(* the channel is gone for good.                                           *)
OldTickets ==
  \A c \in Clicks :
    /\ pc[c] = "decide" /\ existing[c] # None => status[existing[c]] # "none"
    /\ pc[c] = "closeold" => /\ existing[c] \in Channels
                             /\ channel[existing[c]] \notin {"absent", "live"}

(* How far a press of the close button has come.                           *)
ClosersKnow ==
  \A k \in Closers :
    /\ cpc[k] # "idle" => target[k] \in Channels /\ status[target[k]] # "none"
    /\ cpc[k] \in {"close", "delete"} => delivered[target[k]] # "no"
    /\ cpc[k] = "delete" => status[target[k]] = "closed"

TicketInv == /\ TypeOK
             /\ ChannelsKnown
             /\ OpenOnce
             /\ OwnChannels
             /\ OldTickets
             /\ ClosersKnow
             /\ BotKeepsOpenTickets
             /\ TranscriptBeforeDelete
             /\ NoStrayChannels

-----------------------------------------------------------------------------
(* The locks.                                                              *)
Running(c) == pc[c] \notin {"idle", "waiting"}

(* A click that is not idle has a lock, of its member alone.               *)
LocksOfMembers ==
  /\ \A c \in Clicks : IF pc[c] = "idle"
                         THEN user[c] = None /\ lock[c] = None
                         ELSE user[c] \in Users /\ lock[c] \in Locks
  /\ \A c, d \in Clicks : lock[c] # None /\ lock[c] = lock[d] => user[c] = user[d]

HeldByRunning ==
  \A l \in Locks : held[l] => \E d \in Clicks : lock[d] = l /\ Running(d)

(* A queue lists clicks that wait for its lock, each once.                 *)
QueuesOfWaiters ==
  \A l \in Locks :
    /\ \A i \in 1..Len(queue[l]) :
         pc[queue[l][i]] = "waiting" /\ lock[queue[l][i]] = l
    /\ \A i, j \in 1..Len(queue[l]) : queue[l][i] = queue[l][j] => i = j

LockInv == /\ TypeOK
           /\ LocksOfMembers
           /\ HeldByRunning
           /\ QueuesOfWaiters
           /\ WaitersServed

IInv == TicketInv /\ LockInv

-----------------------------------------------------------------------------
(* The locks: the inductive step of LockInv.                               *)

(* There is an unused lock whenever a click has yet to take one: the map   *)
(* holds locks of clicks only, and these are fewer than the locks.         *)
LEMMA UnusedLock ==
  ASSUME LockInv, NEW c \in Clicks, pc[c] = "idle"
  PROVE  UnusedLocks # {}
  <1> SUFFICES ASSUME UnusedLocks = {} PROVE FALSE
    OBVIOUS
  <1> DEFINE S == {d \in Clicks : lock[d] # None}
             f == [d \in S |-> lock[d]]
  <1>1. \A l \in Locks : \E d \in Clicks : lock[d] = l
    BY NoneAssumption DEF UnusedLocks, LockInv, WaitersServed
  <1>2. f \in Surjection(S, Locks)
    <2>1. f \in [S -> Locks]
      BY DEF LockInv, TypeOK
    <2>2. \A l \in Locks : \E d \in S : f[d] = l
      BY <1>1, NoneAssumption
    <2> QED
      BY <2>1, <2>2 DEF Surjection
  <1>3. S \subseteq Clicks \ {c}
    BY DEF LockInv, LocksOfMembers
  <1>4. /\ IsFiniteSet(Clicks \ {c})
        /\ Cardinality(Clicks \ {c}) = Cardinality(Clicks) - 1
        /\ Cardinality(Clicks) \in Nat /\ Cardinality(Locks) \in Nat
        /\ Cardinality(Locks) >= Cardinality(Clicks)
    BY CoroutinesAssumption, LocksAssumption, FS_RemoveElement, FS_CardinalityType
  <1>5. IsFiniteSet(S) /\ Cardinality(S) <= Cardinality(Clicks) - 1
    BY <1>3, <1>4, FS_Subset
  <1>6. Cardinality(Locks) <= Cardinality(S) /\ Cardinality(S) \in Nat
    BY <1>2, <1>5, FS_Surjection, FS_CardinalityType
  <1> QED
    BY <1>4, <1>5, <1>6

(* The lock a click finds for its member is of no other member. *)
LEMMA LockForMember ==
  ASSUME LockInv, NEW c \in Clicks, pc[c] = "idle", NEW u \in Users
  PROVE  /\ LockFor(u) \in Locks
         /\ \A d \in Clicks : lock[d] = LockFor(u) => user[d] = u
         /\ \A v \in Users : lockOf[v] = LockFor(u) => v = u
  <1>1. CASE lockOf[u] # None
    <2>1. LockFor(u) = lockOf[u]
      BY <1>1 DEF LockFor
    <2> QED
      BY <1>1, <2>1
         DEF LockInv, TypeOK, WaitersServed, LocksOfMembers
  <1>2. CASE lockOf[u] = None
    <2>1. LockFor(u) \in UnusedLocks
      BY <1>2, UnusedLock DEF LockFor
    <2> QED
      BY <2>1 DEF UnusedLocks
  <1> QED
    BY <1>1, <1>2

(* A queue is a finite list of clicks. *)
LEMMA QueueType ==
  ASSUME TypeOK, NEW l \in Locks
  PROVE  /\ queue[l] \in Seq(Clicks)
         /\ Len(queue[l]) \in Nat
         /\ \A i \in 1..Len(queue[l]) : queue[l][i] \in Clicks
  BY DEF TypeOK

(* A click takes its member's lock or joins the queue. *)
LEMMA EnterLockInv ==
  ASSUME IInv, NEW c \in Clicks, NEW u \in Users, EnterLock(c, u),
         UNCHANGED callers
  PROVE  LockInv'
  <1> DEFINE l == LockFor(u)
             free == ~held[l] /\ queue[l] = <<>>
  <1> USE DEF IInv, LockInv
  <1>1. /\ pc[c] = "idle"
        /\ l \in Locks
        /\ \A d \in Clicks : lock[d] = l => user[d] = u
        /\ \A v \in Users : lockOf[v] = l => v = u
    BY LockForMember DEF EnterLock, Goto
  <1>2. /\ pc' = [pc EXCEPT ![c] = IF free THEN "lookup" ELSE "waiting"]
        /\ lockOf' = [lockOf EXCEPT ![u] = l]
        /\ held'   = [held EXCEPT ![l] = @ \/ free]
        /\ queue'  = [queue EXCEPT ![l] = IF free THEN @ ELSE Append(@, c)]
        /\ user'   = [user EXCEPT ![c] = u]
        /\ lock'   = [lock EXCEPT ![c] = l]
    BY DEF EnterLock, Goto
  <1> HIDE DEF l
  <1>3. TypeOK'
    <2>1. queue[l] \in Seq(Clicks) /\ Append(queue[l], c) \in Seq(Clicks)
      BY <1>1 DEF TypeOK
    <2>2. queue' \in [Locks -> Seq(Clicks)]
      BY <1>2, <2>1 DEF TypeOK
    <2>3. held' \in [Locks -> BOOLEAN]
      BY <1>1, <1>2 DEF TypeOK
    <2> QED
      BY <1>1, <1>2, <2>2, <2>3 DEF TypeOK, EnterLock, rowVars, closerVars
  <1>4. LocksOfMembers'
    BY <1>1, <1>2 DEF TypeOK, LocksOfMembers
  <1>5. HeldByRunning'
    <2> SUFFICES ASSUME NEW m \in Locks, held'[m]
                 PROVE  \E d \in Clicks : lock'[d] = m /\ Running(d)'
      BY DEF HeldByRunning
    <2>1. CASE held[m]
      <3>1. PICK d \in Clicks : lock[d] = m /\ Running(d)
        BY <2>1 DEF HeldByRunning
      <3> QED
        BY <1>1, <1>2, <3>1 DEF TypeOK, Running
    <2>2. CASE ~held[m]
      BY <1>1, <1>2, <2>2 DEF TypeOK, Running
    <2> QED
      BY <2>1, <2>2
  <1>6. QueuesOfWaiters'
    <2>1. \A i \in 1..Len(queue[l]) : queue[l][i] # c
      BY <1>1 DEF QueuesOfWaiters
    <2>2. CASE free
      BY <1>1, <1>2, <2>2 DEF TypeOK, QueuesOfWaiters
    <2>3. CASE ~free
      <3>1. /\ queue[l] \in Seq(Clicks)
            /\ queue'[l] = Append(queue[l], c)
            /\ \A m \in Locks \ {l} : queue'[m] = queue[m]
        BY <1>1, <1>2, <2>3 DEF TypeOK
      <3>2. pc'[c] = "waiting" /\ lock'[c] = l
        BY <1>2, <2>3 DEF TypeOK
      <3>3. \A d \in Clicks \ {c} : pc'[d] = pc[d] /\ lock'[d] = lock[d]
        BY <1>2 DEF TypeOK
      <3>4. ASSUME NEW m \in Locks \ {l}
            PROVE  /\ \A i \in 1..Len(queue'[m]) :
                        pc'[queue'[m][i]] = "waiting" /\ lock'[queue'[m][i]] = m
                   /\ \A i, j \in 1..Len(queue'[m]) :
                        queue'[m][i] = queue'[m][j] => i = j
        <4>1. \A i \in 1..Len(queue[m]) : queue[m][i] \in Clicks \ {c}
          BY <1>1, QueueType DEF QueuesOfWaiters
        <4> QED
          BY <3>1, <3>3, <4>1 DEF QueuesOfWaiters
      <3>5. /\ \A i \in 1..Len(queue'[l]) :
                 pc'[queue'[l][i]] = "waiting" /\ lock'[queue'[l][i]] = l
            /\ \A i, j \in 1..Len(queue'[l]) :
                 queue'[l][i] = queue'[l][j] => i = j
        <4>1. /\ Len(queue'[l]) = Len(queue[l]) + 1
              /\ queue'[l][Len(queue[l]) + 1] = c
              /\ \A i \in 1..Len(queue[l]) : /\ queue'[l][i] = queue[l][i]
                                             /\ queue[l][i] \in Clicks
              /\ Len(queue[l]) \in Nat
          BY <3>1
        <4>2. \A i \in 1..Len(queue'[l]) :
                i \in 1..Len(queue[l]) \/ i = Len(queue[l]) + 1
          BY <4>1
        <4>3. \A i \in 1..Len(queue[l]) :
                /\ pc'[queue[l][i]] = "waiting" /\ lock'[queue[l][i]] = l
                /\ queue[l][i] # c
          BY <1>1, <2>1, <3>3, <4>1 DEF QueuesOfWaiters
        <4>4. \A i, j \in 1..Len(queue[l]) : queue[l][i] = queue[l][j] => i = j
          BY <1>1 DEF QueuesOfWaiters
        <4>5. \A i \in 1..Len(queue'[l]) :
                pc'[queue'[l][i]] = "waiting" /\ lock'[queue'[l][i]] = l
          BY <3>2, <4>1, <4>2, <4>3
        <4>6. ASSUME NEW i \in 1..Len(queue'[l]), NEW j \in 1..Len(queue'[l]),
                     queue'[l][i] = queue'[l][j]
              PROVE  i = j
          <5>1. CASE i \in 1..Len(queue[l]) /\ j \in 1..Len(queue[l])
            BY <4>1, <4>4, <4>6, <5>1
          <5>2. CASE i = Len(queue[l]) + 1 \/ j = Len(queue[l]) + 1
            BY <4>1, <4>2, <4>3, <4>6, <5>2
          <5> QED
            BY <4>2, <5>1, <5>2
        <4> QED
          BY <4>5, <4>6
      <3> QED
        BY <3>4, <3>5 DEF QueuesOfWaiters
    <2> QED
      BY <2>2, <2>3
  <1>7. WaitersServed'
    <2>1. ASSUME NEW v \in Users, lockOf'[v] # None
          PROVE  \E d \in Clicks : user'[d] = v /\ lock'[d] = lockOf'[v]
      <3>1. CASE v = u
        BY <1>2, <3>1 DEF TypeOK
      <3>2. CASE v # u
        <4>1. PICK d \in Clicks : user[d] = v /\ lock[d] = lockOf[v]
          BY <1>2, <2>1, <3>2 DEF TypeOK, WaitersServed
        <4> QED
          BY <1>1, <1>2, <2>1, <3>2, <4>1, UsersAssumption
             DEF TypeOK, LocksOfMembers
      <3> QED
        BY <3>1, <3>2
    <2>2. ASSUME NEW d \in Clicks, pc'[d] = "waiting"
          PROVE  \E i \in DOMAIN queue'[lock'[d]] : queue'[lock'[d]][i] = d
      <3>1. CASE d = c
        <4>1. ~free /\ lock'[d] = l /\ queue'[l] = Append(queue[l], c)
          BY <1>1, <1>2, <2>2, <3>1 DEF TypeOK
        <4>2. queue[l] \in Seq(Clicks)
          BY <1>1 DEF TypeOK
        <4>3. Len(queue[l]) + 1 \in DOMAIN queue'[l]
              /\ queue'[l][Len(queue[l]) + 1] = c
          BY <4>1, <4>2
        <4> QED
          BY <3>1, <4>1, <4>3
      <3>2. CASE d # c
        <4>1. pc[d] = "waiting" /\ lock'[d] = lock[d] /\ lock[d] \in Locks
          BY <1>2, <2>2, <3>2 DEF TypeOK, LocksOfMembers
        <4>2. PICK i \in DOMAIN queue[lock[d]] : queue[lock[d]][i] = d
          BY <4>1 DEF WaitersServed
        <4>3. queue[lock[d]] \in Seq(Clicks)
          BY <4>1 DEF TypeOK
        <4>4. i \in DOMAIN queue'[lock[d]] /\ queue'[lock[d]][i] = d
          BY <1>1, <1>2, <4>1, <4>2, <4>3 DEF TypeOK
        <4> QED
          BY <4>1, <4>4
      <3> QED
        BY <3>1, <3>2
    <2>3. ASSUME NEW d \in Clicks, pc'[d] = "waiting", held'[lock'[d]]
          PROVE  \E e \in Clicks : /\ lock'[e] = lock'[d]
                                  /\ pc'[e] \notin {"idle", "waiting"}
      <3>1. lock'[d] \in Locks
        BY <1>4, <2>3 DEF LocksOfMembers
      <3> QED
        BY <1>5, <2>3, <3>1 DEF HeldByRunning, Running
    <2> QED
      BY <2>1, <2>2, <2>3 DEF WaitersServed
  <1> QED
    BY <1>3, <1>4, <1>5, <1>6, <1>7

(* The first waiter of a free lock is resumed. *)
LEMMA ResumeInv ==
  ASSUME IInv, NEW c \in Clicks, Resume(c), UNCHANGED callers
  PROVE  LockInv'
  <1> DEFINE l == lock[c]
             q == queue[l]
  <1> USE DEF IInv, LockInv
  <1>1. /\ pc[c] = "waiting" /\ l \in Locks
        /\ pc'    = [pc EXCEPT ![c] = "lookup"]
        /\ held'  = [held EXCEPT ![l] = TRUE]
        /\ queue' = [queue EXCEPT ![l] = Tail(q)]
        /\ UNCHANGED <<lockOf, user, lock>>
        /\ Head(q) = c
    BY DEF Resume, Goto, LocksOfMembers
  <1> HIDE DEF l
  <1>2. /\ q \in Seq(Clicks) /\ q # <<>>
        /\ Tail(q) \in Seq(Clicks)
        /\ Len(Tail(q)) = Len(q) - 1 /\ Len(q) \in Nat
        /\ \A i \in 1..Len(Tail(q)) : i + 1 \in 1..Len(q) /\ Tail(q)[i] = q[i+1]
        /\ q[1] = c /\ 1 \in 1..Len(q)
    <2>1. q \in Seq(Clicks)
      BY <1>1, QueueType
    <2>2. q # <<>>
      BY <1>1, <2>1 DEF WaitersServed, l
    <2> QED
      BY <1>1, <2>1, <2>2
  <1>3. TypeOK'
    <2>1. queue' \in [Locks -> Seq(Clicks)]
      BY <1>1, <1>2 DEF TypeOK
    <2> QED
      BY <1>1, <2>1 DEF TypeOK, Resume, rowVars, closerVars
  <1>4. \A d \in Clicks \ {c} : pc'[d] = pc[d]
    BY <1>1 DEF TypeOK
  <1>5. LocksOfMembers'
    BY <1>1 DEF TypeOK, LocksOfMembers
  <1>6. HeldByRunning'
    <2> SUFFICES ASSUME NEW m \in Locks, held'[m]
                 PROVE  \E d \in Clicks : lock'[d] = m /\ Running(d)'
      BY DEF HeldByRunning
    <2>1. CASE m = l
      BY <1>1, <2>1 DEF TypeOK, Running, l
    <2>2. CASE m # l
      <3>1. PICK d \in Clicks : lock[d] = m /\ Running(d)
        BY <1>1, <2>2 DEF TypeOK, HeldByRunning
      <3> QED
        BY <1>1, <3>1 DEF TypeOK, Running
    <2> QED
      BY <2>1, <2>2
  <1>7. QueuesOfWaiters'
    <2>1. ASSUME NEW m \in Locks \ {l}
          PROVE  /\ queue'[m] = queue[m]
                 /\ \A i \in 1..Len(queue[m]) : queue[m][i] \in Clicks \ {c}
      BY <1>1, QueueType DEF TypeOK, QueuesOfWaiters, l
    <2>2. /\ queue'[l] = Tail(q)
          /\ \A i \in 1..Len(Tail(q)) : Tail(q)[i] \in Clicks \ {c}
          /\ \A i \in 1..Len(Tail(q)) :
               pc[Tail(q)[i]] = "waiting" /\ lock[Tail(q)[i]] = l
          /\ \A i, j \in 1..Len(Tail(q)) : Tail(q)[i] = Tail(q)[j] => i = j
      <3>1. queue'[l] = Tail(q)
        BY <1>1 DEF TypeOK
      <3>2. \A i \in 1..Len(q) : /\ pc[q[i]] = "waiting" /\ lock[q[i]] = l
                                 /\ q[i] \in Clicks
        BY <1>1, QueueType DEF QueuesOfWaiters
      <3>3. \A i, j \in 1..Len(q) : q[i] = q[j] => i = j
        BY <1>1 DEF QueuesOfWaiters
      <3>4. \A i \in 1..Len(Tail(q)) :
              /\ Tail(q)[i] \in Clicks /\ Tail(q)[i] # c
              /\ pc[Tail(q)[i]] = "waiting" /\ lock[Tail(q)[i]] = l
        <4> SUFFICES ASSUME NEW i \in 1..Len(Tail(q))
                     PROVE  /\ Tail(q)[i] \in Clicks /\ Tail(q)[i] # c
                            /\ pc[Tail(q)[i]] = "waiting"
                            /\ lock[Tail(q)[i]] = l
          OBVIOUS
        <4>1. i + 1 \in 1..Len(q) /\ Tail(q)[i] = q[i + 1] /\ i + 1 # 1
          BY <1>2
        <4> QED
          BY <1>2, <3>2, <3>3, <4>1
      <3>5. ASSUME NEW i \in 1..Len(Tail(q)), NEW j \in 1..Len(Tail(q)),
                   Tail(q)[i] = Tail(q)[j]
            PROVE  i = j
        <4>1. i + 1 = j + 1
          BY <1>2, <3>3, <3>5
        <4> QED
          BY <1>2, <4>1
      <3> QED
        BY <3>1, <3>4, <3>5
    <2> SUFFICES ASSUME NEW m \in Locks
                 PROVE  /\ \A i \in 1..Len(queue'[m]) :
                             /\ pc'[queue'[m][i]] = "waiting"
                             /\ lock'[queue'[m][i]] = m
                        /\ \A i, j \in 1..Len(queue'[m]) :
                             queue'[m][i] = queue'[m][j] => i = j
      BY DEF QueuesOfWaiters
    <2>3. CASE m = l
      <3> DEFINE t == Tail(q)
      <3>1. /\ queue'[m] = t /\ lock' = lock
            /\ \A i \in 1..Len(t) : /\ t[i] \in Clicks \ {c}
                                    /\ pc[t[i]] = "waiting" /\ lock[t[i]] = m
            /\ \A i, j \in 1..Len(t) : t[i] = t[j] => i = j
        BY <1>1, <2>2, <2>3
      <3> HIDE DEF t
      <3> QED
        BY <1>4, <3>1
    <2>4. CASE m # l
      BY <1>1, <1>4, <2>1, <2>4 DEF QueuesOfWaiters
    <2> QED
      BY <2>3, <2>4
  <1>8. WaitersServed'
    <2>1. \A u \in Users : lockOf'[u] # None =>
            \E d \in Clicks : user'[d] = u /\ lock'[d] = lockOf'[u]
      BY <1>1 DEF WaitersServed
    <2>2. ASSUME NEW d \in Clicks, pc'[d] = "waiting"
          PROVE  \E i \in DOMAIN queue'[lock'[d]] : queue'[lock'[d]][i] = d
      <3>1. d # c /\ pc[d] = "waiting" /\ lock[d] \in Locks
        BY <1>1, <1>4, <2>2 DEF TypeOK, LocksOfMembers
      <3>2. PICK i \in DOMAIN queue[lock[d]] : queue[lock[d]][i] = d
        BY <3>1 DEF WaitersServed
      <3>3. CASE lock[d] = l
        <4>1. i \in 1..Len(q) /\ i # 1 /\ q[i] = d
          BY <1>2, <3>1, <3>2, <3>3
        <4>2. i - 1 \in 1..Len(Tail(q)) /\ Tail(q)[i - 1] = d
          BY <1>2, <4>1
        <4>3. queue'[l] = Tail(q) /\ lock'[d] = l /\ i - 1 \in DOMAIN Tail(q)
          BY <1>1, <1>2, <3>3, <4>2 DEF TypeOK
        <4> QED
          BY <4>2, <4>3
      <3>4. CASE lock[d] # l
        BY <1>1, <3>1, <3>2, <3>4 DEF TypeOK
      <3> QED
        BY <3>3, <3>4
    <2>3. ASSUME NEW d \in Clicks, pc'[d] = "waiting", held'[lock'[d]]
          PROVE  \E e \in Clicks : /\ lock'[e] = lock'[d]
                                  /\ pc'[e] \notin {"idle", "waiting"}
      <3>1. lock'[d] \in Locks
        BY <1>5, <2>3 DEF LocksOfMembers
      <3> QED
        BY <1>6, <2>3, <3>1 DEF HeldByRunning, Running
    <2> QED
      BY <2>1, <2>2, <2>3 DEF WaitersServed
  <1> QED
    BY <1>3, <1>5, <1>6, <1>7, <1>8

(* A click ends: its lock is free, and forgotten when nobody took it since. *)
LEMMA FinishInv ==
  ASSUME IInv, NEW c \in Clicks, Finish(c), UNCHANGED callers
  PROVE  LockInv'
  <1> DEFINE l == lock[c]
             u == user[c]
  <1> USE DEF IInv, LockInv
  <1>1. /\ pc[c] = "finish" /\ l \in Locks /\ u \in Users
        /\ pc'   = [pc EXCEPT ![c] = "idle"]
        /\ held' = [held EXCEPT ![l] = FALSE]
        /\ user' = [user EXCEPT ![c] = None]
        /\ lock' = [lock EXCEPT ![c] = None]
        /\ queue' = queue
        /\ lockOf' = [lockOf EXCEPT ![u] =
                        IF @ # None /\ ~held'[@] THEN None ELSE @]
    BY DEF Finish, Goto, LocksOfMembers, ReleaseLock
  <1> HIDE DEF l, u
  <1>2. TypeOK'
    <2>1. lockOf' \in [Users -> Locks \cup {None}]
      BY <1>1 DEF TypeOK
    <2>2. /\ pc' \in [Clicks -> {"idle", "waiting", "lookup", "decide", "closeold",
                               "create", "persist", "cleanup", "finish"}]
          /\ held' \in [Locks -> BOOLEAN]
      BY <1>1 DEF TypeOK
    <2>3. /\ user' \in [Clicks -> Users \cup {None}]
          /\ lock' \in [Clicks -> Locks \cup {None}]
      BY <1>1 DEF TypeOK
    <2>4. /\ existing' \in [Clicks -> Channels \cup {None}]
          /\ mine' \in [Clicks -> Channels \cup {None}]
      BY DEF TypeOK, Finish
    <2>5. UNCHANGED <<owner, status, channel, cached, queue, cpc, target,
                      callers, delivered, leaked>>
      BY DEF Finish, rowVars, closerVars
    <2> QED
      BY <2>1, <2>2, <2>3, <2>4, <2>5 DEF TypeOK
  <1>3. \A d \in Clicks \ {c} :
          pc'[d] = pc[d] /\ lock'[d] = lock[d] /\ user'[d] = user[d]
    BY <1>1 DEF TypeOK
  <1>4. LocksOfMembers'
    BY <1>1 DEF TypeOK, LocksOfMembers
  <1>5. HeldByRunning'
    <2> SUFFICES ASSUME NEW m \in Locks, held'[m]
                 PROVE  \E d \in Clicks : lock'[d] = m /\ Running(d)'
      BY DEF HeldByRunning
    <2>1. m # l /\ held[m]
      BY <1>1 DEF TypeOK
    <2>2. PICK d \in Clicks : lock[d] = m /\ Running(d)
      BY <2>1 DEF HeldByRunning
    <2> QED
      BY <1>3, <2>1, <2>2 DEF Running, l
  <1>6. QueuesOfWaiters'
    <2>1. ASSUME NEW m \in Locks
          PROVE  \A i \in 1..Len(queue[m]) : queue[m][i] \in Clicks \ {c}
      BY <1>1, QueueType DEF QueuesOfWaiters
    <2> QED
      BY <1>1, <1>3, <2>1 DEF QueuesOfWaiters
  <1>7. WaitersServed'
    <2>1. ASSUME NEW v \in Users, lockOf'[v] # None
          PROVE  \E d \in Clicks : user'[d] = v /\ lock'[d] = lockOf'[v]
      <3>1. lockOf'[v] = lockOf[v] /\ (v = u => held'[lockOf[v]])
        BY <1>1, <2>1 DEF TypeOK
      <3>2. PICK e \in Clicks : user[e] = v /\ lock[e] = lockOf[v]
        BY <2>1, <3>1 DEF WaitersServed
      <3>3. CASE v # u
        BY <1>3, <3>1, <3>2, <3>3 DEF u
      <3>4. CASE v = u
        <4>1. PICK d \in Clicks : lock'[d] = lockOf[v] /\ Running(d)'
          BY <1>5, <2>1, <3>1, <3>4 DEF HeldByRunning, TypeOK
        <4>2. d # c /\ lock[d] = lock[e]
          BY <1>1, <1>3, <3>2, <4>1 DEF TypeOK, Running
        <4>3. user[d] = v
          BY <2>1, <3>1, <3>2, <4>2 DEF LocksOfMembers
        <4> QED
          BY <1>3, <3>1, <4>1, <4>2, <4>3
      <3> QED
        BY <3>3, <3>4
    <2>2. ASSUME NEW d \in Clicks, pc'[d] = "waiting"
          PROVE  /\ \E i \in DOMAIN queue'[lock'[d]] : queue'[lock'[d]][i] = d
                 /\ lock'[d] \in Locks
      <3>1. d # c
        BY <1>1, <2>2 DEF TypeOK
      <3> QED
        BY <1>1, <1>3, <1>4, <2>2, <3>1 DEF WaitersServed, LocksOfMembers
    <2> QED
      BY <1>5, <2>1, <2>2 DEF WaitersServed, HeldByRunning, Running
  <1> QED
    BY <1>2, <1>4, <1>5, <1>6, <1>7

(* Between taking its lock and its end, a click leaves the locks alone. *)
LEMMA RunningStepInv ==
  ASSUME IInv, TypeOK', UNCHANGED <<lockVars, user, lock>>,
         NEW c \in Clicks, NEW to, Running(c), to \notin {"idle", "waiting"},
         pc' = [pc EXCEPT ![c] = to]
  PROVE  LockInv'
  <1> USE DEF IInv, LockInv, lockVars
  <1>1. /\ \A d \in Clicks : (pc'[d] = "idle" <=> pc[d] = "idle")
                           /\ (pc'[d] = "waiting" <=> pc[d] = "waiting")
                           /\ (Running(d)' <=> Running(d))
    BY DEF TypeOK, Running
  <1>2. LocksOfMembers' /\ HeldByRunning'
    BY <1>1 DEF LocksOfMembers, HeldByRunning
  <1>3. QueuesOfWaiters'
    BY <1>1, QueueType DEF QueuesOfWaiters
  <1>4. WaitersServed'
    BY <1>1 DEF WaitersServed, Running
  <1> QED
    BY <1>2, <1>3, <1>4

-----------------------------------------------------------------------------
(* The rows and the channels: the inductive step of TicketInv.             *)

(* Who neither writes a row nor touches a channel, nor has or drops a      *)
(* channel of its own, disturbs only what it remembers of an old ticket.   *)
LEMMA QuietStepInv ==
  ASSUME IInv, TypeOK', OldTickets',
         UNCHANGED <<rowVars, channel, cached, closerVars, delivered, leaked>>,
         \A d \in Clicks : /\ InHand(d)' <=> InHand(d)
                           /\ InHand(d) => mine'[d] = mine[d]
  PROVE  TicketInv'
  <1> USE DEF IInv, TicketInv, rowVars, closerVars
  <1>1. ChannelsKnown' /\ OpenOnce' /\ ClosersKnow'
    BY DEF ChannelsKnown, OpenOnce, ClosersKnow
  <1>2. BotKeepsOpenTickets' /\ TranscriptBeforeDelete'
    BY DEF BotKeepsOpenTickets, TranscriptBeforeDelete
  <1>3. OwnChannels' /\ NoStrayChannels'
    BY DEF OwnChannels, NoStrayChannels, InHand, Live
  <1> QED
    BY <1>1, <1>2, <1>3

(* Entering, waiting and leaving. *)
LEMMA LockStepsIInv ==
  ASSUME IInv, NEW c \in Clicks, UNCHANGED callers,
         \/ \E u \in Users : EnterLock(c, u)
         \/ Resume(c)
         \/ Finish(c)
  PROVE  IInv'
  <1>1. LockInv'
    BY EnterLockInv, ResumeInv, FinishInv
  <1>2. /\ UNCHANGED <<rowVars, channel, cached, closerVars, delivered, leaked>>
        /\ \A d \in Clicks \ {c} : /\ pc'[d] = pc[d] /\ mine'[d] = mine[d]
                                   /\ existing'[d] = existing[d]
        /\ ~InHand(c) /\ ~InHand(c)'
        /\ pc'[c] \notin {"decide", "closeold"}
    <2> USE DEF Goto, InHand, IInv, LockInv, TypeOK
    <2>1. CASE \E u \in Users : EnterLock(c, u)
      BY <2>1 DEF EnterLock
    <2>2. CASE Resume(c)
      BY <2>2 DEF Resume
    <2>3. CASE Finish(c)
      BY <2>3 DEF Finish
    <2> QED
      BY <2>1, <2>2, <2>3
  <1>3. OldTickets'
    BY <1>2 DEF OldTickets, IInv, TicketInv, rowVars
  <1>4. \A d \in Clicks : /\ InHand(d)' <=> InHand(d)
                          /\ InHand(d) => mine'[d] = mine[d]
    BY <1>2 DEF InHand
  <1>5. TypeOK'
    BY <1>1 DEF LockInv
  <1>6. TicketInv'
    BY <1>2, <1>3, <1>4, <1>5, QuietStepInv
  <1> QED
    BY <1>1, <1>6 DEF IInv

(* Looking the old ticket up, and deciding by the cache. *)
LEMMA LookStepsIInv ==
  ASSUME IInv, NEW c \in Clicks, UNCHANGED callers,
         LookUp(c) \/ Decide(c) \/ CreateChannelFails(c)
  PROVE  IInv'
  <1> USE DEF IInv, TicketInv
  <1>1. PICK to \in {"decide", "create", "closeold", "finish"} :
          /\ pc' = [pc EXCEPT ![c] = to]
          /\ Running(c) /\ ~InHand(c)
    BY DEF LookUp, Decide, CreateChannelFails, Goto, Running, InHand
  <1>2. UNCHANGED <<rowVars, channel, cached, lockVars, user, lock, mine,
                    closerVars, delivered, leaked>>
    BY DEF LookUp, Decide, CreateChannelFails
  <1>3. /\ existing' \in [Clicks -> Channels \cup {None}]
        /\ \A d \in Clicks \ {c} : existing'[d] = existing[d]
        /\ pc'[c] = "decide" /\ existing'[c] # None =>
             status[existing'[c]] # "none"
        /\ pc'[c] = "closeold" => /\ existing'[c] \in Channels \ cached
                                  /\ status[existing'[c]] # "none"
    <2>1. CASE LookUp(c) /\ pc'[c] = "decide"
      <3>1. existing' = [existing EXCEPT ![c] =
                           IF OpenTicketsOf(user[c]) = {} THEN None
                           ELSE CHOOSE ch \in OpenTicketsOf(user[c]) : TRUE]
        BY <2>1 DEF LookUp, Goto, TypeOK
      <3>2. CASE OpenTicketsOf(user[c]) = {}
        BY <2>1, <3>1, <3>2 DEF TypeOK
      <3>3. CASE OpenTicketsOf(user[c]) # {}
        <4>1. existing'[c] \in OpenTicketsOf(user[c])
          BY <3>1, <3>3 DEF TypeOK
        <4> QED
          BY <2>1, <3>1, <3>3, <4>1 DEF TypeOK, OpenTicketsOf
      <3> QED
        BY <3>2, <3>3
    <2>2. CASE ~(LookUp(c) /\ pc'[c] = "decide")
      <3>1. existing' = existing /\ pc'[c] # "decide"
        BY <2>2 DEF LookUp, Decide, CreateChannelFails, Goto, TypeOK
      <3>2. pc'[c] = "closeold" =>
              /\ existing[c] \in Channels \ cached
              /\ pc[c] = "decide"
        BY DEF LookUp, Decide, CreateChannelFails, Goto, TypeOK
      <3> QED
        BY <3>1, <3>2, NoneAssumption DEF OldTickets, TypeOK
    <2> QED
      BY <2>1, <2>2
  <1>4. TypeOK'
    BY <1>1, <1>2, <1>3 DEF TypeOK, rowVars, lockVars, closerVars
  <1>5. OldTickets'
    <2>1. pc'[c] = "closeold" => channel[existing'[c]] \notin {"absent", "live"}
      BY <1>3 DEF ChannelsKnown
    <2>2. \A d \in Clicks \ {c} : pc'[d] = pc[d]
      BY <1>1 DEF TypeOK
    <2> QED
      BY <1>2, <1>3, <2>1, <2>2 DEF OldTickets, rowVars
  <1>6. \A d \in Clicks : /\ InHand(d)' <=> InHand(d)
                          /\ InHand(d) => mine'[d] = mine[d]
    BY <1>1, <1>2 DEF InHand, TypeOK
  <1>7. TicketInv'
    BY <1>2, <1>4, <1>5, <1>6, QuietStepInv
  <1>8. LockInv'
    BY <1>1, <1>2, <1>4, RunningStepInv DEF lockVars
  <1> QED
    BY <1>7, <1>8

(* A row is only closed that was open, and no other row changes. *)
LEMMA CloseRowChanges ==
  ASSUME TypeOK, NEW ch \in Channels, CloseRow(ch)
  PROVE  /\ owner' = owner
         /\ status' \in [Channels -> {"none", "open", "closed"}]
         /\ \A x \in Channels \ {ch} : status'[x] = status[x]
         /\ status'[ch] = IF status[ch] = "open" THEN "closed" ELSE status[ch]
  BY DEF TypeOK, CloseRow

(* Closing the old ticket whose channel is gone. *)
LEMMA CloseOldIInv ==
  ASSUME IInv, NEW c \in Clicks, UNCHANGED callers, CloseOld(c)
  PROVE  IInv'
  <1> DEFINE ch == existing[c]
  <1> USE DEF IInv, TicketInv
  <1>1. /\ pc[c] = "closeold"
        /\ ch \in Channels
        /\ channel[ch] \notin {"absent", "live"}
    BY DEF CloseOld, Goto, OldTickets
  <1>2. PICK to \in {"create", "finish"} : pc' = [pc EXCEPT ![c] = to]
    BY DEF CloseOld, Goto
  <1>3. UNCHANGED <<channel, cached, lockVars, user, lock, existing, mine,
                    closerVars, delivered, leaked, callers>>
    BY DEF CloseOld
  <1>4. /\ owner' = owner
        /\ status' \in [Channels -> {"none", "open", "closed"}]
        /\ \A x \in Channels \ {ch} : status'[x] = status[x]
        /\ status'[ch] = "open" => status[ch] = "open"
        /\ status'[ch] = "none" <=> status[ch] = "none"
        /\ status[ch] = "closed" => status'[ch] = "closed"
    <2>1. CASE CloseRow(ch)
      BY <1>1, <2>1, CloseRowChanges
    <2>2. CASE UNCHANGED rowVars
      BY <2>2 DEF rowVars, TypeOK
    <2> QED
      BY <2>1, <2>2 DEF CloseOld
  <1> HIDE DEF ch
  <1>5. TypeOK'
    BY <1>2, <1>3, <1>4 DEF TypeOK, lockVars, closerVars
  <1>6. \A d \in Clicks : /\ InHand(d)' <=> InHand(d)
                          /\ pc'[d] \in {"decide", "closeold"} => pc'[d] = pc[d]
    BY <1>1, <1>2 DEF InHand, TypeOK
  <1>7. \A x \in Channels : /\ status'[x] = "open" => status[x] = "open"
                            /\ status'[x] = "none" <=> status[x] = "none"
                            /\ status[x] = "closed" => status'[x] = "closed"
    BY <1>4
  <1>8. ChannelsKnown' /\ BotKeepsOpenTickets' /\ TranscriptBeforeDelete'
    BY <1>3, <1>7
       DEF ChannelsKnown, BotKeepsOpenTickets, TranscriptBeforeDelete
  <1>9. OpenOnce'
    BY <1>4, <1>7 DEF OpenOnce
  <1>10. OwnChannels'
    BY <1>3, <1>6, <1>7 DEF OwnChannels, InHand
  <1>11. OldTickets'
    BY <1>3, <1>6, <1>7 DEF OldTickets, TypeOK
  <1>12. ClosersKnow'
    BY <1>3, <1>7 DEF ClosersKnow, closerVars
  <1>13. NoStrayChannels'
    <2>1. \A x \in Live : x # ch
      BY <1>1 DEF Live, ch
    <2> QED
      BY <1>3, <1>4, <1>6, <2>1 DEF NoStrayChannels, Live, InHand, closerVars
  <1>14. LockInv'
    BY <1>1, <1>2, <1>3, <1>5, RunningStepInv DEF Running, lockVars
  <1> QED
    BY <1>5, <1>8, <1>9, <1>10, <1>11, <1>12, <1>13, <1>14

(* A new channel is in its click's hand, and in nobody else's. *)
LEMMA CreateChannelIInv ==
  ASSUME IInv, NEW c \in Clicks, UNCHANGED callers, CreateChannel(c)
  PROVE  IInv'
  <1> USE DEF IInv, TicketInv
  <1>1. PICK ch \in Channels :
          /\ channel[ch] = "absent"
          /\ channel' = [channel EXCEPT ![ch] = "live"]
          /\ cached'  = cached \cup {ch}
          /\ mine'    = [mine EXCEPT ![c] = ch]
    BY DEF CreateChannel
  <1>2. pc[c] = "create" /\ pc' = [pc EXCEPT ![c] = "persist"]
    BY DEF CreateChannel, Goto
  <1>3. UNCHANGED <<owner, status, lockVars, user, lock, existing, cpc, target,
                    delivered, leaked, callers>>
    BY DEF CreateChannel, rowVars, closerVars
  <1>4. TypeOK'
    BY <1>1, <1>2, <1>3 DEF TypeOK, lockVars
  <1>5. status[ch] = "none"
    BY <1>1 DEF ChannelsKnown
  <1>6. /\ mine'[c] = ch /\ InHand(c)' /\ ~InHand(c) /\ channel'[ch] = "live"
        /\ \A d \in Clicks \ {c} : mine'[d] = mine[d] /\ pc'[d] = pc[d]
        /\ \A x \in Channels \ {ch} : channel'[x] = channel[x]
    BY <1>1, <1>2 DEF InHand, TypeOK
  <1>7. ChannelsKnown' /\ OpenOnce' /\ ClosersKnow'
    BY <1>1, <1>3, <1>6 DEF ChannelsKnown, OpenOnce, ClosersKnow
  <1>8. BotKeepsOpenTickets' /\ TranscriptBeforeDelete'
    BY <1>3, <1>6 DEF BotKeepsOpenTickets, TranscriptBeforeDelete
  <1>9. \A d \in Clicks \ {c} : InHand(d) => mine[d] # ch
    BY <1>1 DEF OwnChannels
  <1>10. OwnChannels'
    BY <1>3, <1>5, <1>6, <1>9 DEF OwnChannels, InHand
  <1>11. OldTickets'
    BY <1>1, <1>2, <1>3, <1>6 DEF OldTickets
  <1>12. NoStrayChannels'
    <2> SUFFICES ASSUME NEW x \in Channels, channel'[x] = "live"
                 PROVE  \/ status'[x] = "open"
                        \/ x \in leaked'
                        \/ \E d \in Clicks : InHand(d)' /\ mine'[d] = x
                        \/ \E k \in Closers : cpc'[k] = "delete" /\ target'[k] = x
      BY DEF NoStrayChannels, Live, InHand
    <2>1. CASE x = ch
      BY <1>6, <2>1
    <2>2. CASE x # ch
      <3>1. x \in Live
        BY <1>6, <2>2 DEF Live
      <3> QED
        BY <1>3, <1>6, <3>1 DEF NoStrayChannels, InHand
    <2> QED
      BY <2>1, <2>2
  <1>13. LockInv'
    BY <1>2, <1>3, <1>4, RunningStepInv DEF Running, lockVars
  <1> QED
    BY <1>4, <1>7, <1>8, <1>10, <1>11, <1>12, <1>13

(* The row of a new channel: the UNIQUE index lets it in only when the     *)
(* member has no open ticket.                                              *)
LEMMA PersistIInv ==
  ASSUME IInv, NEW c \in Clicks, UNCHANGED callers, Persist(c)
  PROVE  IInv'
  <1> DEFINE ch == mine[c]
  <1> USE DEF IInv, TicketInv
  <1>1. /\ pc[c] = "persist" /\ InHand(c)
        /\ ch \in Channels /\ channel[ch] \in {"live", "byhuman"}
        /\ status[ch] = "none"
        /\ user[c] \in Users
        /\ \A d \in Clicks \ {c} : InHand(d) => mine[d] # ch
    BY DEF Persist, Goto, InHand, OwnChannels, LockInv, LocksOfMembers
  <1>2. UNCHANGED <<channel, cached, lockVars, user, lock, existing, mine,
                    cpc, target, delivered, leaked, callers>>
    BY DEF Persist, closerVars
  <1>3. PICK to \in {"finish", "cleanup"} : pc' = [pc EXCEPT ![c] = to]
    BY DEF Persist, Goto
  <1>4. \A d \in Clicks \ {c} : pc'[d] = pc[d]
    BY <1>3 DEF TypeOK
  <1>5. pc'[c] = to
    BY <1>3 DEF TypeOK
  <1>6. CASE pc'[c] = "finish"
    <2>1. CreateRow(ch, user[c])
      BY <1>6 DEF Persist, Goto, TypeOK
    <2> HIDE DEF ch
    <2>2. /\ OpenTicketsOf(user[c]) = {}
          /\ owner' = [owner EXCEPT ![ch] = user[c]]
          /\ status' = [status EXCEPT ![ch] = "open"]
      BY <2>1 DEF CreateRow
    <2>3. TypeOK'
      BY <1>1, <1>2, <1>3, <2>2 DEF TypeOK, lockVars
    <2>4. /\ status'[ch] = "open" /\ owner'[ch] = user[c]
          /\ \A x \in Channels \ {ch} :
               status'[x] = status[x] /\ owner'[x] = owner[x]
      BY <1>1, <2>2 DEF TypeOK
    <2>5. ~InHand(c)'
      BY <1>6 DEF InHand
    <2>6. ChannelsKnown' /\ BotKeepsOpenTickets' /\ TranscriptBeforeDelete'
      BY <1>1, <1>2, <2>4
         DEF ChannelsKnown, BotKeepsOpenTickets, TranscriptBeforeDelete
    <2>7. OpenOnce'
      BY <2>2, <2>4 DEF OpenOnce, OpenTicketsOf
    <2>8. OwnChannels'
      BY <1>1, <1>2, <1>4, <2>4, <2>5 DEF OwnChannels, InHand
    <2>9. OldTickets'
      BY <1>2, <1>4, <1>6, <2>4 DEF OldTickets, TypeOK
    <2>10. ClosersKnow'
      BY <1>1, <1>2, <2>4 DEF ClosersKnow
    <2>11. NoStrayChannels'
      BY <1>2, <1>4, <2>4 DEF NoStrayChannels, Live, ch
    <2>12. LockInv'
      BY <1>1, <1>2, <1>3, <2>3, RunningStepInv DEF Running, lockVars
    <2> QED
      BY <2>3, <2>6, <2>7, <2>8, <2>9, <2>10, <2>11, <2>12
  <1>7. CASE pc'[c] = "cleanup"
    <2>1. UNCHANGED <<owner, status>>
      BY <1>7 DEF Persist, Goto, TypeOK, rowVars
    <2>2. TypeOK'
      BY <1>2, <1>3, <2>1 DEF TypeOK, lockVars
    <2>3. OldTickets'
      BY <1>2, <1>4, <1>7, <2>1 DEF OldTickets
    <2>4. \A d \in Clicks : /\ InHand(d)' <=> InHand(d)
                            /\ InHand(d) => mine'[d] = mine[d]
      BY <1>1, <1>2, <1>4, <1>7 DEF InHand
    <2>5. TicketInv'
      BY <1>2, <2>1, <2>2, <2>3, <2>4, QuietStepInv DEF rowVars, closerVars
    <2>6. LockInv'
      BY <1>1, <1>2, <1>3, <2>2, RunningStepInv DEF Running, lockVars
    <2> QED
      BY <2>5, <2>6
  <1> QED
    BY <1>5, <1>6, <1>7

(* What a deletion does, done or refused, of a channel whose ticket is not *)
(* open and whose transcript, if it has a row, somebody has.               *)
LEMMA DeleteChannelKeeps ==
  ASSUME TicketInv, NEW ch \in Channels, DeleteChannel(ch),
         UNCHANGED <<rowVars, cached, delivered>>,
         status[ch] # "open",
         status[ch] # "none" => delivered[ch] # "no"
  PROVE  /\ channel' \in [Channels -> {"absent", "live", "bybot", "byhuman"}]
         /\ leaked' \subseteq Channels /\ leaked \subseteq leaked'
         /\ channel'[ch] = "live" => ch \in leaked'
         /\ \A x \in Channels \ {ch} : channel'[x] = channel[x]
         /\ \A x \in Channels : /\ channel'[x] = "live" => channel[x] = "live"
                                /\ channel'[x] = "absent" <=> channel[x] = "absent"
         /\ ChannelsKnown' /\ BotKeepsOpenTickets' /\ TranscriptBeforeDelete'
         /\ OpenOnce'
  <1> USE DEF TicketInv, TypeOK, rowVars
  <1>1. CASE /\ channel[ch] = "live"
             /\ channel' = [channel EXCEPT ![ch] = "bybot"]
             /\ leaked' = leaked
    <2>1. /\ channel' \in [Channels -> {"absent", "live", "bybot", "byhuman"}]
          /\ channel'[ch] = "bybot"
          /\ \A x \in Channels \ {ch} : channel'[x] = channel[x]
      BY <1>1
    <2>2. ChannelsKnown' /\ BotKeepsOpenTickets' /\ TranscriptBeforeDelete'
      BY <2>1 DEF ChannelsKnown, BotKeepsOpenTickets, TranscriptBeforeDelete
    <2> QED
      BY <1>1, <2>1, <2>2 DEF OpenOnce
  <1>2. CASE leaked' = leaked \cup {ch} /\ channel' = channel
    BY <1>2 DEF ChannelsKnown, BotKeepsOpenTickets, TranscriptBeforeDelete, OpenOnce
  <1> QED
    BY <1>1, <1>2 DEF DeleteChannel

(* The loser of the race at the UNIQUE index takes its channel away. *)
LEMMA CleanUpIInv ==
  ASSUME IInv, NEW c \in Clicks, UNCHANGED callers, CleanUp(c)
  PROVE  IInv'
  <1> DEFINE ch == mine[c]
  <1> USE DEF IInv, TicketInv
  <1>1. /\ pc[c] = "cleanup" /\ pc' = [pc EXCEPT ![c] = "finish"]
        /\ InHand(c) /\ ch \in Channels /\ status[ch] = "none"
        /\ DeleteChannel(ch)
    BY DEF CleanUp, Goto, InHand, OwnChannels
  <1>2. UNCHANGED <<owner, status, cached, lockVars, user, lock, existing,
                    mine, cpc, target, delivered, callers>>
    BY DEF CleanUp, rowVars, closerVars
  <1> HIDE DEF ch
  <1>3. /\ channel' \in [Channels -> {"absent", "live", "bybot", "byhuman"}]
        /\ leaked' \subseteq Channels /\ leaked \subseteq leaked'
        /\ channel'[ch] = "live" => ch \in leaked'
        /\ \A x \in Channels \ {ch} : channel'[x] = channel[x]
        /\ \A x \in Channels : /\ channel'[x] = "live" => channel[x] = "live"
                               /\ channel'[x] = "absent" <=> channel[x] = "absent"
        /\ ChannelsKnown' /\ BotKeepsOpenTickets' /\ TranscriptBeforeDelete'
        /\ OpenOnce'
    BY <1>1, <1>2, DeleteChannelKeeps DEF rowVars
  <1>4. TypeOK'
    BY <1>1, <1>2, <1>3 DEF TypeOK, lockVars
  <1>5. /\ ~InHand(c)' /\ pc'[c] = "finish"
        /\ \A d \in Clicks \ {c} : /\ pc'[d] = pc[d]
                                   /\ InHand(d)' <=> InHand(d)
                                   /\ InHand(d) => mine[d] # ch
    BY <1>1 DEF InHand, OwnChannels, TypeOK, ch
  <1>6. OwnChannels'
    BY <1>2, <1>3, <1>5 DEF OwnChannels
  <1>7. OldTickets'
    BY <1>2, <1>3, <1>5 DEF OldTickets
  <1>8. ClosersKnow'
    BY <1>2 DEF ClosersKnow
  <1>9. NoStrayChannels'
    <2> SUFFICES ASSUME NEW x \in Channels, channel'[x] = "live", x \notin leaked'
                 PROVE  \/ status'[x] = "open"
                        \/ \E d \in Clicks : InHand(d)' /\ mine'[d] = x
                        \/ \E k \in Closers : cpc'[k] = "delete" /\ target'[k] = x
      BY DEF NoStrayChannels, Live, InHand
    <2>1. x # ch /\ x \in Live /\ x \notin leaked
      BY <1>3 DEF Live
    <2> QED
      BY <1>2, <1>5, <2>1 DEF NoStrayChannels, InHand, ch
  <1>10. LockInv'
    BY <1>1, <1>2, <1>4, RunningStepInv DEF Running, lockVars
  <1> QED
    BY <1>3, <1>4, <1>6, <1>7, <1>8, <1>9, <1>10

-----------------------------------------------------------------------------
(* Closing a ticket.                                                       *)

(* A press of the close button never touches the locks. *)
LEMMA ClicksUntouched ==
  ASSUME IInv, TypeOK', UNCHANGED <<lockVars, pc, user, lock>>
  PROVE  LockInv'
  BY DEF IInv, LockInv, lockVars, LocksOfMembers, HeldByRunning, Running,
         QueuesOfWaiters, WaitersServed

(* A press goes one await further, or ends and forgets its channel. *)
LEMMA GotoKChanges ==
  ASSUME TypeOK, NEW k \in Closers, NEW from, NEW to, GotoK(k, from, to),
         to \in {"idle", "modlog", "dm", "close", "delete"}
  PROVE  /\ cpc' \in [Closers -> {"idle", "modlog", "dm", "close", "delete"}]
         /\ target' \in [Closers -> Channels \cup {None}]
         /\ \A j \in Closers \ {k} : cpc'[j] = cpc[j] /\ target'[j] = target[j]
         /\ cpc[k] = from /\ cpc'[k] = to
         /\ to # "idle" => target'[k] = target[k]
  <1>1. /\ cpc[k] = from
        /\ cpc' = [cpc EXCEPT ![k] = to]
        /\ target' = [target EXCEPT ![k] = IF to = "idle" THEN None ELSE @]
    BY DEF GotoK
  <1>2. target' \in [Closers -> Channels \cup {None}]
    <2>1. target \in [Closers -> Channels \cup {None}]
      BY DEF TypeOK
    <2>2. CASE to = "idle"
      BY <1>1, <2>1, <2>2
    <2>3. CASE to # "idle"
      BY <1>1, <2>1, <2>3
    <2> QED
      BY <2>2, <2>3
  <1> QED
    BY <1>1, <1>2 DEF TypeOK

(* A press that writes no row and deletes no channel: the transcript, and  *)
(* every way a press ends early.                                           *)
LEMMA CloserQuietIInv ==
  ASSUME IInv, NEW k \in Closers, UNCHANGED callers,
         \/ \E ch \in Channels : PressClose(k, ch)
         \/ DeliverModlog(k)
         \/ DeliverDM(k)
         \/ CloseTicket(k) /\ cpc'[k] = "idle"
  PROVE  IInv'
  <1> USE DEF IInv, TicketInv
  <1>1. UNCHANGED <<owner, status, channel, cached, lockVars, clickVars,
                    leaked, callers>>
    BY DEF PressClose, DeliverModlog, DeliverDM, CloseTicket, GotoK, rowVars,
           TypeOK
  <1>2. /\ cpc' \in [Closers -> {"idle", "modlog", "dm", "close", "delete"}]
        /\ target' \in [Closers -> Channels \cup {None}]
        /\ \A j \in Closers \ {k} : cpc'[j] = cpc[j] /\ target'[j] = target[j]
        /\ cpc[k] # "delete" /\ cpc'[k] # "delete"
        /\ cpc'[k] # "idle" =>
             target'[k] \in Channels /\ status[target'[k]] # "none"
    <2>1. CASE \E ch \in Channels : PressClose(k, ch)
      BY <2>1 DEF PressClose, TypeOK
    <2>2. CASE ~\E ch \in Channels : PressClose(k, ch)
      <3>1. PICK from \in {"modlog", "dm", "close"}, to \in {"close", "dm", "idle"} :
              GotoK(k, from, to)
        BY <2>2 DEF DeliverModlog, DeliverDM, CloseTicket, GotoK, TypeOK
      <3> QED
        BY <3>1, GotoKChanges DEF ClosersKnow
    <2> QED
      BY <2>1, <2>2
  <1>3. /\ delivered' \in [Channels -> {"no", "modlog", "dm"}]
        /\ \A x \in Channels : delivered[x] # "no" => delivered'[x] # "no"
        /\ cpc'[k] = "close" => delivered'[target'[k]] # "no"
    <2>1. CASE \E ch \in Channels : PressClose(k, ch)
      BY <2>1 DEF PressClose, TypeOK
    <2>2. CASE DeliverModlog(k)
      <3>1. CASE GotoK(k, "modlog", "close") /\
                 delivered' = [delivered EXCEPT ![target[k]] = "modlog"]
        <4>1. target[k] \in Channels /\ target'[k] = target[k]
          BY <3>1, GotoKChanges DEF ClosersKnow
        <4> QED
          BY <3>1, <4>1 DEF TypeOK
      <3>2. CASE cpc'[k] \in {"dm", "idle"} /\ delivered' = delivered
        BY <3>2 DEF TypeOK
      <3> QED
        BY <2>2, <3>1, <3>2, GotoKChanges DEF DeliverModlog
    <2>3. CASE DeliverDM(k)
      <3>1. CASE GotoK(k, "dm", "close") /\
                 delivered' = [delivered EXCEPT ![target[k]] =
                                 IF @ = "modlog" THEN @ ELSE "dm"]
        <4>1. target[k] \in Channels /\ target'[k] = target[k]
          BY <3>1, GotoKChanges DEF ClosersKnow
        <4> QED
          BY <3>1, <4>1 DEF TypeOK
      <3>2. CASE cpc'[k] = "idle" /\ delivered' = delivered
        BY <3>2 DEF TypeOK
      <3> QED
        BY <2>3, <3>1, <3>2, GotoKChanges DEF DeliverDM
    <2>4. CASE CloseTicket(k) /\ cpc'[k] = "idle"
      BY <2>4 DEF CloseTicket, TypeOK
    <2> QED
      BY <2>1, <2>2, <2>3, <2>4
  <1>4. TypeOK'
    BY <1>1, <1>2, <1>3 DEF TypeOK, lockVars, clickVars
  <1>5. ChannelsKnown' /\ OpenOnce' /\ BotKeepsOpenTickets'
    BY <1>1 DEF ChannelsKnown, OpenOnce, BotKeepsOpenTickets
  <1>6. TranscriptBeforeDelete'
    BY <1>1, <1>3 DEF TranscriptBeforeDelete
  <1>7. OwnChannels' /\ OldTickets'
    BY <1>1 DEF OwnChannels, OldTickets, InHand, clickVars
  <1>8. ClosersKnow'
    BY <1>1, <1>2, <1>3 DEF ClosersKnow
  <1>9. NoStrayChannels'
    BY <1>1, <1>2 DEF NoStrayChannels, Live, clickVars
  <1>10. LockInv'
    BY <1>1, <1>4, ClicksUntouched DEF clickVars
  <1> QED
    BY <1>4, <1>5, <1>6, <1>7, <1>8, <1>9, <1>10

(* The row of a ticket is closed, its transcript being delivered. *)
LEMMA CloseTicketIInv ==
  ASSUME IInv, NEW k \in Closers, UNCHANGED callers, CloseTicket(k),
         cpc'[k] # "idle"
  PROVE  IInv'
  <1> DEFINE ch == target[k]
  <1> USE DEF IInv, TicketInv
  <1>1. GotoK(k, "close", "delete") /\ CloseRow(ch)
    BY DEF CloseTicket, GotoK, TypeOK
  <1>2. /\ cpc' \in [Closers -> {"idle", "modlog", "dm", "close", "delete"}]
        /\ target' \in [Closers -> Channels \cup {None}]
        /\ \A j \in Closers \ {k} : cpc'[j] = cpc[j] /\ target'[j] = target[j]
        /\ cpc[k] = "close" /\ cpc'[k] = "delete" /\ target'[k] = ch
    BY <1>1, GotoKChanges
  <1>3. ch \in Channels /\ status[ch] # "none" /\ delivered[ch] # "no"
    BY <1>2 DEF ClosersKnow
  <1>4. /\ owner' = owner
        /\ status' \in [Channels -> {"none", "open", "closed"}]
        /\ \A x \in Channels \ {ch} : status'[x] = status[x]
        /\ status'[ch] = "closed"
    BY <1>1, <1>3, CloseRowChanges DEF TypeOK
  <1>5. UNCHANGED <<channel, cached, lockVars, clickVars, delivered, leaked,
                    callers>>
    BY DEF CloseTicket
  <1> HIDE DEF ch
  <1>6. TypeOK'
    BY <1>2, <1>4, <1>5 DEF TypeOK, lockVars, clickVars
  <1>7. \A x \in Channels : /\ status'[x] = "open" => status[x] = "open"
                            /\ status'[x] = "none" <=> status[x] = "none"
                            /\ status[x] = "closed" => status'[x] = "closed"
    BY <1>3, <1>4
  <1>8. ChannelsKnown' /\ BotKeepsOpenTickets'
    BY <1>5, <1>7 DEF ChannelsKnown, BotKeepsOpenTickets
  <1>9. OpenOnce' /\ TranscriptBeforeDelete'
    BY <1>4, <1>5, <1>7 DEF OpenOnce, TranscriptBeforeDelete
  <1>10. OwnChannels' /\ OldTickets'
    BY <1>5, <1>7 DEF OwnChannels, OldTickets, InHand, clickVars, TypeOK
  <1>11. ClosersKnow'
    BY <1>2, <1>3, <1>4, <1>5, <1>7 DEF ClosersKnow
  <1>12. NoStrayChannels'
    <2> SUFFICES ASSUME NEW x \in Channels, channel[x] = "live"
                 PROVE  \/ status'[x] = "open"
                        \/ x \in leaked
                        \/ \E c \in Clicks : InHand(c) /\ mine[c] = x
                        \/ \E j \in Closers : cpc'[j] = "delete" /\ target'[j] = x
      BY <1>5 DEF NoStrayChannels, Live, InHand, clickVars
    <2>1. CASE x = ch
      BY <1>2, <2>1
    <2>2. CASE x # ch
      BY <1>2, <1>4, <2>2 DEF NoStrayChannels, Live, InHand
    <2> QED
      BY <2>1, <2>2
  <1>13. LockInv'
    BY <1>5, <1>6, ClicksUntouched DEF clickVars
  <1> QED
    BY <1>6, <1>8, <1>9, <1>10, <1>11, <1>12, <1>13

(* The channel of a closed ticket is deleted. *)
LEMMA DeleteTicketChannelIInv ==
  ASSUME IInv, NEW k \in Closers, UNCHANGED callers, DeleteTicketChannel(k)
  PROVE  IInv'
  <1> DEFINE ch == target[k]
  <1> USE DEF IInv, TicketInv
  <1>1. /\ cpc' \in [Closers -> {"idle", "modlog", "dm", "close", "delete"}]
        /\ target' \in [Closers -> Channels \cup {None}]
        /\ \A j \in Closers \ {k} : cpc'[j] = cpc[j] /\ target'[j] = target[j]
        /\ cpc[k] = "delete" /\ cpc'[k] = "idle"
    BY GotoKChanges DEF DeleteTicketChannel
  <1>2. /\ ch \in Channels /\ status[ch] = "closed" /\ delivered[ch] # "no"
        /\ DeleteChannel(ch)
    BY <1>1 DEF ClosersKnow, DeleteTicketChannel
  <1>3. UNCHANGED <<owner, status, cached, lockVars, clickVars, delivered,
                    callers>>
    BY DEF DeleteTicketChannel, rowVars
  <1> HIDE DEF ch
  <1>4. /\ channel' \in [Channels -> {"absent", "live", "bybot", "byhuman"}]
        /\ leaked' \subseteq Channels /\ leaked \subseteq leaked'
        /\ channel'[ch] = "live" => ch \in leaked'
        /\ \A x \in Channels \ {ch} : channel'[x] = channel[x]
        /\ \A x \in Channels : /\ channel'[x] = "live" => channel[x] = "live"
                               /\ channel'[x] = "absent" <=> channel[x] = "absent"
        /\ ChannelsKnown' /\ BotKeepsOpenTickets' /\ TranscriptBeforeDelete'
        /\ OpenOnce'
    BY <1>2, <1>3, DeleteChannelKeeps DEF rowVars
  <1>5. TypeOK'
    BY <1>1, <1>3, <1>4 DEF TypeOK, lockVars, clickVars
  <1>6. \A c \in Clicks : /\ InHand(c)' <=> InHand(c)
                          /\ mine'[c] = mine[c]
                          /\ InHand(c) => mine[c] # ch
    BY <1>2, <1>3 DEF InHand, OwnChannels, clickVars
  <1>7. OwnChannels'
    BY <1>3, <1>4, <1>6 DEF OwnChannels
  <1>8. OldTickets'
    BY <1>3, <1>4 DEF OldTickets, clickVars
  <1>9. ClosersKnow'
    BY <1>1, <1>3 DEF ClosersKnow
  <1>10. NoStrayChannels'
    <2> SUFFICES ASSUME NEW x \in Channels, channel'[x] = "live", x \notin leaked'
                 PROVE  \/ status'[x] = "open"
                        \/ \E c \in Clicks : InHand(c)' /\ mine'[c] = x
                        \/ \E j \in Closers : cpc'[j] = "delete" /\ target'[j] = x
      BY DEF NoStrayChannels, Live, InHand
    <2>1. x # ch /\ x \in Live /\ x \notin leaked
      BY <1>4 DEF Live
    <2>2. \A j \in Closers : target[j] = x => j # k
      BY <2>1 DEF ch
    <2> QED
      BY <1>1, <1>3, <1>6, <2>1, <2>2 DEF NoStrayChannels, InHand
  <1>11. LockInv'
    BY <1>3, <1>5, ClicksUntouched DEF clickVars
  <1> QED
    BY <1>4, <1>5, <1>7, <1>8, <1>9, <1>10, <1>11

-----------------------------------------------------------------------------
(* The world.                                                              *)

(* Moderators delete channels, and the gateway says so later. *)
LEMMA WorldIInv ==
  ASSUME IInv, NEW ch \in Channels, UNCHANGED callers,
         HumanDeletes(ch) \/ GatewayDelete(ch)
  PROVE  IInv'
  <1> USE DEF IInv, TicketInv
  <1>1. UNCHANGED <<owner, status, lockVars, clickVars, cpc, target, delivered,
                    leaked, callers>>
    BY DEF HumanDeletes, GatewayDelete, rowVars, closerVars
  <1>2. /\ channel' \in [Channels -> {"absent", "live", "bybot", "byhuman"}]
        /\ cached' \subseteq Channels
        /\ \A x \in Channels :
             /\ channel'[x] = "live" => channel[x] = "live" /\ x \in cached'
             /\ channel'[x] = "absent" <=> channel[x] = "absent"
             /\ channel'[x] = "bybot" <=> channel[x] = "bybot"
    <2>1. CASE HumanDeletes(ch)
      BY <2>1 DEF HumanDeletes, ChannelsKnown, TypeOK
    <2>2. CASE GatewayDelete(ch)
      BY <2>2 DEF GatewayDelete, ChannelsKnown, TypeOK
    <2> QED
      BY <2>1, <2>2
  <1>3. TypeOK'
    BY <1>1, <1>2 DEF TypeOK, lockVars, clickVars
  <1>4. ChannelsKnown' /\ OpenOnce' /\ ClosersKnow'
    BY <1>1, <1>2 DEF ChannelsKnown, OpenOnce, ClosersKnow
  <1>5. BotKeepsOpenTickets' /\ TranscriptBeforeDelete'
    BY <1>1, <1>2 DEF BotKeepsOpenTickets, TranscriptBeforeDelete
  <1>6. OwnChannels'
    <2>1. \A x \in Channels : channel[x] \in {"live", "byhuman"} =>
                              channel'[x] \in {"live", "byhuman"}
      BY <1>2 DEF TypeOK
    <2> QED
      BY <1>1, <2>1 DEF OwnChannels, InHand, clickVars
  <1>7. OldTickets'
    BY <1>1, <1>2 DEF OldTickets, clickVars
  <1>8. NoStrayChannels'
    BY <1>1, <1>2 DEF NoStrayChannels, Live, clickVars
  <1>9. LockInv'
    BY <1>1, <1>3, ClicksUntouched DEF clickVars
  <1> QED
    BY <1>3, <1>4, <1>5, <1>6, <1>7, <1>8, <1>9

(* After a restart nobody has anything in hand. *)
LEMMA RestartIInv ==
  ASSUME IInv, UNCHANGED callers, Restart
  PROVE  IInv'
  <1> USE DEF IInv, TicketInv, Restart, rowVars
  <1>1. TypeOK'
    BY DEF TypeOK, Live
  <1>2. ChannelsKnown' /\ OpenOnce' /\ ClosersKnow'
    BY DEF ChannelsKnown, OpenOnce, ClosersKnow, Live
  <1>3. BotKeepsOpenTickets' /\ TranscriptBeforeDelete'
    BY DEF BotKeepsOpenTickets, TranscriptBeforeDelete
  <1>4. OwnChannels' /\ OldTickets'
    BY DEF OwnChannels, OldTickets, InHand
  <1>5. NoStrayChannels'
    BY DEF NoStrayChannels, Live
  <1>6. LocksOfMembers' /\ HeldByRunning' /\ QueuesOfWaiters' /\ WaitersServed'
    BY DEF LocksOfMembers, HeldByRunning, QueuesOfWaiters, WaitersServed
  <1> QED
    BY <1>1, <1>2, <1>3, <1>4, <1>5, <1>6 DEF LockInv

(* The initial state. *)
LEMMA InitIInv == Init => IInv
  <1> SUFFICES ASSUME Init PROVE IInv
    OBVIOUS
  <1> USE DEF Init
  <1>1. TypeOK
    BY DEF TypeOK
  <1>2. ChannelsKnown /\ OpenOnce /\ ClosersKnow /\ OwnChannels /\ OldTickets
    BY DEF ChannelsKnown, OpenOnce, ClosersKnow, OwnChannels, OldTickets, InHand
  <1>3. BotKeepsOpenTickets /\ TranscriptBeforeDelete /\ NoStrayChannels
    BY DEF BotKeepsOpenTickets, TranscriptBeforeDelete, NoStrayChannels, Live
  <1>4. LocksOfMembers /\ HeldByRunning /\ QueuesOfWaiters /\ WaitersServed
    BY DEF LocksOfMembers, HeldByRunning, QueuesOfWaiters, WaitersServed
  <1> QED
    BY <1>1, <1>2, <1>3, <1>4 DEF IInv, TicketInv, LockInv

-----------------------------------------------------------------------------
(* The inductive invariant holds in every reachable state. *)
THEOREM Invariance == Spec => []IInv
  <1>1. IInv /\ [Next]_vars => IInv'
    <2> SUFFICES ASSUME IInv, [Next]_vars PROVE IInv'
      OBVIOUS
    <2>1. ASSUME NEW c \in Clicks, UNCHANGED callers,
                 (\E u \in Users : EnterLock(c, u)) \/ ClickStep(c)
          PROVE  IInv'
      BY <2>1, LockStepsIInv, LookStepsIInv, CloseOldIInv, CreateChannelIInv,
         PersistIInv, CleanUpIInv DEF ClickStep
    <2>2. ASSUME NEW k \in Closers, UNCHANGED callers,
                 (\E ch \in Channels : PressClose(k, ch)) \/ CloserStep(k)
          PROVE  IInv'
      BY <2>2, CloserQuietIInv, CloseTicketIInv, DeleteTicketChannelIInv
         DEF CloserStep
    <2>3. ASSUME NEW ch \in Channels, UNCHANGED callers,
                 HumanDeletes(ch) \/ GatewayDelete(ch)
          PROVE  IInv'
      BY <2>3, WorldIInv
    <2>4. ASSUME UNCHANGED callers, Restart
          PROVE  IInv'
      BY <2>4, RestartIInv
    <2>5. CASE UNCHANGED vars
      <3> USE DEF vars, rowVars, lockVars, clickVars, closerVars
      <3>1. TypeOK'
        BY <2>5 DEF IInv, TicketInv, TypeOK
      <3>2. TicketInv'
        BY <2>5, <3>1, QuietStepInv
           DEF IInv, TicketInv, OldTickets, InHand
      <3>3. LockInv'
        BY <2>5, <3>1, ClicksUntouched
      <3> QED
        BY <3>2, <3>3 DEF IInv
    <2> QED
      BY <2>1, <2>2, <2>3, <2>4, <2>5 DEF Next, Opening, Closing
  <1> QED
    BY InitIInv, <1>1, PTL DEF Spec

(* One open ticket per member: see OneOpenTicketPerUser. *)
THEOREM OneTicket == Spec => []OneOpenTicketPerUser
  <1>1. IInv => OneOpenTicketPerUser
    <2> SUFFICES ASSUME IInv, NEW u \in Users
                 PROVE  Cardinality(OpenTicketsOf(u)) <= 1
      BY DEF OneOpenTicketPerUser
    <2>1. CASE OpenTicketsOf(u) = {}
      BY <2>1, FS_EmptySet
    <2>2. CASE OpenTicketsOf(u) # {}
      <3>1. PICK ch \in Channels : OpenTicketsOf(u) = {ch}
        BY <2>2 DEF IInv, TicketInv, OpenOnce, OpenTicketsOf
      <3> QED
        BY <3>1, FS_Singleton
    <2> QED
      BY <2>1, <2>2
  <1> QED
    BY <1>1, Invariance, PTL

(* The bot deletes no channel of an open ticket: see BotKeepsOpenTickets. *)
THEOREM TicketsKept == Spec => []BotKeepsOpenTickets
  BY Invariance, PTL DEF IInv, TicketInv

(* No transcript is lost to a deletion: see TranscriptBeforeDelete. *)
THEOREM TranscriptsDelivered == Spec => []TranscriptBeforeDelete
  BY Invariance, PTL DEF IInv, TicketInv

(* Every live channel of the bot is accounted for: see NoStrayChannels. *)
THEOREM ChannelsAccounted == Spec => []NoStrayChannels
  BY Invariance, PTL DEF IInv, TicketInv

(* Locks live as long as they are needed: see WaitersServed. *)
THEOREM LocksServe == Spec => []WaitersServed
  BY Invariance, PTL DEF IInv, LockInv

(* No step closes a ticket in use: see ClosedForAReason. *)
THEOREM ClosingJustified == Spec => ClosedForAReason
  <1> DEFINE Justified ==
        \A ch \in Channels : status[ch] = "open" /\ status'[ch] = "closed" =>
                               delivered[ch] # "no" \/ channel[ch] # "live"
  <1>1. IInv /\ [Next]_vars => [Justified]_vars
    <2> SUFFICES ASSUME IInv, Next, NEW ch \in Channels,
                        status[ch] = "open", status'[ch] = "closed"
                 PROVE  delivered[ch] # "no" \/ channel[ch] # "live"
      OBVIOUS
    <2> USE DEF IInv, TicketInv, rowVars
    <2>1. \/ \E c \in Clicks : CloseOld(c) \/ Persist(c)
          \/ \E k \in Closers : CloseTicket(k)
      BY DEF Next, Opening, Closing, EnterLock, ClickStep, Resume, LookUp,
             Decide, CreateChannel, CreateChannelFails, CleanUp, Finish,
             PressClose, CloserStep, DeliverModlog, DeliverDM,
             DeleteTicketChannel, HumanDeletes, GatewayDelete, Restart
    <2>2. ASSUME NEW c \in Clicks, CloseOld(c)
          PROVE  channel[ch] # "live"
      <3>1. pc[c] = "closeold" /\ ch = existing[c]
        BY <2>2 DEF CloseOld, Goto, CloseRow, TypeOK
      <3> QED
        BY <3>1 DEF OldTickets
    <2>3. ASSUME NEW c \in Clicks, Persist(c)
          PROVE  FALSE
      BY <2>3 DEF Persist, CreateRow, TypeOK
    <2>4. ASSUME NEW k \in Closers, CloseTicket(k)
          PROVE  delivered[ch] # "no"
      <3>1. cpc[k] = "close" /\ ch = target[k]
        BY <2>4 DEF CloseTicket, GotoK, CloseRow, TypeOK
      <3> QED
        BY <3>1 DEF ClosersKnow
    <2> QED
      BY <2>1, <2>2, <2>3, <2>4
  <1> QED
    BY <1>1, Invariance, PTL DEF Spec, ClosedForAReason
=============================================================================
