---------------------------- MODULE CachesProofs ----------------------------
(***************************************************************************)
(* Theorems about Caches, for any coroutines, words and settings.  What    *)
(* keeps either cache from being filled with what is no longer stored is   *)
(* the order in which the connection answers, so the invariant compares    *)
(* places in its queue: a statement that needs `a' more rounds of the      *)
(* queue and stands at place i is answered before one that needs b and     *)
(* stands at j if a < b, or a = b and i < j.                               *)
(***************************************************************************)
EXTENDS Caches, TLAPS

-----------------------------------------------------------------------------
(* The connection k beside the program counters p.                         *)
Conn == [queue : Seq(Coros), lock : Coros \cup {Free}, waiters : Seq(Coros)]

PCs == {"idle", "select", "fetch", "close", "begin", "write", "written",
        "insert", "commit", "rollback"}
Reads  == {"select", "fetch", "close"}
Writes == PCs \ (Reads \cup {"idle"})

Distinct(s) == \A i, j \in 1..Len(s) : s[i] = s[j] => i = j

(* A coroutine has one statement pending; of those that want to write only *)
(* the one with the lock does, and the others wait for it.                 *)
OnePending(k, p) ==
  /\ Distinct(k.queue)
  /\ \A i \in 1..Len(k.queue) : p[k.queue[i]] \in Reads \/ k.queue[i] = k.lock
  /\ \A c \in Coros :
       p[c] \in Reads \/ c = k.lock
         => \E i \in 1..Len(k.queue) : k.queue[i] = c
  /\ k.lock # Free => p[k.lock] \in Writes

WaitersInLine(k, p) ==
  /\ Distinct(k.waiters)
  /\ \A i \in 1..Len(k.waiters) :
       p[k.waiters[i]] = "begin" /\ k.waiters[i] # k.lock
  /\ k.lock = Free => k.waiters = <<>>

Apart(k, p) == /\ k \in Conn /\ p \in [Coros -> PCs]
               /\ OnePending(k, p)
               /\ WaitersInLine(k, p)

(* c, with a rounds to go, is answered for good before d, with b to go.    *)
Before(k, c, a, d, b) ==
  \A i, j \in 1..Len(k.queue) :
    k.queue[i] = c /\ k.queue[j] = d => a < b \/ (a = b /\ i < j)

(* The rounds a reader of either service needs, and those an upsert and a  *)
(* change of the words need at least until they commit.                    *)
ReadRounds(c) ==
  CASE pc[c] = "select" -> 2
    [] pc[c] = "fetch"  -> 1
    [] OTHER            -> 0

UpsertRounds(c) ==
  CASE pc[c] = "begin"  -> 2
    [] pc[c] = "insert" -> 1
    [] OTHER            -> 0

ChangeRounds(c) ==
  CASE pc[c] = "write"   -> 2
    [] pc[c] = "written" -> IF left[c] = {} THEN 1 ELSE 3
    [] OTHER             -> 0

CallersApart ==
  /\ callers \in [words : SUBSET Coros, settings : SUBSET Coros]
  /\ callers.words \cap callers.settings = {}

-----------------------------------------------------------------------------
(* The word list.                                                          *)
WordsTyped ==
  /\ op \in [Coros -> W!Changes \cup {"find"}]
  /\ {DOMAIN arg, DOMAIN left, DOMAIN custom} = {Coros}
  /\ failed \in BOOLEAN

(* How far a change has come; one at work holds the lock.                  *)
SoFar(c) ==
  /\ pc[c] \in Writes => /\ op[c] \in W!Changes
                         /\ op[c] = "clear" => left[c] = {}
  /\ pc[c] = "begin" => left[c] = arg[c]
  /\ pc[c] = "rollback" => failed
  /\ c = conn.lock /\ pc[c] \in {"write", "written"} =>
       CASE op[c] = "add" -> left[c] \subseteq arg[c]
                             /\ words = savedWords \cup (arg[c] \ left[c])
         [] op[c] \in {"remove", "clear"} ->
              IF pc[c] = "write"
                THEN words = savedWords
                ELSE left[c] = {} /\ words = W!Result(c, savedWords)
  /\ c = conn.lock /\ pc[c] = "commit" => words = W!Result(c, savedWords)

ChangeSoFar == \A c \in callers.words : SoFar(c)

Changing == conn.lock \in callers.words
              /\ pc[conn.lock] \in {"write", "written", "commit"}

WordsStored ==
  words # savedWords =>
    conn.lock \in callers.words
      /\ pc[conn.lock] \in {"write", "written", "commit", "rollback"}

(* A list that is not the connection's was read beside a change under way; *)
(* who holds it is done with it before that change commits.                *)
OldLists ==
  ~failed =>
    /\ filter \notin {NotCached, words} => Changing
    /\ \A c \in callers.words :
         pc[c] \in {"fetch", "close"} /\ custom[c] # words =>
           Changing /\ Before(conn, c, ReadRounds(c), conn.lock, ChangeRounds(conn.lock))

WordInv == WordsTyped /\ ChangeSoFar /\ WordsStored /\ OldLists

-----------------------------------------------------------------------------
(* The settings.                                                           *)
InOrder == {c \in C!Config : c.kick <= c.ban}

SettingsTyped ==
  /\ {row, savedRow, cache} \subseteq InOrder \cup {Absent}
  /\ fields \in [Coros -> C!Fields \cup {C!NoFields}]
  /\ cfg \in [Coros -> InOrder \cup {Absent}]
  /\ gone \in BOOLEAN

(* What a writer writes, and the row it has written. *)
RowsWritten ==
  /\ making \subseteq callers.settings
  /\ \A c \in making : pc[c] \in Writes /\ cfg[c] = C!Defaults
  /\ \A c \in callers.settings :
       /\ pc[c] \in Writes => cfg[c] # Absent
       /\ c = conn.lock /\ pc[c] = "commit" => row = cfg[c]
  /\ row # savedRow => conn.lock \in callers.settings
                         /\ pc[conn.lock] = "commit"

Current == {Absent, IF savedRow = Absent THEN C!Defaults ELSE savedRow}

(* What the cache and the readers have is current; while nothing is cached *)
(* nobody is about to change it; and readers are done before one who is.   *)
SettingsCurrent ==
  ~gone =>
    /\ cache \in Current
    /\ \A c \in callers.settings :
         pc[c] \in {"fetch", "close"} =>
           /\ cfg[c] \in Current
           /\ cache = Absent /\ cfg[c] = Absent => savedRow = Absent
    /\ cache = Absent =>
         \A c \in callers.settings :
           pc[c] \in Writes => c \in making /\ savedRow = Absent

ReadersFirst ==
  ~gone /\ conn.lock \in callers.settings
    /\ (conn.lock \notin making \/ savedRow # Absent) =>
    \A c \in callers.settings :
      pc[c] \in Reads => Before(conn, c, ReadRounds(c), conn.lock, UpsertRounds(conn.lock))

SettingsInv ==
  SettingsTyped /\ RowsWritten /\ SettingsCurrent /\ ReadersFirst

IInv == CallersApart /\ Apart(conn, pc) /\ WordInv /\ SettingsInv

-----------------------------------------------------------------------------
(* What a coroutine may do at the connection, whichever service it calls.  *)
Enter(c)   == /\ pc[c] = "idle" /\ pc' = [pc EXCEPT ![c] = "select"]
              /\ conn' = Submit(conn, c)
Ask(c)     == /\ pc[c] = "idle" /\ pc' = [pc EXCEPT ![c] = "begin"]
              /\ conn' = Lock(conn, c)
GoOn(c)    == /\ IsNext(conn, c) /\ conn' = Continue(conn, c)
              /\ \/ \E to \in {"fetch", "close"} :
                      pc[c] \in Reads /\ pc' = [pc EXCEPT ![c] = to]
                 \/ \E to \in Writes \ {"begin"} :
                      pc[c] \in Writes /\ pc' = [pc EXCEPT ![c] = to]
Leave(c)   == /\ IsNext(conn, c) /\ pc[c] \in Reads
              /\ pc' = [pc EXCEPT ![c] = "idle"]
              /\ conn' = Answered(conn)
Release(c) == /\ IsNext(conn, c) /\ pc[c] \in Writes
              /\ pc' = [pc EXCEPT ![c] = "idle"]
              /\ conn' = Unlock(Answered(conn))
Upgrade(c) == /\ IsNext(conn, c) /\ pc[c] \in Reads
              /\ pc' = [pc EXCEPT ![c] = "begin"]
              /\ conn' = Lock(Answered(conn), c)
Again(c)   == /\ IsNext(conn, c) /\ pc[c] \in Writes
              /\ pc' = [pc EXCEPT ![c] = "begin"]
              /\ conn' = Lock(Unlock(Answered(conn)), c)

Moves(c) == \/ Enter(c) \/ Ask(c) \/ GoOn(c) \/ Leave(c) \/ Release(c)
            \/ Upgrade(c) \/ Again(c)

-----------------------------------------------------------------------------
(* The operations of the connection, field by field.                       *)
LEMMA SubmitFields ==
  ASSUME NEW k \in Conn, NEW c \in Coros
  PROVE  /\ Submit(k, c) \in Conn
         /\ Submit(k, c).queue = Append(k.queue, c)
         /\ Submit(k, c).lock = k.lock /\ Submit(k, c).waiters = k.waiters
<1> DEFINE longer == Append(k.queue, c)
<1>1. k.queue \in Seq(Coros) /\ longer \in Seq(Coros)
  BY DEF Conn
<1>2. Submit(k, c) = [k EXCEPT !.queue = longer]
  BY DEF Conn, Submit
<1> HIDE DEF longer
<1>3. /\ Submit(k, c) \in Conn /\ Submit(k, c).queue = longer
      /\ Submit(k, c).lock = k.lock /\ Submit(k, c).waiters = k.waiters
  BY <1>1, <1>2 DEF Conn
<1> QED BY <1>3 DEF longer

LEMMA AnsweredFields ==
  ASSUME NEW k \in Conn, k.queue # <<>>
  PROVE  /\ Answered(k) \in Conn
         /\ Answered(k).queue = Tail(k.queue)
         /\ Answered(k).lock = k.lock /\ Answered(k).waiters = k.waiters
<1>1. k.queue \in Seq(Coros) /\ Tail(k.queue) \in Seq(Coros)
  BY DEF Conn
<1>2. \A q \in Seq(Coros) : [k EXCEPT !.queue = q] \in Conn
                           /\ [k EXCEPT !.queue = q].queue = q
                           /\ [k EXCEPT !.queue = q].lock = k.lock
                           /\ [k EXCEPT !.queue = q].waiters = k.waiters
  BY DEF Conn
<1>3. Answered(k) = [k EXCEPT !.queue = Tail(k.queue)]
  BY <1>1 DEF Conn, Answered
<1> QED BY <1>1, <1>2, <1>3

LEMMA LockFields ==
  ASSUME NEW k \in Conn, NEW c \in Coros
  PROVE  /\ Lock(k, c) \in Conn
         /\ IF k.lock = Free /\ k.waiters = <<>>
              THEN /\ Lock(k, c).queue = Append(k.queue, c)
                   /\ Lock(k, c).lock = c /\ Lock(k, c).waiters = <<>>
              ELSE /\ Lock(k, c).queue = k.queue /\ Lock(k, c).lock = k.lock
                   /\ Lock(k, c).waiters = Append(k.waiters, c)
<1> DEFINE held == [k EXCEPT !.lock = c]
           queued == [k EXCEPT !.waiters = Append(@, c)]
<1>1. CASE k.lock = Free /\ k.waiters = <<>>
  <2>1. held \in Conn /\ held.queue = k.queue /\ held.lock = c /\ held.waiters = <<>>
    BY <1>1 DEF Conn
  <2>2. Lock(k, c) = Submit(held, c)
    BY <1>1 DEF Lock
  <2> HIDE DEF held
  <2> QED BY <1>1, <2>1, <2>2, SubmitFields
<1>2. CASE ~(k.lock = Free /\ k.waiters = <<>>)
  <2>1. k.waiters \in Seq(Coros) /\ Append(k.waiters, c) \in Seq(Coros)
    BY DEF Conn
  <2>2. /\ queued \in Conn /\ queued.queue = k.queue /\ queued.lock = k.lock
        /\ queued.waiters = Append(k.waiters, c)
    BY <2>1 DEF Conn
  <2>3. Lock(k, c) = queued
    BY <1>2 DEF Lock
  <2> HIDE DEF queued
  <2> QED BY <1>2, <2>2, <2>3
<1> QED BY <1>1, <1>2

LEMMA UnlockFields ==
  ASSUME NEW k \in Conn
  PROVE  /\ Unlock(k) \in Conn
         /\ IF k.waiters = <<>>
              THEN /\ Unlock(k).queue = k.queue /\ Unlock(k).lock = Free
                   /\ Unlock(k).waiters = <<>>
              ELSE /\ Unlock(k).queue = Append(k.queue, Head(k.waiters))
                   /\ Unlock(k).lock = Head(k.waiters)
                   /\ Unlock(k).waiters = Tail(k.waiters)
<1> DEFINE free == [k EXCEPT !.lock = Free]
           passed == [k EXCEPT !.lock = Head(k.waiters), !.waiters = Tail(@)]
<1>1. CASE k.waiters = <<>>
  <2>1. /\ free \in Conn /\ free.queue = k.queue /\ free.lock = Free
        /\ free.waiters = <<>>
    BY <1>1 DEF Conn
  <2>2. Unlock(k) = free
    BY <1>1 DEF Unlock
  <2> HIDE DEF free
  <2> QED BY <1>1, <2>1, <2>2
<1>2. CASE k.waiters # <<>>
  <2>1. k.waiters \in Seq(Coros)
    BY DEF Conn
  <2>2. Head(k.waiters) \in Coros /\ Tail(k.waiters) \in Seq(Coros)
    BY <1>2, <2>1
  <2>3. /\ passed \in Conn /\ passed.queue = k.queue
        /\ passed.lock = Head(k.waiters) /\ passed.waiters = Tail(k.waiters)
    BY <2>1, <2>2 DEF Conn
  <2>4. Unlock(k) = Submit(passed, Head(k.waiters))
    BY <1>2 DEF Unlock
  <2> HIDE DEF passed
  <2>5. /\ Unlock(k) \in Conn
        /\ Unlock(k).queue = Append(passed.queue, Head(k.waiters))
        /\ Unlock(k).lock = passed.lock /\ Unlock(k).waiters = passed.waiters
    <3>1. passed \in Conn
      BY <2>3
    <3> QED BY SMTT(30), <2>2, <2>4, <3>1, SubmitFields
  <2> QED BY <1>2, <2>3, <2>5
<1> QED BY <1>1, <1>2

(* Sequences, place by place.                                              *)
LEMMA AppendPlaces ==
  ASSUME NEW S, NEW s \in Seq(S), NEW e \in S
  PROVE  /\ Append(s, e) \in Seq(S)
         /\ Len(Append(s, e)) = Len(s) + 1 /\ Len(s) \in Nat
         /\ \A i \in 1..Len(s) : Append(s, e)[i] = s[i] /\ s[i] \in S
         /\ Append(s, e)[Len(s) + 1] = e
OBVIOUS

LEMMA TailPlaces ==
  ASSUME NEW S, NEW s \in Seq(S), s # <<>>
  PROVE  /\ Tail(s) \in Seq(S)
         /\ Len(Tail(s)) = Len(s) - 1 /\ Len(s) \in Nat \ {0}
         /\ \A i \in 1..Len(s) - 1 : Tail(s)[i] = s[i + 1]
         /\ Head(s) = s[1] /\ s[1] \in S
OBVIOUS

LEMMA AppendDistinct ==
  ASSUME NEW S, NEW s \in Seq(S), NEW e \in S, Distinct(s),
         \A i \in 1..Len(s) : s[i] # e
  PROVE  Distinct(Append(s, e))
<1> DEFINE t == Append(s, e)
           m == Len(s)
<1>1. /\ Len(t) = m + 1 /\ m \in Nat /\ t[m + 1] = e
      /\ \A i \in 1..m : t[i] = s[i]
  BY AppendPlaces
<1>2. \A i \in 1..m : s[i] # e
  OBVIOUS
<1>3. \A i, j \in 1..m : s[i] = s[j] => i = j
  BY DEF Distinct
<1>4. 1..Len(t) = 1..m \cup {m + 1}
  BY <1>1
<1> HIDE DEF t, m
<1>5. \A i, j \in 1..m : t[i] = t[j] => i = j
  BY <1>1, <1>3
<1>6. \A i \in 1..m : t[i] # t[m + 1]
  BY <1>1, <1>2
<1>7. \A i, j \in 1..Len(t) : t[i] = t[j] => i = j
  BY <1>4, <1>5, <1>6
<1> QED BY <1>7 DEF Distinct, t

LEMMA TailDistinct ==
  ASSUME NEW S, NEW s \in Seq(S), s # <<>>, Distinct(s)
  PROVE  /\ Distinct(Tail(s))
         /\ \A i \in 1..Len(Tail(s)) : Tail(s)[i] # s[1]
<1> DEFINE t == Tail(s)
           m == Len(s)
<1>1. /\ Len(t) = m - 1 /\ m \in Nat \ {0}
      /\ \A i \in 1..m - 1 : t[i] = s[i + 1]
  BY TailPlaces
<1>2. \A i, j \in 1..m : s[i] = s[j] => i = j
  BY DEF Distinct
<1> HIDE DEF t, m
<1>3. ASSUME NEW i \in 1..m - 1
      PROVE  i + 1 \in 1..m /\ 1 \in 1..m /\ i + 1 # 1
  BY <1>1
<1>4. ASSUME NEW i \in 1..m - 1, NEW j \in 1..m - 1, t[i] = t[j]
      PROVE  i = j
  <2>1. s[i + 1] = s[j + 1]
    BY <1>1, <1>4
  <2>2. i + 1 = j + 1
    BY <1>2, <1>3, <2>1
  <2> QED BY <1>1, <2>2
<1>5. ASSUME NEW i \in 1..m - 1
      PROVE  t[i] # s[1]
  BY <1>1, <1>2, <1>3
<1> QED BY <1>1, <1>4, <1>5 DEF Distinct, t

-----------------------------------------------------------------------------
(* Every move leaves one statement pending for each, and the line in order.*)
LEMMA EnterApart ==
  ASSUME NEW k, NEW p, Apart(k, p), NEW c \in Coros, p[c] = "idle",
         NEW to \in Reads
  PROVE  Apart(Submit(k, c), [p EXCEPT ![c] = to])
<1> DEFINE n == Submit(k, c)
           r == [p EXCEPT ![c] = to]
           m == Len(k.queue)
<1>1. /\ k \in Conn /\ p \in [Coros -> PCs] /\ k.queue \in Seq(Coros)
      /\ k.waiters \in Seq(Coros) /\ Free \notin Coros
  BY FreeAssumption DEF Apart, Conn
<1>2. n \in Conn /\ n.lock = k.lock /\ n.waiters = k.waiters
      /\ n.queue = Append(k.queue, c)
  BY <1>1, SubmitFields
<1>3. /\ Len(n.queue) = m + 1 /\ m \in Nat /\ n.queue[m + 1] = c
      /\ \A i \in 1..m : n.queue[i] = k.queue[i] /\ k.queue[i] \in Coros
  BY <1>1, <1>2, AppendPlaces
<1>4. /\ r \in [Coros -> PCs] /\ r[c] \in Reads
      /\ \A o \in Coros : o # c => r[o] = p[o]
  BY <1>1 DEF PCs, Reads
<1> HIDE DEF n, r, m
<1>5. c # k.lock /\ \A i \in 1..m : k.queue[i] # c
  BY <1>1 DEF Apart, OnePending, Reads, Writes, m
<1>6. \A i \in 1..Len(k.waiters) : k.waiters[i] # c /\ k.waiters[i] \in Coros
  BY <1>1 DEF Apart, WaitersInLine
<1>7. OnePending(n, r)
  <2>1. Distinct(n.queue)
    BY <1>1, <1>2, <1>5, AppendDistinct DEF Apart, OnePending, m
  <2>2. \A i \in 1..Len(n.queue) : r[n.queue[i]] \in Reads \/ n.queue[i] = n.lock
    BY <1>2, <1>3, <1>4, <1>5 DEF Apart, OnePending, m, Reads
  <2>3. ASSUME NEW o \in Coros, r[o] \in Reads \/ o = n.lock
        PROVE  \E i \in 1..Len(n.queue) : n.queue[i] = o
    <3>1. CASE o = c
      BY <1>3, <3>1
    <3>2. CASE o # c
      <4>1. PICK i \in 1..m : k.queue[i] = o
        BY <1>2, <1>4, <2>3, <3>2 DEF Apart, OnePending, m
      <4> QED BY <1>3, <4>1
    <3> QED BY <3>1, <3>2
  <2>4. n.lock # Free => r[n.lock] \in Writes
    BY <1>1, <1>2, <1>4, <1>5 DEF Apart, OnePending, Conn
  <2> QED BY <2>1, <2>2, <2>3, <2>4 DEF OnePending
<1>8. WaitersInLine(n, r)
  BY <1>2, <1>4, <1>6 DEF Apart, WaitersInLine
<1> QED BY <1>2, <1>4, <1>7, <1>8 DEF Apart, n, r

(* Behind readers alone, a writer joins the queue with the lock.           *)
LEMMA HolderJoins ==
  ASSUME NEW t \in Seq(Coros), Distinct(t), NEW h \in Coros,
         NEW n \in Conn, n.queue = Append(t, h), n.lock = h,
         NEW r, r[h] \in Writes,
         \A i \in 1..Len(t) : r[t[i]] \in Reads,
         \A o \in Coros : r[o] \in Reads => \E i \in 1..Len(t) : t[i] = o
  PROVE  OnePending(n, r)
<1> DEFINE m == Len(t)
<1>1. /\ Len(n.queue) = m + 1 /\ m \in Nat /\ n.queue[m + 1] = h
      /\ \A i \in 1..m : n.queue[i] = t[i]
  BY AppendPlaces
<1>2. \A i \in 1..m : t[i] # h
  BY DEF Writes
<1>3. Distinct(n.queue)
  BY <1>2, AppendDistinct
<1>4. /\ 1..Len(n.queue) = 1..m \cup {m + 1}
  BY <1>1
<1>5. \A i \in 1..m : r[t[i]] \in Reads
  OBVIOUS
<1>6. \A o \in Coros : r[o] \in Reads => \E i \in 1..m : t[i] = o
  OBVIOUS
<1> HIDE DEF m
<1>7. \A i \in 1..Len(n.queue) : r[n.queue[i]] \in Reads \/ n.queue[i] = n.lock
  BY <1>1, <1>4, <1>5
<1>8. ASSUME NEW o \in Coros, r[o] \in Reads \/ o = n.lock
      PROVE  \E i \in 1..Len(n.queue) : n.queue[i] = o
  BY <1>1, <1>4, <1>6, <1>8
<1> QED BY <1>3, <1>7, <1>8 DEF OnePending

LEMMA AskApart ==
  ASSUME NEW k, NEW p, Apart(k, p), NEW c \in Coros, p[c] = "idle"
  PROVE  Apart(Lock(k, c), [p EXCEPT ![c] = "begin"])
<1> DEFINE n == Lock(k, c)
           r == [p EXCEPT ![c] = "begin"]
           m == Len(k.queue)
           w == Len(k.waiters)
<1>1. /\ k \in Conn /\ p \in [Coros -> PCs] /\ k.queue \in Seq(Coros)
      /\ k.waiters \in Seq(Coros) /\ Free \notin Coros
      /\ k.lock \in Coros \cup {Free}
  BY FreeAssumption DEF Apart, Conn
<1>4. /\ r \in [Coros -> PCs] /\ r[c] = "begin" /\ "begin" \in Writes
      /\ \A o \in Coros : o # c => r[o] = p[o]
  BY <1>1 DEF PCs, Writes, Reads
<1>5. c # k.lock /\ \A i \in 1..m : k.queue[i] # c
  BY <1>1 DEF Apart, OnePending, Reads, Writes
<1>6. \A i \in 1..w : k.waiters[i] # c /\ k.waiters[i] \in Coros
  BY <1>1 DEF Apart, WaitersInLine
<1>7. n \in Conn
  BY <1>1, LockFields
<1>8. CASE k.lock = Free /\ k.waiters = <<>>
  <2>1. n.queue = Append(k.queue, c) /\ n.lock = c /\ n.waiters = <<>>
    BY <1>1, <1>8, LockFields
  <2>2. Distinct(k.queue) /\ \A i \in 1..m : k.queue[i] \in Coros
    BY <1>1 DEF Apart, OnePending
  <2> HIDE DEF n, r
  <2>3. \A i \in 1..m : r[k.queue[i]] \in Reads
    BY <1>1, <1>4, <1>5, <1>8, <2>2 DEF Apart, OnePending
  <2>4. \A o \in Coros : r[o] \in Reads => \E i \in 1..m : k.queue[i] = o
    BY <1>4 DEF Apart, OnePending, Writes
  <2>6. OnePending(n, r)
    BY SMTT(30), <1>1, <1>4, <1>7, <2>1, <2>2, <2>3, <2>4, HolderJoins
  <2>7. WaitersInLine(n, r)
    BY <1>1, <2>1 DEF WaitersInLine, Distinct
  <2> QED BY <1>4, <1>7, <2>6, <2>7 DEF Apart, n, r
<1>9. CASE ~(k.lock = Free /\ k.waiters = <<>>)
  <2>1. /\ n.queue = k.queue /\ n.lock = k.lock
        /\ n.waiters = Append(k.waiters, c)
    BY <1>1, <1>9, LockFields
  <2>2. /\ Len(n.waiters) = w + 1 /\ w \in Nat /\ n.waiters[w + 1] = c
        /\ \A i \in 1..w : n.waiters[i] = k.waiters[i]
    BY <1>1, <2>1, AppendPlaces
  <2>3. \A i \in 1..m : k.queue[i] \in Coros
    BY <1>1
  <2>4. k.lock # Free
    BY <1>9 DEF Apart, WaitersInLine
  <2> HIDE DEF n, r, m, w
  <2>5. OnePending(n, r)
    <3>1. \A i \in 1..m : r[k.queue[i]] \in Reads \/ k.queue[i] = k.lock
      BY <1>4, <1>5, <2>3 DEF Apart, OnePending, m
    <3>2. \A o \in Coros : r[o] \in Reads \/ o = k.lock => o # c
      BY <1>4, <1>5 DEF Writes
    <3>3. \A o \in Coros : r[o] \in Reads \/ o = k.lock
                             => \E i \in 1..m : k.queue[i] = o
      BY <1>4, <3>2 DEF Apart, OnePending, m
    <3>4. r[k.lock] \in Writes
      BY <1>1, <1>4, <1>5, <2>4 DEF Apart, OnePending
    <3> QED BY <2>1, <3>1, <3>3, <3>4 DEF Apart, OnePending, m
  <2>6. WaitersInLine(n, r)
    <3>1. Distinct(n.waiters)
      BY <1>1, <1>6, <2>1, AppendDistinct DEF Apart, WaitersInLine, w
    <3>2. \A i \in 1..Len(n.waiters) :
            r[n.waiters[i]] = "begin" /\ n.waiters[i] # n.lock
      BY <1>4, <1>5, <1>6, <2>1, <2>2 DEF Apart, WaitersInLine, w
    <3> QED BY <2>1, <2>4, <3>1, <3>2 DEF WaitersInLine
  <2> QED BY <1>4, <1>7, <2>5, <2>6 DEF Apart, n, r
<1> QED BY <1>8, <1>9

(* A reader that is answered leaves the queue.                             *)
LEMMA LeaveApart ==
  ASSUME NEW k, NEW p, Apart(k, p), NEW c \in Coros, IsNext(k, c),
         p[c] \in Reads
  PROVE  Apart(Answered(k), [p EXCEPT ![c] = "idle"])
<1> DEFINE n == Answered(k)
           r == [p EXCEPT ![c] = "idle"]
           m == Len(k.queue)
<1>1. /\ k \in Conn /\ p \in [Coros -> PCs] /\ k.queue \in Seq(Coros)
      /\ k.waiters \in Seq(Coros) /\ Free \notin Coros
      /\ k.lock \in Coros \cup {Free} /\ k.queue # <<>>
  BY FreeAssumption DEF Apart, Conn, IsNext
<1>2. n \in Conn /\ n.lock = k.lock /\ n.waiters = k.waiters
      /\ n.queue = Tail(k.queue)
  BY <1>1, AnsweredFields
<1>3. /\ Len(n.queue) = m - 1 /\ m \in Nat \ {0} /\ k.queue[1] = c
      /\ \A i \in 1..m - 1 : n.queue[i] = k.queue[i + 1]
  BY <1>1, <1>2, TailPlaces DEF IsNext
<1>4. /\ r \in [Coros -> PCs] /\ r[c] = "idle"
      /\ \A o \in Coros : o # c => r[o] = p[o]
  BY <1>1 DEF PCs
<1>5. Distinct(n.queue) /\ \A i \in 1..m - 1 : n.queue[i] # c
  BY <1>1, <1>2, <1>3, TailDistinct DEF Apart, OnePending
<1>6. \A i \in 1..m - 1 : i + 1 \in 1..m /\ n.queue[i] \in Coros
  BY <1>1, <1>3
<1>7. c # k.lock
  BY <1>1 DEF Apart, OnePending, Reads, Writes
<1>8. \A i \in 1..Len(k.waiters) : k.waiters[i] # c /\ k.waiters[i] \in Coros
  BY <1>1 DEF Apart, WaitersInLine, Reads
<1> HIDE DEF n, r, m
<1>9. ASSUME NEW i \in 1..m, i # 1
      PROVE  i - 1 \in 1..m - 1 /\ (i - 1) + 1 = i
  BY <1>3, <1>9
<1>10. \A i \in 1..Len(n.queue) : r[n.queue[i]] \in Reads \/ n.queue[i] = n.lock
  <2>1. \A i \in 1..m : p[k.queue[i]] \in Reads \/ k.queue[i] = k.lock
    BY DEF Apart, OnePending, m
  <2> QED BY <1>2, <1>3, <1>4, <1>5, <1>6, <2>1
<1>11. ASSUME NEW o \in Coros, r[o] \in Reads \/ o = n.lock
       PROVE  \E i \in 1..Len(n.queue) : n.queue[i] = o
  <2>1. o # c
    BY <1>2, <1>4, <1>7, <1>11 DEF Reads
  <2>2. PICK i \in 1..m : k.queue[i] = o
    BY <1>2, <1>4, <1>11, <2>1 DEF Apart, OnePending, m
  <2>3. i # 1
    BY <1>3, <2>1, <2>2
  <2> QED BY <1>3, <1>9, <2>2, <2>3
<1>12. n.lock # Free => r[n.lock] \in Writes
  BY <1>1, <1>2, <1>4, <1>7 DEF Apart, OnePending
<1>13. OnePending(n, r)
  BY <1>5, <1>10, <1>11, <1>12 DEF OnePending
<1>14. WaitersInLine(n, r)
  BY <1>2, <1>4, <1>8 DEF Apart, WaitersInLine
<1> QED BY <1>2, <1>4, <1>13, <1>14 DEF Apart, n, r

(* When the holder of the lock is answered, only readers are left behind.  *)
LEMMA HolderNext ==
  ASSUME NEW k, NEW p, Apart(k, p), NEW c \in Coros, IsNext(k, c),
         p[c] \in Writes
  PROVE  /\ c = k.lock
         /\ Tail(k.queue) \in Seq(Coros) /\ Distinct(Tail(k.queue))
         /\ \A i \in 1..Len(Tail(k.queue)) :
              p[Tail(k.queue)[i]] \in Reads /\ Tail(k.queue)[i] # c
         /\ \A o \in Coros : p[o] \in Reads =>
              \E i \in 1..Len(Tail(k.queue)) : Tail(k.queue)[i] = o
<1> DEFINE t == Tail(k.queue)
           m == Len(k.queue)
<1>1. k.queue \in Seq(Coros) /\ k.queue # <<>>
  BY DEF Apart, Conn, IsNext
<1>2. /\ t \in Seq(Coros) /\ Len(t) = m - 1 /\ m \in Nat \ {0}
      /\ k.queue[1] = c
      /\ \A i \in 1..m - 1 : t[i] = k.queue[i + 1]
  BY <1>1, TailPlaces DEF IsNext
<1>3. Distinct(t) /\ \A i \in 1..m - 1 : t[i] # c
  BY <1>1, <1>2, TailDistinct DEF Apart, OnePending
<1>4. \A i \in 1..m : p[k.queue[i]] \in Reads \/ k.queue[i] = k.lock
  BY DEF Apart, OnePending
<1>5. ASSUME NEW i \in 1..m, i # 1
      PROVE  i - 1 \in 1..m - 1 /\ (i - 1) + 1 = i
  BY <1>2, <1>5
<1>6. 1 \in 1..m /\ \A i \in 1..m - 1 : i + 1 \in 1..m
  BY <1>2
<1>7. \A o \in Coros : p[o] \in Reads => \E i \in 1..m : k.queue[i] = o
  BY DEF Apart, OnePending
<1> HIDE DEF t, m
<1>8. c = k.lock
  BY <1>2, <1>4, <1>6 DEF Writes
<1>9. \A i \in 1..m - 1 : p[t[i]] \in Reads
  BY <1>2, <1>3, <1>4, <1>6, <1>8
<1>10. ASSUME NEW o \in Coros, p[o] \in Reads
       PROVE  \E i \in 1..Len(t) : t[i] = o
  <2>1. PICK i \in 1..m : k.queue[i] = o
    BY <1>7, <1>10
  <2>2. i # 1
    BY <1>2, <1>10, <2>1 DEF Writes
  <2> QED BY <1>2, <1>5, <2>1, <2>2
<1> QED BY <1>2, <1>3, <1>8, <1>9, <1>10 DEF t

(* The holder goes on, or gives the lock up to the first in line.          *)
LEMMA WriterGoesOn ==
  ASSUME NEW k, NEW p, Apart(k, p), NEW c \in Coros, IsNext(k, c),
         p[c] \in Writes, NEW to \in Writes
  PROVE  Apart(Continue(k, c), [p EXCEPT ![c] = to])
<1> DEFINE n == Continue(k, c)
           r == [p EXCEPT ![c] = to]
           t == Tail(k.queue)
<1>1. /\ k \in Conn /\ p \in [Coros -> PCs] /\ k.queue # <<>>
      /\ k.waiters \in Seq(Coros) /\ Free \notin Coros
  BY FreeAssumption DEF Apart, Conn, IsNext
<1>2. /\ n \in Conn /\ n.lock = k.lock /\ n.waiters = k.waiters
      /\ n.queue = Append(t, c)
  <2>1. /\ Answered(k) \in Conn /\ Answered(k).queue = t
        /\ Answered(k).lock = k.lock /\ Answered(k).waiters = k.waiters
    BY <1>1, AnsweredFields
  <2> QED BY <2>1, SubmitFields DEF Continue
<1>3. /\ c = k.lock /\ t \in Seq(Coros) /\ Distinct(t)
      /\ \A i \in 1..Len(t) : p[t[i]] \in Reads /\ t[i] # c
      /\ \A o \in Coros : p[o] \in Reads => \E i \in 1..Len(t) : t[i] = o
  BY HolderNext
<1>4. /\ r \in [Coros -> PCs] /\ r[c] = to
      /\ \A o \in Coros : o # c => r[o] = p[o]
  BY <1>1 DEF Writes
<1>5. \A i \in 1..Len(t) : t[i] \in Coros
  BY <1>3
<1>6. \A i \in 1..Len(k.waiters) : k.waiters[i] # c /\ k.waiters[i] \in Coros
  BY <1>1, <1>3 DEF Apart, WaitersInLine
<1> HIDE DEF n, r, t
<1>7. \A i \in 1..Len(t) : r[t[i]] \in Reads
  BY <1>3, <1>4, <1>5
<1>8. \A o \in Coros : r[o] \in Reads => \E i \in 1..Len(t) : t[i] = o
  BY <1>3, <1>4 DEF Writes
<1>9. OnePending(n, r)
  BY <1>2, <1>3, <1>4, <1>7, <1>8, HolderJoins
<1>10. WaitersInLine(n, r)
  BY <1>2, <1>4, <1>6 DEF Apart, WaitersInLine
<1> QED BY <1>2, <1>4, <1>9, <1>10 DEF Apart, n, r

LEMMA ReleaseApart ==
  ASSUME NEW k, NEW p, Apart(k, p), NEW c \in Coros, IsNext(k, c),
         p[c] \in Writes
  PROVE  Apart(Unlock(Answered(k)), [p EXCEPT ![c] = "idle"])
<1> DEFINE n == Unlock(Answered(k))
           r == [p EXCEPT ![c] = "idle"]
           t == Tail(k.queue)
           w == k.waiters
<1>1. /\ k \in Conn /\ p \in [Coros -> PCs] /\ k.queue # <<>>
      /\ w \in Seq(Coros) /\ Free \notin Coros
  BY FreeAssumption DEF Apart, Conn, IsNext
<1>2. /\ Answered(k) \in Conn /\ Answered(k).queue = t
      /\ Answered(k).waiters = w
  BY <1>1, AnsweredFields
<1>3. /\ c = k.lock /\ t \in Seq(Coros) /\ Distinct(t)
      /\ \A i \in 1..Len(t) : p[t[i]] \in Reads /\ t[i] # c
      /\ \A o \in Coros : p[o] \in Reads => \E i \in 1..Len(t) : t[i] = o
  BY HolderNext
<1>4. /\ r \in [Coros -> PCs] /\ r[c] = "idle"
      /\ \A o \in Coros : o # c => r[o] = p[o]
  BY <1>1 DEF PCs
<1>5. \A i \in 1..Len(t) : t[i] \in Coros
  BY <1>3
<1>6. /\ Distinct(w)
      /\ \A i \in 1..Len(w) : w[i] # c /\ w[i] \in Coros /\ p[w[i]] = "begin"
  BY <1>1, <1>3 DEF Apart, WaitersInLine
<1>7. \A i \in 1..Len(t) : r[t[i]] \in Reads
  BY <1>3, <1>4, <1>5
<1>8. \A o \in Coros : r[o] \in Reads => \E i \in 1..Len(t) : t[i] = o
  BY <1>3, <1>4 DEF Reads
<1>9. CASE w = <<>>
  <2>1. n \in Conn /\ n.queue = t /\ n.lock = Free /\ n.waiters = <<>>
    BY <1>2, <1>9, UnlockFields
  <2> HIDE DEF n, r, t, w
  <2>2. OnePending(n, r)
    BY <1>1, <1>3, <1>7, <1>8, <2>1 DEF OnePending
  <2>3. WaitersInLine(n, r)
    BY <2>1 DEF WaitersInLine, Distinct
  <2> QED BY <1>4, <2>1, <2>2, <2>3 DEF Apart, n, r
<1>10. CASE w # <<>>
  <2>1. /\ n \in Conn /\ n.queue = Append(t, Head(w)) /\ n.lock = Head(w)
        /\ n.waiters = Tail(w)
    BY <1>2, <1>10, UnlockFields
  <2>2. /\ Head(w) = w[1] /\ w[1] \in Coros /\ 1 \in 1..Len(w)
        /\ \A i \in 1..Len(Tail(w)) : i + 1 \in 1..Len(w) /\ Tail(w)[i] = w[i + 1]
    BY <1>1, <1>10, TailPlaces
  <2>3. /\ Distinct(Tail(w))
        /\ \A i \in 1..Len(Tail(w)) : Tail(w)[i] # w[1]
    BY <1>1, <1>6, <1>10, TailDistinct
  <2> HIDE DEF n, r, t, w
  <2>4. r[w[1]] \in Writes
    BY <1>4, <1>6, <2>2 DEF Writes, PCs, Reads
  <2>5. OnePending(n, r)
    <3>1. n \in Conn /\ n.queue = Append(t, w[1]) /\ n.lock = w[1]
      BY <2>1, <2>2
    <3>2. t \in Seq(Coros) /\ Distinct(t) /\ w[1] \in Coros
      BY <1>3, <2>2
    <3> QED BY <1>7, <1>8, <2>4, <3>1, <3>2, HolderJoins
  <2>6. WaitersInLine(n, r)
    BY <1>1, <1>4, <1>6, <2>1, <2>2, <2>3 DEF WaitersInLine
  <2> QED BY <1>4, <2>1, <2>5, <2>6 DEF Apart, n, r
<1> QED BY <1>9, <1>10

(* Whatever a coroutine does at the connection keeps it so.                *)
LEMMA MovesApart ==
  ASSUME Apart(conn, pc), NEW c \in Coros, Moves(c)
  PROVE  Apart(conn', pc')
<1> DEFINE idle == [pc EXCEPT ![c] = "idle"]
<1>0. pc \in [Coros -> PCs] /\ conn \in Conn
  BY DEF Apart
<1>1. idle[c] = "idle" /\ \A to : [idle EXCEPT ![c] = to] = [pc EXCEPT ![c] = to]
  BY <1>0
<1>2. CASE Enter(c)
  BY <1>2, EnterApart DEF Enter, Reads
<1>3. CASE Ask(c)
  BY <1>3, AskApart DEF Ask
<1>4. ASSUME GoOn(c), NEW to \in {"fetch", "close"}, pc[c] \in Reads,
             pc' = [pc EXCEPT ![c] = to]
      PROVE  Apart(conn', pc')
  <2>1. Apart(Answered(conn), idle)
    BY <1>4, LeaveApart DEF GoOn
  <2>2. to \in Reads
    BY DEF Reads
  <2> HIDE DEF idle
  <2>3. Apart(Submit(Answered(conn), c), [idle EXCEPT ![c] = to])
    BY <1>1, <2>1, <2>2, EnterApart
  <2> QED BY <1>1, <1>4, <2>3 DEF GoOn, Continue
<1>5. ASSUME GoOn(c), NEW to \in Writes, pc[c] \in Writes,
             pc' = [pc EXCEPT ![c] = to]
      PROVE  Apart(conn', pc')
  BY <1>5, WriterGoesOn DEF GoOn
<1>6. CASE Leave(c)
  BY <1>6, LeaveApart DEF Leave
<1>7. CASE Release(c)
  BY <1>7, ReleaseApart DEF Release
<1>8. CASE Upgrade(c)
  <2>1. Apart(Answered(conn), idle)
    BY <1>8, LeaveApart DEF Upgrade
  <2> HIDE DEF idle
  <2>2. Apart(Lock(Answered(conn), c), [idle EXCEPT ![c] = "begin"])
    BY <1>1, <2>1, AskApart
  <2> QED BY <1>1, <1>8, <2>2 DEF Upgrade
<1>9. CASE Again(c)
  <2>1. Apart(Unlock(Answered(conn)), idle)
    BY <1>9, ReleaseApart DEF Again
  <2> HIDE DEF idle
  <2>2. Apart(Lock(Unlock(Answered(conn)), c), [idle EXCEPT ![c] = "begin"])
    BY <1>1, <2>1, AskApart
  <2> QED BY <1>1, <1>9, <2>2 DEF Again
<1> QED BY <1>2, <1>3, <1>4, <1>5, <1>6, <1>7, <1>8, <1>9 DEF Moves, GoOn

-----------------------------------------------------------------------------
(* The order of answers.                                                   *)
LEMMA BeforeSubmit ==
  ASSUME NEW k \in Conn, NEW e \in Coros, NEW c, NEW d, c # e, d # e,
         NEW a, NEW b, Before(k, c, a, d, b)
  PROVE  Before(Submit(k, e), c, a, d, b)
<1> DEFINE q == Submit(k, e).queue
           m == Len(k.queue)
<1>1. /\ Len(q) = m + 1 /\ m \in Nat /\ q[m + 1] = e
      /\ \A i \in 1..m : q[i] = k.queue[i]
  <2>1. k.queue \in Seq(Coros) /\ q = Append(k.queue, e)
    BY SubmitFields DEF Conn
  <2> HIDE DEF q
  <2> QED BY <2>1, AppendPlaces
<1>2. 1..Len(q) = 1..m \cup {m + 1}
  BY <1>1
<1> HIDE DEF q, m
<1> QED BY <1>1, <1>2 DEF Before, q, m

LEMMA BeforeAnswered ==
  ASSUME NEW k \in Conn, k.queue # <<>>, NEW c, NEW d,
         NEW a \in Nat, NEW b \in Nat, Before(k, c, a, d, b)
  PROVE  Before(Answered(k), c, a, d, b)
<1> DEFINE q == Answered(k).queue
           m == Len(k.queue)
<1>1. /\ Len(q) = m - 1 /\ m \in Nat \ {0}
      /\ \A i \in 1..m - 1 : q[i] = k.queue[i + 1]
  <2>1. k.queue \in Seq(Coros) /\ q = Tail(k.queue)
    BY AnsweredFields DEF Conn
  <2> HIDE DEF q
  <2> QED BY <2>1, TailPlaces
<1> HIDE DEF q, m
<1>2. ASSUME NEW i \in 1..m - 1, NEW j \in 1..m - 1, q[i] = c, q[j] = d
      PROVE  a < b \/ (a = b /\ i < j)
  <2>1. /\ i + 1 \in 1..m /\ j + 1 \in 1..m
        /\ i + 1 < j + 1 => i < j
    BY <1>1
  <2>2. k.queue[i + 1] = c /\ k.queue[j + 1] = d
    BY <1>1, <1>2
  <2>3. a < b \/ (a = b /\ i + 1 < j + 1)
    BY <2>1, <2>2 DEF Before, m
  <2> QED BY <2>1, <2>3
<1> QED BY <1>1, <1>2 DEF Before, q

LEMMA LastInLine ==
  ASSUME NEW t \in Seq(Coros), NEW h \in Coros, NEW n \in Conn,
         n.queue = Append(t, h), \A i \in 1..Len(t) : t[i] # h,
         NEW c, c # h, NEW a \in Nat, NEW b \in Nat, a <= b
  PROVE  Before(n, c, a, h, b)
<1> DEFINE m == Len(t)
<1>1. /\ Len(n.queue) = m + 1 /\ m \in Nat /\ n.queue[m + 1] = h
      /\ \A i \in 1..m : n.queue[i] = t[i]
  BY AppendPlaces
<1>2. 1..Len(n.queue) = 1..m \cup {m + 1}
  BY <1>1
<1>3. \A i \in 1..m : t[i] # h /\ i < m + 1
  BY <1>1
<1> HIDE DEF m
<1>4. a < b \/ a = b
  OBVIOUS
<1> QED BY <1>1, <1>2, <1>3, <1>4 DEF Before

(* What the others do delays nobody.                                       *)
LEMMA OthersKeepOrder ==
  ASSUME Apart(conn, pc), NEW e \in Coros, Moves(e),
         NEW c \in Coros, NEW d \in Coros, e # c, e # d, conn.lock = d,
         NEW a \in Nat, NEW b \in Nat, Before(conn, c, a, d, b)
  PROVE  conn'.lock = d /\ Before(conn', c, a, d, b)
<1>1. conn \in Conn /\ d # Free
  BY FreeAssumption DEF Apart
<1>2. CASE Enter(e)
  BY <1>1, <1>2, BeforeSubmit, SubmitFields DEF Enter
<1>3. ASSUME NEW k \in Conn, k.lock = d, Before(k, c, a, d, b)
      PROVE  Lock(k, e).lock = d /\ Before(Lock(k, e), c, a, d, b)
  BY <1>1, <1>3, LockFields DEF Before
<1>4. CASE Ask(e)
  BY <1>1, <1>3, <1>4 DEF Ask
<1>5. IsNext(conn, e) => /\ Answered(conn) \in Conn
                         /\ Answered(conn).lock = d
                         /\ Before(Answered(conn), c, a, d, b)
  BY <1>1, AnsweredFields, BeforeAnswered DEF IsNext
<1>6. CASE GoOn(e)
  BY <1>5, <1>6, BeforeSubmit, SubmitFields DEF GoOn, Continue
<1>7. CASE Leave(e)
  BY <1>5, <1>7 DEF Leave
<1>8. CASE Upgrade(e)
  BY <1>3, <1>5, <1>8 DEF Upgrade
<1>9. CASE Release(e) \/ Again(e)
  BY <1>9, HolderNext DEF Release, Again
<1> QED BY <1>2, <1>4, <1>6, <1>7, <1>8, <1>9 DEF Moves

(* Who gets the lock has yet to begin, and is behind all that are waiting. *)
LEMMA NewHolderLast ==
  ASSUME Apart(conn, pc), NEW e \in Coros, Moves(e),
         conn'.lock # Free, conn'.lock # conn.lock \/ Again(e)
  PROVE  /\ conn'.lock \in Coros
         /\ pc'[conn'.lock] = "begin"
         /\ \A c \in Coros, a, b \in Nat :
              c # conn'.lock /\ a <= b => Before(conn', c, a, conn'.lock, b)
<1> DEFINE Goal == /\ conn'.lock \in Coros
                   /\ pc'[conn'.lock] = "begin"
                   /\ \A c \in Coros, a, b \in Nat :
                        c # conn'.lock /\ a <= b
                          => Before(conn', c, a, conn'.lock, b)
<1>1. conn \in Conn /\ pc \in [Coros -> PCs]
  BY DEF Apart
<1>2. Apart(conn', pc') /\ conn' \in Conn /\ pc' \in [Coros -> PCs]
  BY MovesApart DEF Apart
<1>3. ASSUME NEW t \in Seq(Coros), NEW h \in Coros, conn'.queue = Append(t, h),
             conn'.lock = h, pc'[h] = "begin"
      PROVE  Goal
  <2>1. \A i \in 1..Len(t) : t[i] # h
    <3> SUFFICES ASSUME NEW i \in 1..Len(t), t[i] = h
                 PROVE  FALSE
      OBVIOUS
    <3>1. /\ conn'.queue[i] = h /\ conn'.queue[Len(t) + 1] = h
          /\ Len(conn'.queue) = Len(t) + 1 /\ Len(t) \in Nat
      BY <1>3, AppendPlaces
    <3>2. i \in 1..Len(conn'.queue) /\ Len(t) + 1 \in 1..Len(conn'.queue)
      BY <3>1
    <3>3. i = Len(t) + 1
      BY <1>2, <3>1, <3>2 DEF Apart, OnePending, Distinct
    <3> QED BY <3>1, <3>3
  <2>2. \A c \in Coros, a, b \in Nat :
          c # h /\ a <= b => Before(conn', c, a, h, b)
    BY <1>2, <1>3, <2>1, LastInLine
  <2> QED BY <1>3, <2>2
<1>4. ASSUME NEW k \in Conn, conn' = Lock(k, e), pc'[e] = "begin",
             conn'.lock # k.lock
      PROVE  Goal
  <2>1. conn'.queue = Append(k.queue, e) /\ conn'.lock = e
    BY <1>4, LockFields
  <2>2. k.queue \in Seq(Coros)
    BY DEF Conn
  <2> QED BY <1>3, <1>4, <2>1, <2>2
<1>5. IsNext(conn, e) => /\ Answered(conn) \in Conn
                         /\ Answered(conn).lock = conn.lock
                         /\ Answered(conn).waiters = conn.waiters
                         /\ Answered(conn).queue = Tail(conn.queue)
                         /\ Tail(conn.queue) \in Seq(Coros)
  BY <1>1, AnsweredFields DEF IsNext, Conn
<1>6. CASE Enter(e)
  BY <1>1, <1>6, SubmitFields DEF Enter, Again
<1>7. CASE Ask(e)
  BY <1>1, <1>4, <1>7 DEF Ask, Again, Writes
<1>8. CASE GoOn(e)
  <2>1. conn'.lock = conn.lock
    BY <1>5, <1>8, SubmitFields DEF GoOn, Continue
  <2>2. ~Again(e)
    BY <1>1, <1>8 DEF GoOn, Again, Writes
  <2> QED BY <2>1, <2>2
<1>9. CASE Leave(e)
  BY <1>1, <1>5, <1>9 DEF Leave, Again
<1>10. CASE Upgrade(e)
  BY <1>1, <1>4, <1>5, <1>10 DEF Upgrade, Again, Writes
<1>11. ASSUME IsNext(conn, e), pc[e] \in Writes
       PROVE  /\ Unlock(Answered(conn)) \in Conn
              /\ IF conn.waiters = <<>>
                   THEN /\ Unlock(Answered(conn)).lock = Free
                        /\ Unlock(Answered(conn)).waiters = <<>>
                   ELSE \E h \in Coros :
                          /\ h # e /\ pc[h] = "begin"
                          /\ Unlock(Answered(conn)).queue
                               = Append(Tail(conn.queue), h)
                          /\ Unlock(Answered(conn)).lock = h
  <2>1. CASE conn.waiters = <<>>
    BY <1>5, <1>11, <2>1, UnlockFields
  <2>2. CASE conn.waiters # <<>>
    <3>1. conn.waiters \in Seq(Coros)
      BY <1>1 DEF Conn
    <3>2. /\ Head(conn.waiters) = conn.waiters[1] /\ 1 \in 1..Len(conn.waiters)
          /\ Head(conn.waiters) \in Coros
      BY <2>2, <3>1
    <3>3. e = conn.lock
      BY <1>11, HolderNext
    <3>4. Head(conn.waiters) # e /\ pc[Head(conn.waiters)] = "begin"
      BY <3>2, <3>3 DEF Apart, WaitersInLine
    <3>5. /\ Unlock(Answered(conn)) \in Conn
          /\ Unlock(Answered(conn)).queue
               = Append(Tail(conn.queue), Head(conn.waiters))
          /\ Unlock(Answered(conn)).lock = Head(conn.waiters)
      BY <1>5, <1>11, <2>2, UnlockFields
    <3> QED BY <2>2, <3>2, <3>4, <3>5
  <2> QED BY <2>1, <2>2
<1>12. CASE Release(e)
  <2>1. PICK h \in Coros : /\ h # e /\ pc[h] = "begin"
                           /\ conn'.queue = Append(Tail(conn.queue), h)
                           /\ conn'.lock = h
    BY <1>11, <1>12 DEF Release
  <2>2. pc'[h] = "begin"
    BY <1>1, <1>12, <2>1 DEF Release
  <2> QED BY <1>3, <1>5, <1>12, <2>1, <2>2 DEF Release
<1>13. CASE Again(e)
  <2> DEFINE k == Unlock(Answered(conn))
  <2>1. pc' = [pc EXCEPT ![e] = "begin"] /\ conn' = Lock(k, e)
    BY <1>13 DEF Again
  <2>2. CASE conn.waiters = <<>>
    <3>1. k \in Conn /\ k.lock = Free
      BY <1>11, <1>13, <2>2 DEF Again
    <3> HIDE DEF k
    <3>2. pc'[e] = "begin"
      BY <1>1, <2>1
    <3> QED BY <1>4, <2>1, <3>1, <3>2
  <2>3. CASE conn.waiters # <<>>
    <3>1. PICK h \in Coros : /\ h # e /\ pc[h] = "begin"
                             /\ k.queue = Append(Tail(conn.queue), h)
                             /\ k.lock = h
      BY <1>11, <1>13, <2>3 DEF Again
    <3>2. k \in Conn
      BY <1>11, <1>13 DEF Again
    <3> HIDE DEF k
    <3>3. conn'.queue = Append(Tail(conn.queue), h) /\ conn'.lock = h
      BY <2>1, <3>1, <3>2, LockFields, FreeAssumption
    <3>4. pc'[h] = "begin"
      BY <1>1, <2>1, <3>1
    <3> QED BY <1>3, <1>5, <1>13, <3>3, <3>4 DEF Again
  <2> QED BY <2>2, <2>3
<1> QED BY <1>6, <1>7, <1>8, <1>9, <1>10, <1>12, <1>13 DEF Moves

(* A reader that goes on has a round less to go.                           *)
LEMMA ReaderKeepsOrder ==
  ASSUME Apart(conn, pc), NEW c \in Coros, GoOn(c), pc[c] \in Reads,
         NEW d \in Coros, d = conn.lock,
         NEW a \in Nat \ {0}, NEW b \in Nat, Before(conn, c, a, d, b)
  PROVE  /\ conn'.lock = d
         /\ Before(conn', c, a - 1, d, b)
<1>1. /\ conn \in Conn /\ conn.queue \in Seq(Coros) /\ conn.queue # <<>>
      /\ Head(conn.queue) = c /\ conn' = Continue(conn, c) /\ IsNext(conn, c)
  BY DEF Apart, Conn, GoOn, IsNext
<1>2. conn'.lock = d
  <2>1. Answered(conn) \in Conn /\ Answered(conn).lock = d
    BY <1>1, AnsweredFields
  <2> QED BY <1>1, <2>1, SubmitFields DEF Continue
<1>3. a - 1 < b
  <2>1. pc[d] \in Writes /\ c # d
    BY FreeAssumption DEF Apart, OnePending, Writes
  <2>2. PICK j \in 1..Len(conn.queue) : conn.queue[j] = d
    BY DEF Apart, OnePending
  <2>3. conn.queue[1] = c /\ 1 \in 1..Len(conn.queue)
    BY <1>1, TailPlaces
  <2>4. a < b \/ a = b
    BY <2>2, <2>3 DEF Before
  <2> QED BY <2>4
<1> QED BY <1>2, <1>3 DEF Before

(* The holder's statement comes after those that are sure to precede it.   *)
LEMMA HolderComesAfter ==
  ASSUME Apart(conn, pc), NEW d \in Coros, IsNext(conn, d), pc[d] \in Writes,
         NEW c \in Coros, pc[c] \in Reads, NEW a, NEW b,
         Before(conn, c, a, d, b)
  PROVE  a < b
<1>1. conn.queue \in Seq(Coros) /\ conn.queue # <<>> /\ Head(conn.queue) = d
  BY DEF Apart, Conn, IsNext
<1>2. PICK i \in 1..Len(conn.queue) : conn.queue[i] = c
  BY DEF Apart, OnePending
<1>3. conn.queue[1] = d /\ 1 \in 1..Len(conn.queue) /\ ~(i < 1)
  BY <1>1, TailPlaces
<1> QED BY <1>2, <1>3 DEF Before

(* A reader is answered no later than the holder it comes before.          *)
LEMMA ReaderNotLate ==
  ASSUME Apart(conn, pc), NEW c \in Coros, pc[c] \in Reads,
         NEW d \in Coros, d = conn.lock, NEW a \in Nat, NEW b \in Nat,
         Before(conn, c, a, d, b)
  PROVE  a <= b
<1>1. PICK i \in 1..Len(conn.queue) : conn.queue[i] = c
  BY DEF Apart, OnePending
<1>2. PICK j \in 1..Len(conn.queue) : conn.queue[j] = d
  BY DEF Apart, OnePending
<1>3. a < b \/ a = b
  BY <1>1, <1>2 DEF Before
<1> QED BY <1>3

(* The holder that goes on joins the queue again, at its end.              *)
LEMMA HolderGoesLast ==
  ASSUME Apart(conn, pc), NEW d \in Coros, GoOn(d), pc[d] \in Writes
  PROVE  /\ conn'.lock = d /\ conn.lock = d
         /\ \A c \in Coros, a, b \in Nat :
              c # d /\ a <= b => Before(conn', c, a, d, b)
<1>1. /\ conn \in Conn /\ conn.queue # <<>> /\ conn' = Continue(conn, d)
      /\ IsNext(conn, d)
  BY DEF Apart, GoOn, IsNext
<1>2. /\ d = conn.lock /\ Tail(conn.queue) \in Seq(Coros)
      /\ \A i \in 1..Len(Tail(conn.queue)) : Tail(conn.queue)[i] # d
  BY <1>1, HolderNext
<1>3. /\ Answered(conn) \in Conn /\ Answered(conn).lock = d
      /\ Answered(conn).queue = Tail(conn.queue)
  BY <1>1, <1>2, AnsweredFields
<1>4. /\ conn' \in Conn /\ conn'.lock = d
      /\ conn'.queue = Append(Tail(conn.queue), d)
  <2>1. conn' = Submit(Answered(conn), d)
    BY <1>1 DEF Continue
  <2>2. /\ Submit(Answered(conn), d) \in Conn
        /\ Submit(Answered(conn), d).queue = Append(Answered(conn).queue, d)
        /\ Submit(Answered(conn), d).lock = Answered(conn).lock
    BY <1>3, SubmitFields
  <2> QED BY <1>3, <2>1, <2>2
<1>5. \A c \in Coros, a, b \in Nat : c # d /\ a <= b => Before(conn', c, a, d, b)
  BY <1>2, <1>4, LastInLine
<1> QED BY <1>2, <1>4, <1>5

(* The holder that goes on is answered after those it was behind, if it    *)
(* does not skip a round; those in the queue had fewer rounds to go.       *)
LEMMA HolderKeepsOrder ==
  ASSUME Apart(conn, pc), NEW d \in Coros, GoOn(d), pc[d] \in Writes,
         NEW c \in Coros, pc[c] \in Reads,
         NEW a \in Nat, NEW b \in Nat, Before(conn, c, a, d, b)
  PROVE  /\ conn'.lock = d /\ a < b
         /\ \A n \in Nat : n >= b - 1 => Before(conn', c, a, d, n)
<1>1. conn'.lock = d /\ c # d
  BY HolderGoesLast DEF Writes
<1>2. a < b
  <2>1. conn.queue \in Seq(Coros) /\ conn.queue # <<>> /\ Head(conn.queue) = d
    BY DEF Apart, Conn, GoOn, IsNext
  <2>2. PICK i \in 1..Len(conn.queue) : conn.queue[i] = c
    BY DEF Apart, OnePending
  <2>3. conn.queue[1] = d /\ 1 \in 1..Len(conn.queue) /\ ~(i < 1)
    BY <2>1, TailPlaces
  <2> QED BY <2>2, <2>3 DEF Before
<1>3. ASSUME NEW n \in Nat, n >= b - 1
      PROVE  Before(conn', c, a, d, n)
  <2>1. a <= n
    BY <1>2, <1>3
  <2> QED BY <1>1, <2>1, HolderGoesLast
<1> QED BY <1>1, <1>2, <1>3

LEMMA OnlyItsOwnCounter ==
  ASSUME Apart(conn, pc), NEW e \in Coros, Moves(e)
  PROVE  pc' \in [Coros -> PCs] /\ \A o \in Coros : o # e => pc'[o] = pc[o]
<1>1. pc' \in [Coros -> PCs] /\ pc \in [Coros -> PCs]
  BY MovesApart DEF Apart
<1> QED BY <1>1 DEF Moves, Enter, Ask, GoOn, Leave, Release, Upgrade, Again

(* The lock stays with its holder until that releases it; it is then free, *)
(* or held by one that has yet to begin.                                   *)
LEMMA LockFate ==
  ASSUME Apart(conn, pc), NEW e \in Coros, Moves(e)
  PROVE  \/ /\ conn'.lock = conn.lock
            /\ e # conn.lock \/ GoOn(e)
         \/ conn'.lock = Free /\ conn.lock \in {Free, e}
         \/ /\ conn'.lock \in Coros
            /\ pc'[conn'.lock] = "begin"
            /\ conn.lock \in {Free, e}
            /\ \A c \in Coros, a, b \in Nat :
                 c # conn'.lock /\ a <= b
                   => Before(conn', c, a, conn'.lock, b)
<1>1. conn \in Conn
  BY DEF Apart
<1>2. conn.lock \in {Free, e} \/ conn'.lock = conn.lock
  <2>1. ASSUME conn.lock \in Coros, conn.lock # e
        PROVE  conn'.lock = conn.lock
    <3>1. \A i, j \in 1..Len(conn.queue) :
            conn.queue[i] = conn.lock /\ conn.queue[j] = conn.lock => i = j
      BY DEF Apart, OnePending, Distinct
    <3>2. Before(conn, conn.lock, 0, conn.lock, 1)
      BY DEF Before
    <3> QED BY <2>1, <3>2, OthersKeepOrder
  <2> QED BY <1>1, <2>1 DEF Conn
<1>3. CASE conn'.lock # Free /\ (conn'.lock # conn.lock \/ Again(e))
  <2>1. conn.lock \in {Free, e}
    BY <1>2, <1>3, HolderNext DEF Again
  <2> QED BY <1>3, <2>1, NewHolderLast
<1>4. CASE conn'.lock = conn.lock /\ ~Again(e) /\ e = conn.lock
  <2>1. pc[e] \in Writes
    BY <1>4, FreeAssumption DEF Apart, OnePending
  <2>2. CASE Release(e)
    <3>1. Answered(conn) \in Conn /\ Answered(conn).waiters = conn.waiters
      BY <1>1, <2>2, AnsweredFields DEF Release, IsNext
    <3>2. CASE conn.waiters = <<>>
      BY <1>4, <2>2, <3>1, <3>2, UnlockFields DEF Release
    <3>3. CASE conn.waiters # <<>>
      <4>1. conn'.lock = Head(conn.waiters)
        BY <2>2, <3>1, <3>3, UnlockFields DEF Release
      <4>2. Head(conn.waiters) = conn.waiters[1] /\ 1 \in 1..Len(conn.waiters)
        BY <1>1, <3>3, TailPlaces DEF Conn
      <4> QED BY <1>4, <4>1, <4>2 DEF Apart, WaitersInLine
    <3> QED BY <3>2, <3>3
  <2> QED BY <1>4, <2>1, <2>2 DEF Moves, Enter, Ask, Leave, Upgrade, Reads, Writes
<1> QED BY <1>2, <1>3, <1>4

-----------------------------------------------------------------------------
(* Both services move so.                                                  *)
LEMMA WordMoves ==
  ASSUME Apart(conn, pc), NEW c \in Coros, W!Call(c) \/ W!Step(c)
  PROVE  Moves(c)
<1> USE DEF W!Goto, W!Resumed, W!IsNext, IsNext, Reads, Writes, PCs
<1>1. CASE W!Find(c)
  BY <1>1 DEF W!Find, W!Submit, Submit, Moves, Enter
<1>2. ASSUME NEW o, NEW ws, W!Change(c, o, ws)
      PROVE  Moves(c)
  BY <1>2 DEF W!Change, W!Lock, W!Submit, Lock, Submit, Moves, Ask
<1>3. ASSUME IsNext(conn, c), conn' = W!Continue(conn, c),
             \/ \E to \in {"fetch", "close"} :
                  pc[c] \in Reads /\ pc' = [pc EXCEPT ![c] = to]
             \/ \E to \in Writes \ {"begin"} :
                  pc[c] \in Writes /\ pc' = [pc EXCEPT ![c] = to]
      PROVE  Moves(c)
  <2>1. conn' = Continue(conn, c)
    BY <1>3 DEF W!Continue, W!Submit, W!Answered, Continue, Submit, Answered
  <2> QED BY <1>3, <2>1 DEF Moves, GoOn
<1>4. CASE W!Select(c) \/ W!FetchAll(c)
  BY <1>3, <1>4 DEF W!Select, W!FetchAll
<1>5. CASE W!Begin(c) \/ W!Write(c) \/ W!Written(c) \/ W!WriteFails(c)
  BY <1>3, <1>5 DEF W!Begin, W!Write, W!Written, W!WriteFails
<1>6. CASE W!Fill(c) \/ W!ReadFails(c)
  BY <1>6 DEF W!Fill, W!ReadFails, W!Return, W!Answered, Answered, Moves, Leave
<1>7. CASE W!BeginFails(c) \/ W!Rollback(c) \/ W!CommitFails(c) \/ W!Commit(c)
  <2>1. IsNext(conn, c) /\ pc[c] \in Writes /\ pc' = [pc EXCEPT ![c] = "idle"]
    BY <1>7 DEF W!BeginFails, W!Rollback, W!CommitFails, W!Commit, W!Return
  <2>2. conn' = W!Unlock(W!Answered(conn))
    BY <1>7 DEF W!BeginFails, W!Rollback, W!CommitFails, W!Commit
  <2>3. conn' = Unlock(Answered(conn))
    BY <2>2 DEF W!Unlock, W!Answered, W!Submit, Unlock, Answered, Submit
  <2> QED BY <2>1, <2>3 DEF Moves, Release
<1> QED BY <1>1, <1>2, <1>4, <1>5, <1>6, <1>7 DEF W!Call, W!Step

LEMMA ConfigMoves ==
  ASSUME Apart(conn, pc), NEW c \in Coros, C!Call(c) \/ C!Step(c)
  PROVE  Moves(c)
<1> USE DEF C!Goto, C!Resumed, C!IsNext, IsNext, Reads, Writes, PCs
<1>0. pc \in [Coros -> PCs]
  BY DEF Apart
<1>1. ASSUME NEW f, C!Miss(c, f)
      PROVE  Moves(c)
  BY <1>1 DEF C!Miss, C!Submit, Submit, Moves, Enter
<1>a. /\ \A k : C!Answered(k) = Answered(k)
      /\ \A k : C!Unlock(k) = Unlock(k)
      /\ \A k : C!Lock(k, c) = Lock(k, c)
  BY DEF C!Answered, C!Unlock, C!Lock, C!Submit, Answered, Unlock, Lock, Submit
<1>2. ASSUME NEW f, C!UpdateCached(c, f)
      PROVE  Moves(c)
  BY <1>a, <1>2 DEF C!UpdateCached, C!Upsert, Moves, Ask
<1>3. CASE C!Select(c) \/ C!FetchOne(c) \/ C!Begin(c) \/ C!Insert(c)
             \/ C!InsertFails(c)
  <2>1. conn' = C!Continue(conn, c) /\ IsNext(conn, c)
    BY <1>3 DEF C!Select, C!FetchOne, C!Begin, C!Insert, C!InsertFails
  <2>2. conn' = Continue(conn, c)
    BY <2>1 DEF C!Continue, C!Submit, C!Answered, Continue, Submit, Answered
  <2> QED BY <1>3, <2>1, <2>2 DEF C!Select, C!FetchOne, C!Begin, C!Insert,
                                 C!InsertFails, Moves, GoOn
<1>4. CASE C!ReadFails(c)
  BY <1>a, <1>4 DEF C!ReadFails, C!Return, Moves, Leave
<1>5. CASE C!BeginFails(c) \/ C!Rollback(c) \/ C!CommitFails(c)
  BY <1>a, <1>5 DEF C!BeginFails, C!Rollback, C!CommitFails, C!Return,
                    Moves, Release
<1>6. CASE C!Closed(c)
  <2>1. IsNext(conn, c) /\ pc[c] \in Reads
    BY <1>6 DEF C!Closed
  <2>2. \/ /\ pc' = [pc EXCEPT ![c] = "idle"] /\ conn' = Answered(conn)
        \/ /\ pc' = [pc EXCEPT ![c] = "begin"] /\ conn' = Lock(Answered(conn), c)
    BY <1>a, <1>6 DEF C!Closed, C!Got, C!Return, C!Upsert
  <2> QED BY <2>1, <2>2 DEF Moves, Leave, Upgrade
<1>7. CASE C!Commit(c)
  <2>1. IsNext(conn, c) /\ pc[c] \in Writes
    BY <1>7 DEF C!Commit
  <2>2. \/ /\ pc' = [pc EXCEPT ![c] = "idle"]
           /\ conn' = Unlock(Answered(conn))
        \/ /\ pc' = [pc EXCEPT ![c] = "begin"]
           /\ conn' = Lock(Unlock(Answered(conn)), c)
    BY <1>a, <1>7 DEF C!Commit, C!Got, C!Return, C!Upsert
  <2> QED BY <2>1, <2>2 DEF Moves, Release, Again
<1> QED BY <1>1, <1>2, <1>3, <1>4, <1>5, <1>6, <1>7 DEF C!Call, C!Step

-----------------------------------------------------------------------------
(* The settings.                                                           *)
LEMMA DefaultsInOrder == C!Defaults \in InOrder /\ Absent \notin InOrder
BY SettingsAssumption, AbsentAssumption DEF InOrder, C!Defaults, C!Config

LEMMA MergeInOrder ==
  ASSUME NEW x \in InOrder, NEW f \in C!Fields
  PROVE  C!Merge(x, f) \in InOrder
<1>1. CASE f \in C!ValidThresholds
  <2>1. PICK k \in 1..MaxThreshold, b \in 1..MaxThreshold :
          f = [set |-> "thresholds", kick |-> k, ban |-> b]
    BY <1>1 DEF C!ValidThresholds, C!Thresholds
  <2>2. k <= b
    BY <1>1, <2>1, SettingsAssumption DEF C!ValidThresholds
  <2>3. C!Merge(x, f) = [x EXCEPT !.kick = k, !.ban = b]
    BY <2>1 DEF C!Merge
  <2> QED BY <2>2, <2>3 DEF InOrder, C!Config
<1>2. CASE f \in C!LogChannels
  <2>1. PICK ch \in Channels : f = [set |-> "log", log |-> ch]
    BY <1>2 DEF C!LogChannels
  <2>2. C!Merge(x, f) = [x EXCEPT !.log = ch]
    BY <2>1 DEF C!Merge
  <2> QED BY <2>2 DEF InOrder, C!Config
<1> QED BY <1>1, <1>2 DEF C!Fields

(* What a step of c leaves of the rows written and of the readers' order.  *)
LEMMA RowsStay ==
  ASSUME CallersApart, Apart(conn, pc), RowsWritten,
         NEW c \in Coros, Moves(c), callers' = callers,
         \A o \in Coros \ {c} : cfg'[o] = cfg[o],
         making' \subseteq making \cup {c},
         c \in making' => c \in callers.settings /\ pc'[c] \in Writes
                            /\ cfg'[c] = C!Defaults,
         c \in callers.settings =>
           /\ pc'[c] \in Writes => cfg'[c] # Absent
           /\ pc'[c] = "commit" => row' = cfg'[c],
         conn.lock # c => row' = row /\ savedRow' = savedRow,
         row' # savedRow' /\ conn.lock = c =>
           conn'.lock = c /\ pc'[c] = "commit" /\ c \in callers.settings
  PROVE  RowsWritten'
<1>1. /\ pc' \in [Coros -> PCs] /\ \A o \in Coros : o # c => pc'[o] = pc[o]
      /\ callers.settings \subseteq Coros /\ Free \notin Coros
  BY OnlyItsOwnCounter, FreeAssumption DEF CallersApart
<1>2. /\ conn'.lock # conn.lock => /\ conn.lock \in {Free, c}
                                   /\ conn'.lock # Free => pc'[conn'.lock] = "begin"
  BY LockFate
<1>3. making' \subseteq callers.settings
  BY DEF RowsWritten
<1>4. \A o \in making' : pc'[o] \in Writes /\ cfg'[o] = C!Defaults
  BY <1>1, <1>3 DEF RowsWritten
<1>5. \A o \in callers.settings : pc'[o] \in Writes => cfg'[o] # Absent
  BY <1>1 DEF RowsWritten
<1>6. \A o \in callers.settings :
        o = conn'.lock /\ pc'[o] = "commit" => row' = cfg'[o]
  BY <1>1, <1>2 DEF RowsWritten
<1>7. row' # savedRow' => conn'.lock \in callers.settings
                            /\ pc'[conn'.lock] = "commit"
  BY <1>1, <1>2 DEF RowsWritten
<1> QED BY <1>3, <1>4, <1>5, <1>6, <1>7 DEF RowsWritten

LEMMA ReadersStayFirst ==
  ASSUME CallersApart, Apart(conn, pc), ReadersFirst,
         NEW c \in Coros, Moves(c), callers' = callers, gone' = gone,
         making' \ {c} = making \ {c},
         conn.lock # c => savedRow' = savedRow,
         c \in callers.settings =>
           /\ Enter(c) /\ ~gone /\ conn.lock \in callers.settings
                => conn.lock \in making /\ savedRow = Absent
           /\ GoOn(c) =>
                /\ making' = making /\ savedRow' = savedRow
                /\ pc[c] \in Reads => ReadRounds(c) = ReadRounds(c)' + 1
                /\ pc[c] \in Writes => UpsertRounds(c)' >= UpsertRounds(c) - 1
  PROVE  ReadersFirst'
<1> SUFFICES ASSUME ~gone, NEW h \in callers.settings, conn'.lock = h,
                    h \notin making' \/ savedRow' # Absent,
                    NEW o \in callers.settings, pc'[o] \in Reads
             PROVE  Before(conn', o, ReadRounds(o)', h, UpsertRounds(h)')
  BY DEF ReadersFirst, UpsertRounds
<1>1. /\ pc' \in [Coros -> PCs] /\ \A x \in Coros : x # c => pc'[x] = pc[x]
      /\ callers.settings \subseteq Coros /\ Free \notin Coros
      /\ pc \in [Coros -> PCs]
  BY OnlyItsOwnCounter, FreeAssumption DEF CallersApart, Apart
<1>2. \A x : /\ ReadRounds(x) \in Nat /\ ReadRounds(x)' \in Nat
             /\ UpsertRounds(x) \in Nat /\ UpsertRounds(x)' \in Nat
  BY DEF ReadRounds, UpsertRounds
<1>3. CASE conn'.lock # conn.lock \/ (c = conn.lock /\ ~GoOn(c))
  <2>1. /\ pc'[h] = "begin"
        /\ \A x \in Coros, a, b \in Nat :
             x # h /\ a <= b => Before(conn', x, a, h, b)
    BY <1>1, <1>3, LockFate
  <2>2. o # h /\ ReadRounds(o)' <= UpsertRounds(h)'
    BY <2>1 DEF Reads, ReadRounds, UpsertRounds
  <2> QED BY <1>1, <1>2, <2>1, <2>2
<1>4. CASE conn'.lock = conn.lock /\ c = conn.lock /\ GoOn(c)
  <2>1. pc[c] \in Writes /\ c = h
    BY <1>1, <1>4 DEF Apart, OnePending
  <2>2. o # c /\ pc[o] \in Reads /\ ReadRounds(o)' = ReadRounds(o)
    <3>1. pc'[c] \in Writes
      BY <1>1, <1>4, <2>1 DEF GoOn, Reads, Writes
    <3> QED BY <1>1, <3>1 DEF Writes, ReadRounds
  <2>3. Before(conn, o, ReadRounds(o), c, UpsertRounds(c))
    BY <1>4, <2>1, <2>2 DEF ReadersFirst
  <2>4. UpsertRounds(c)' >= UpsertRounds(c) - 1
    BY <1>4, <2>1
  <2> HIDE DEF ReadRounds, UpsertRounds
  <2> QED BY <1>1, <1>2, <1>4, <2>1, <2>2, <2>3, <2>4, HolderKeepsOrder
<1>5. CASE conn'.lock = conn.lock /\ c # conn.lock
  <2>1. /\ h = conn.lock /\ c # h /\ (h \notin making \/ savedRow # Absent)
        /\ UpsertRounds(h)' = UpsertRounds(h)
    BY <1>1, <1>5 DEF UpsertRounds
  <2>2. CASE o # c
    <3>1. pc[o] \in Reads /\ ReadRounds(o)' = ReadRounds(o)
      BY <1>1, <2>2 DEF ReadRounds
    <3>2. Before(conn, o, ReadRounds(o), h, UpsertRounds(h))
      BY <2>1, <3>1 DEF ReadersFirst
    <3> QED BY <1>1, <1>2, <2>1, <2>2, <3>1, <3>2, OthersKeepOrder
  <2>3. CASE o = c
    <3>1. GoOn(c) /\ pc[c] \in Reads
      <4>1. ~Enter(c)
        BY <2>1, <2>3
      <4>2. pc' # [pc EXCEPT ![c] = "idle"] /\ pc' # [pc EXCEPT ![c] = "begin"]
        BY <1>1, <2>3 DEF Reads
      <4>3. GoOn(c)
        BY <4>1, <4>2 DEF Moves, Ask, Leave, Release, Upgrade, Again
      <4> QED BY <1>1, <2>3, <4>3 DEF GoOn, Reads, Writes
    <3>2. Before(conn, c, ReadRounds(c), h, UpsertRounds(h))
      BY <2>1, <2>3, <3>1 DEF ReadersFirst
    <3>3. ReadRounds(c) \in Nat \ {0} /\ ReadRounds(c)' = ReadRounds(c) - 1
      BY <1>2, <2>3, <3>1
    <3> HIDE DEF ReadRounds, UpsertRounds
    <3> QED BY <1>1, <1>2, <2>1, <2>3, <3>1, <3>2, <3>3, ReaderKeepsOrder
  <2> QED BY <2>2, <2>3
<1> QED BY <1>3, <1>4, <1>5

(* get caches what it got: a reader ends, an update asks for the lock.     *)
LEMMA GotEffect ==
  ASSUME SettingsTyped, NEW c \in Coros, NEW x \in InOrder, NEW k,
         C!Got(c, x, k), pc \in [Coros -> PCs]
  PROVE  /\ cache' = x /\ pc'[c] \in {"idle", "begin"}
         /\ making' = making \ {c}
         /\ cfg' \in [Coros -> InOrder \cup {Absent}] /\ cfg'[c] # Absent
         /\ \A o \in Coros \ {c} : cfg'[o] = cfg[o]
         /\ fields' \in [Coros -> C!Fields \cup {C!NoFields}]
<1>1. cfg \in [Coros -> InOrder \cup {Absent}]
      /\ fields \in [Coros -> C!Fields \cup {C!NoFields}]
  BY DEF SettingsTyped
<1>2. C!Merge(x, fields[c]) \in InOrder \/ fields[c] = C!NoFields
  BY <1>1, MergeInOrder
<1>3. CASE fields[c] = C!NoFields
  BY <1>1, <1>3, DefaultsInOrder DEF C!Got, C!Return, C!Goto
<1>4. CASE fields[c] # C!NoFields
  BY <1>1, <1>2, <1>4, DefaultsInOrder DEF C!Got, C!Upsert, C!Goto
<1> QED BY <1>3, <1>4

LEMMA ConfigStepTyped ==
  ASSUME CallersApart, Apart(conn, pc), SettingsTyped, RowsWritten,
         NEW c \in callers.settings, C!Call(c) \/ C!Step(c)
  PROVE  SettingsTyped'
<1>1. /\ cfg \in [Coros -> InOrder \cup {Absent}] /\ c \in Coros
      /\ fields \in [Coros -> C!Fields \cup {C!NoFields}]
      /\ {row, savedRow, cache} \subseteq InOrder \cup {Absent}
      /\ gone \in BOOLEAN /\ pc \in [Coros -> PCs]
  BY DEF SettingsTyped, CallersApart, Apart
<1> USE DefaultsInOrder DEF SettingsTyped
<1>2. ASSUME NEW f \in C!Fields \cup {C!NoFields}, C!Miss(c, f)
      PROVE  SettingsTyped'
  BY <1>1, <1>2 DEF C!Miss
<1>3. ASSUME NEW f \in C!Fields, C!UpdateCached(c, f)
      PROVE  SettingsTyped'
  BY <1>1, <1>3, MergeInOrder DEF C!UpdateCached, C!Upsert
<1>4. CASE C!Select(c) \/ C!FetchOne(c)
  BY <1>1, <1>4 DEF C!Select, C!FetchOne, C!callVars
<1>5. CASE C!Closed(c)
  <2>1. CASE cfg[c] # Absent /\ C!Got(c, cfg[c], C!Answered(conn))
    <3>1. cfg[c] \in InOrder
      BY <1>1, <2>1
    <3> QED BY <1>1, <1>5, <2>1, <3>1, GotEffect DEF C!Closed
  <2>2. CASE C!Upsert(c, C!Defaults, C!Answered(conn)) /\ UNCHANGED <<cache, fields>>
    BY <1>1, <1>5, <2>2 DEF C!Closed, C!Upsert
  <2> QED BY <1>5, <2>1, <2>2 DEF C!Closed
<1>6. CASE C!ReadFails(c) \/ C!BeginFails(c)
  BY <1>1, <1>6 DEF C!ReadFails, C!BeginFails, C!Return
<1>7. CASE C!Begin(c) \/ C!InsertFails(c)
  BY <1>1, <1>7 DEF C!Begin, C!InsertFails, C!callVars
<1>8. CASE C!Insert(c)
  BY <1>1, <1>8 DEF C!Insert, C!callVars
<1>9. CASE C!Rollback(c) \/ C!CommitFails(c)
  BY <1>1, <1>9 DEF C!Rollback, C!CommitFails, C!Return
<1>10. CASE C!Commit(c)
  <2>1. cfg[c] \in InOrder
    BY <1>1, <1>10 DEF C!Commit, C!Resumed, RowsWritten, Writes, PCs, Reads
  <2>2. CASE C!Got(c, cfg[c], C!Unlock(C!Answered(conn)))
    BY <1>1, <1>10, <2>1, <2>2, GotEffect DEF C!Commit
  <2>3. CASE cache' = cfg[c] /\ C!Return(c, C!Unlock(C!Answered(conn)))
    BY <1>1, <1>10, <2>1, <2>3 DEF C!Commit, C!Return
  <2> QED BY <1>10, <2>2, <2>3 DEF C!Commit
<1> QED BY <1>2, <1>3, <1>4, <1>5, <1>6, <1>7, <1>8, <1>9, <1>10 DEF C!Call, C!Step

(* A settings coroutine in hand.                                           *)
LEMMA ConfigStepRows ==
  ASSUME CallersApart, Apart(conn, pc), SettingsTyped, RowsWritten,
         NEW c \in callers.settings, C!Call(c) \/ C!Step(c),
         callers' = callers
  PROVE  RowsWritten'
<1>1. /\ c \in Coros /\ Moves(c) /\ pc \in [Coros -> PCs]
      /\ cfg \in [Coros -> InOrder \cup {Absent}]
  BY ConfigMoves DEF CallersApart, Apart, SettingsTyped
<1>2. /\ pc' \in [Coros -> PCs]
      /\ conn.lock = c => pc[c] \in Writes
      /\ c \in making => pc[c] \in Writes /\ cfg[c] = C!Defaults
      /\ pc[c] \in Writes => cfg[c] # Absent
      /\ conn.lock = c /\ row # savedRow => pc[c] = "commit"
  BY <1>1, OnlyItsOwnCounter, FreeAssumption DEF Apart, OnePending, RowsWritten
<1>3. C!IsNext(conn, c) /\ pc[c] \in Writes => conn.lock = c
  BY <1>1, HolderNext DEF C!IsNext, IsNext
<1> DEFINE Goal ==
             /\ \A o \in Coros \ {c} : cfg'[o] = cfg[o]
             /\ making' \subseteq making \cup {c}
             /\ c \in making' => pc'[c] \in Writes /\ cfg'[c] = C!Defaults
             /\ pc'[c] \in Writes => cfg'[c] # Absent
             /\ pc'[c] = "commit" => row' = cfg'[c]
             /\ conn.lock # c => row' = row /\ savedRow' = savedRow
             /\ row' # savedRow' /\ conn.lock = c =>
                  conn'.lock = c /\ pc'[c] = "commit"
<1> SUFFICES Goal
  BY <1>1, RowsStay
<1> USE <1>1, <1>2, <1>3, DefaultsInOrder DEF Writes, Reads, C!Goto, C!Resumed
<1>5. ASSUME NEW f \in C!Fields \cup {C!NoFields}, C!Miss(c, f)
      PROVE  Goal
  BY <1>5 DEF C!Miss
<1>6. ASSUME NEW f \in C!Fields, C!UpdateCached(c, f)
      PROVE  Goal
  <2>1. C!Merge(cache, f) # Absent
    BY <1>6, MergeInOrder DEF C!UpdateCached, SettingsTyped
  <2> QED BY <1>6, <2>1 DEF C!UpdateCached, C!Upsert
<1>7. CASE C!Select(c) \/ C!FetchOne(c)
  BY <1>7 DEF C!Select, C!FetchOne, C!callVars
<1>8. CASE C!Closed(c)
  <2>1. CASE cfg[c] # Absent /\ C!Got(c, cfg[c], C!Answered(conn))
    <3>1. cfg[c] \in InOrder
      BY <2>1
    <3> QED BY <1>8, <2>1, <3>1, GotEffect DEF C!Closed
  <2>2. CASE cfg[c] = Absent
    BY <1>8, <2>2 DEF C!Closed, C!Upsert
  <2> QED BY <1>8, <2>1, <2>2 DEF C!Closed
<1>9. CASE C!ReadFails(c) \/ C!BeginFails(c)
  BY <1>9 DEF C!ReadFails, C!BeginFails, C!Return
<1>10. CASE C!Begin(c) \/ C!InsertFails(c)
  BY <1>10 DEF C!Begin, C!InsertFails, C!callVars
<1>11. CASE C!Insert(c)
  <2>1. conn'.lock = c
    <3>1. Answered(conn) \in Conn /\ Answered(conn).lock = conn.lock
      BY <1>11, AnsweredFields DEF C!Insert, C!IsNext, Apart
    <3>2. conn' = Submit(Answered(conn), c)
      BY <1>11 DEF C!Insert, C!Continue, C!Submit, C!Answered, Submit, Answered
    <3> QED BY <1>11, <3>1, <3>2, SubmitFields DEF C!Insert
  <2> QED BY <1>11, <2>1 DEF C!Insert, C!callVars
<1>12. CASE C!Rollback(c) \/ C!CommitFails(c)
  BY <1>12 DEF C!Rollback, C!CommitFails, C!Return
<1>13. CASE C!Commit(c)
  <2>1. cfg[c] \in InOrder
    BY <1>13 DEF C!Commit
  <2>2. CASE C!Got(c, cfg[c], C!Unlock(C!Answered(conn)))
    <3>1. c \notin making' /\ cfg'[c] # Absent /\ pc'[c] # "commit"
          /\ making' \subseteq making /\ \A o \in Coros \ {c} : cfg'[o] = cfg[o]
      BY <2>1, <2>2, GotEffect
    <3> QED BY <1>13, <3>1 DEF C!Commit
  <2>3. CASE C!Return(c, C!Unlock(C!Answered(conn)))
    BY <1>13, <2>3 DEF C!Commit, C!Return
  <2> QED BY <1>13, <2>2, <2>3 DEF C!Commit
<1> QED BY <1>5, <1>6, <1>7, <1>8, <1>9, <1>10, <1>11, <1>12, <1>13
       DEF C!Call, C!Step

(* What a reader has seen is stored, or the defaults about to be.          *)
LEMMA RowCurrent ==
  ASSUME CallersApart, Apart(conn, pc), RowsWritten, ReadersFirst, ~gone,
         NEW c \in callers.settings, pc[c] = "select"
  PROVE  row \in Current /\ (row = Absent => savedRow = Absent)
<1>1. CASE row = savedRow
  BY <1>1 DEF Current
<1>2. CASE row # savedRow
  <2>1. /\ conn.lock \in callers.settings /\ pc[conn.lock] = "commit"
        /\ row = cfg[conn.lock] /\ conn.lock \in Coros /\ c \in Coros
    BY <1>2 DEF RowsWritten, CallersApart
  <2>2. UpsertRounds(conn.lock) = 0 /\ ReadRounds(c) = 2
    BY <2>1 DEF UpsertRounds, ReadRounds
  <2>3. CASE conn.lock \in making /\ savedRow = Absent
    BY <2>1, <2>3, DefaultsInOrder DEF RowsWritten, Current
  <2>4. CASE conn.lock \notin making \/ savedRow # Absent
    <3>1. Before(conn, c, ReadRounds(c), conn.lock, UpsertRounds(conn.lock))
      BY <2>1, <2>4 DEF ReadersFirst, Reads
    <3> QED BY <2>1, <2>2, <3>1, ReaderNotLate DEF Reads
  <2> QED BY <2>3, <2>4
<1> QED BY <1>1, <1>2

LEMMA ConfigStepCurrent ==
  ASSUME CallersApart, Apart(conn, pc), SettingsInv,
         NEW c \in callers.settings, C!Call(c) \/ C!Step(c),
         callers' = callers
  PROVE  SettingsCurrent'
<1>1. /\ c \in Coros /\ Moves(c) /\ pc \in [Coros -> PCs]
      /\ cfg \in [Coros -> InOrder \cup {Absent}]
      /\ callers.settings \subseteq Coros
  BY ConfigMoves DEF CallersApart, Apart, SettingsInv, SettingsTyped
<1>2. \A o \in Coros : o # c => pc'[o] = pc[o]
  BY <1>1, OnlyItsOwnCounter
<1>3. \A o \in callers.settings : o \in making => pc[o] \in Writes
  BY DEF SettingsInv, RowsWritten
<1>4. cache = Absent \/ cache \in InOrder
  BY DEF SettingsInv, SettingsTyped
<1> SUFFICES ASSUME ~gone'
             PROVE  SettingsCurrent'
  BY DEF SettingsCurrent
<1> DEFINE Cached == cache' \in Current'
           Read(o) == pc'[o] \in {"fetch", "close"} =>
                        /\ cfg'[o] \in Current'
                        /\ cache' = Absent /\ cfg'[o] = Absent
                             => savedRow' = Absent
           Made(o) == cache' = Absent /\ pc'[o] \in Writes =>
                        o \in making' /\ savedRow' = Absent
<1>5. ASSUME Cached, \A o \in callers.settings : Read(o) /\ Made(o)
      PROVE  SettingsCurrent'
  BY <1>5 DEF SettingsCurrent
<1> HIDE DEF Cached, Read, Made
<1>6. ASSUME savedRow' = savedRow, cache' = cache, gone' = gone,
             making' \ {c} = making \ {c},
             \A o \in Coros \ {c} : cfg'[o] = cfg[o],
             Read(c), Made(c)
      PROVE  SettingsCurrent'
  <2>1. ~gone /\ SettingsCurrent /\ Current' = Current
    BY <1>6 DEF SettingsInv, Current
  <2>2. Cached
    BY <1>6, <2>1 DEF SettingsCurrent, Cached
  <2>3. \A o \in callers.settings : o # c => Read(o)
    BY <1>1, <1>2, <1>6, <2>1 DEF SettingsCurrent, Read
  <2>4. \A o \in callers.settings : o # c => Made(o)
    BY <1>1, <1>2, <1>6, <2>1 DEF SettingsCurrent, Made
  <2> QED BY <1>5, <1>6, <2>2, <2>3, <2>4
<1>7. ASSUME NEW f \in C!Fields \cup {C!NoFields}, C!Miss(c, f)
      PROVE  SettingsCurrent'
  <2>1. pc'[c] = "select"
    BY <1>1, <1>7 DEF C!Miss, C!Goto
  <2>2. Read(c) /\ Made(c)
    BY <2>1 DEF Read, Made, Writes, Reads
  <2> QED BY <1>6, <1>7, <2>2 DEF C!Miss
<1>8. ASSUME NEW f \in C!Fields, C!UpdateCached(c, f)
      PROVE  SettingsCurrent'
  <2>1. pc'[c] = "begin" /\ \A o \in Coros \ {c} : cfg'[o] = cfg[o]
    BY <1>1, <1>8 DEF C!UpdateCached, C!Upsert, C!Goto
  <2>2. Read(c) /\ Made(c)
    BY <1>8, <2>1 DEF Read, Made, C!UpdateCached
  <2> QED BY <1>6, <1>8, <2>1, <2>2 DEF C!UpdateCached
<1>9. CASE C!Select(c)
  <2>1. pc'[c] = "fetch" /\ cfg'[c] = row /\ pc[c] = "select"
        /\ savedRow' = savedRow /\ \A o \in Coros \ {c} : cfg'[o] = cfg[o]
    BY <1>1, <1>9 DEF C!Select, C!Goto, C!Resumed
  <2>2. row \in Current /\ (row = Absent => savedRow = Absent)
    BY <1>9, <2>1, RowCurrent DEF C!Select, SettingsInv
  <2>3. Read(c) /\ Made(c)
    BY <2>1, <2>2 DEF Read, Made, Writes, Reads, Current
  <2> QED BY <1>6, <1>9, <2>1, <2>3 DEF C!Select
<1>10. CASE C!FetchOne(c)
  <2>1. pc'[c] = "close" /\ cfg' = cfg /\ pc[c] = "fetch" /\ ~gone
        /\ savedRow' = savedRow /\ cache' = cache
    BY <1>1, <1>10 DEF C!FetchOne, C!callVars, C!Goto, C!Resumed
  <2>2. Read(c) /\ Made(c)
    BY <2>1 DEF Read, Made, Writes, Reads, Current, SettingsCurrent, SettingsInv
  <2> QED BY <1>6, <1>10, <2>1, <2>2 DEF C!FetchOne, C!callVars
<1>11. CASE C!Closed(c)
  <2>1. /\ pc[c] = "close" /\ ~gone /\ UNCHANGED <<row, savedRow, gone>>
        /\ c \notin making /\ cfg[c] \in Current /\ Current' = Current
        /\ cache = Absent /\ cfg[c] = Absent => savedRow = Absent
    BY <1>1, <1>3, <1>11 DEF C!Closed, C!Resumed, Current, SettingsInv,
                             SettingsCurrent, Writes, Reads
  <2>2. CASE cfg[c] # Absent /\ C!Got(c, cfg[c], C!Answered(conn))
    <3>1. cfg[c] \in InOrder
      BY <1>1, <2>2
    <3>2. /\ cache' = cfg[c] /\ pc'[c] \in {"idle", "begin"}
          /\ \A o \in Coros \ {c} : cfg'[o] = cfg[o]
      BY <1>1, <2>2, <3>1, GotEffect DEF SettingsInv
    <3>3. Cached
      BY <2>1, <3>2 DEF Cached
    <3>4. \A o \in callers.settings : Read(o)
      BY <1>1, <1>2, <2>1, <2>2, <3>2 DEF Read, SettingsInv, SettingsCurrent
    <3>5. \A o \in callers.settings : Made(o)
      BY <2>2, <3>2 DEF Made
    <3> QED BY <1>5, <3>3, <3>4, <3>5
  <2>3. CASE cfg[c] = Absent
    <3>1. /\ pc'[c] = "begin" /\ making' = making \cup {c} /\ cache' = cache
          /\ \A o \in Coros \ {c} : cfg'[o] = cfg[o]
      BY <1>1, <1>11, <2>3 DEF C!Closed, C!Upsert, C!Goto
    <3>2. Read(c) /\ Made(c)
      BY <2>1, <2>3, <3>1 DEF Read, Made
    <3> QED BY <1>6, <2>1, <3>1, <3>2
  <2> QED BY <1>11, <2>2, <2>3 DEF C!Closed
<1>12. ASSUME C!Return(c, conn'), savedRow' = savedRow, cache' = cache,
              gone' = gone
       PROVE  SettingsCurrent'
  <2>1. pc'[c] = "idle" /\ making' = making \ {c}
        /\ \A o \in Coros \ {c} : cfg'[o] = cfg[o]
    BY <1>1, <1>12 DEF C!Return, C!Goto
  <2>2. Read(c) /\ Made(c)
    BY <2>1 DEF Read, Made, Writes
  <2> QED BY <1>6, <1>12, <2>1, <2>2
<1>13. CASE C!ReadFails(c) \/ C!BeginFails(c)
  BY <1>12, <1>13 DEF C!ReadFails, C!BeginFails, C!Return
<1>14. CASE C!Rollback(c) \/ C!CommitFails(c)
  BY <1>12, <1>14 DEF C!Rollback, C!CommitFails, C!Return
<1>15. CASE C!Begin(c) \/ C!Insert(c) \/ C!InsertFails(c)
  <2>1. /\ pc[c] \in Writes /\ pc'[c] \notin {"fetch", "close"} /\ cfg' = cfg
        /\ making' = making /\ UNCHANGED <<savedRow, cache, gone>>
    BY <1>1, <1>15 DEF C!Begin, C!Insert, C!InsertFails, C!Resumed, C!Goto,
                       C!callVars, Writes, Reads, PCs
  <2>2. Read(c) /\ Made(c)
    BY <2>1 DEF Read, Made, SettingsInv, SettingsCurrent
  <2> QED BY <1>6, <2>1, <2>2
<1>16. CASE C!Commit(c)
  <2>1. /\ C!IsNext(conn, c) /\ pc[c] = "commit" /\ savedRow' = row /\ gone' = gone
        /\ ~gone
    BY <1>16 DEF C!Commit, C!Resumed
  <2>2. pc[c] \in Writes /\ IsNext(conn, c)
    BY <2>1 DEF Writes, Reads, PCs, C!IsNext, IsNext
  <2>3. conn.lock = c
    BY <1>1, <2>2, HolderNext
  <2>4. /\ row = cfg[c] /\ cfg[c] # Absent /\ cfg[c] \in InOrder
        /\ c \in making => cfg[c] = C!Defaults
    BY <1>1, <2>1, <2>2, <2>3 DEF SettingsInv, RowsWritten
  <2>5. ASSUME c \notin making \/ savedRow # Absent, NEW o \in callers.settings
        PROVE  pc[o] \notin Reads
    <3> SUFFICES ASSUME pc[o] \in Reads
                 PROVE  FALSE
      OBVIOUS
    <3>1. Before(conn, o, ReadRounds(o), c, UpsertRounds(c))
      BY <2>1, <2>3, <2>5 DEF SettingsInv, ReadersFirst
    <3>2. UpsertRounds(c) = 0 /\ ReadRounds(o) \in {0, 1, 2}
      BY <2>1 DEF UpsertRounds, ReadRounds
    <3> HIDE DEF UpsertRounds, ReadRounds
    <3>3. ReadRounds(o) < UpsertRounds(c)
      BY <1>1, <2>2, <3>1, HolderComesAfter
    <3> QED BY <3>2, <3>3
  <2>6. /\ cache' = cfg[c] /\ pc'[c] \in {"idle", "begin"}
        /\ \A o \in Coros \ {c} : cfg'[o] = cfg[o]
    <3>1. CASE C!Got(c, cfg[c], C!Unlock(C!Answered(conn)))
      BY <1>1, <2>4, <3>1, GotEffect DEF SettingsInv
    <3>2. CASE cache' = cfg[c] /\ C!Return(c, C!Unlock(C!Answered(conn)))
      BY <1>1, <3>2 DEF C!Return, C!Goto
    <3> QED BY <1>16, <3>1, <3>2 DEF C!Commit
  <2>7. Cached
    BY <2>1, <2>4, <2>6 DEF Cached, Current
  <2>8. ASSUME NEW o \in callers.settings, pc'[o] \in {"fetch", "close"}
        PROVE  cfg'[o] \in Current'
    <3>1. o # c /\ pc[o] \in {"fetch", "close"} /\ cfg'[o] = cfg[o]
      BY <1>1, <1>2, <2>6, <2>8
    <3>2. c \in making /\ savedRow = Absent
      BY <2>5, <3>1 DEF Reads
    <3>3. cfg[o] \in {Absent, C!Defaults}
      BY <2>1, <3>1, <3>2 DEF SettingsInv, SettingsCurrent, Current
    <3> QED BY <2>1, <2>4, <3>1, <3>2, <3>3 DEF Current
  <2>9. \A o \in callers.settings : Read(o) /\ Made(o)
    BY <2>4, <2>6, <2>8 DEF Read, Made
  <2> QED BY <1>5, <2>7, <2>9
<1> QED BY <1>7, <1>8, <1>9, <1>10, <1>11, <1>13, <1>14, <1>15, <1>16
       DEF C!Call, C!Step

LEMMA ConfigStepOrder ==
  ASSUME CallersApart, Apart(conn, pc), SettingsInv,
         NEW c \in callers.settings, C!Call(c) \/ C!Step(c),
         callers' = callers
  PROVE  ReadersFirst'
<1>1. /\ c \in Coros /\ Moves(c) /\ pc \in [Coros -> PCs]
      /\ cfg \in [Coros -> InOrder \cup {Absent}] /\ Free \notin Coros
  BY ConfigMoves, FreeAssumption DEF CallersApart, Apart, SettingsInv, SettingsTyped
<1>2. /\ Enter(c) => pc[c] = "idle" /\ pc'[c] = "select"
      /\ GoOn(c) => pc[c] # "idle" /\ pc'[c] \notin {"idle", "begin", "select"}
      /\ C!IsNext(conn, c) /\ pc[c] \in Writes => conn.lock = c
      /\ conn.lock # Free => pc[conn.lock] \in Writes
  BY <1>1, HolderNext DEF Enter, GoOn, Reads, Writes, PCs, C!IsNext, IsNext,
                         Apart, OnePending
<1> DEFINE Goal ==
             /\ gone' = gone
             /\ making' \ {c} = making \ {c}
             /\ conn.lock # c => savedRow' = savedRow
             /\ Enter(c) /\ ~gone /\ conn.lock \in callers.settings
                  => conn.lock \in making /\ savedRow = Absent
             /\ GoOn(c) =>
                  /\ making' = making /\ savedRow' = savedRow
                  /\ pc[c] \in Reads => ReadRounds(c) = ReadRounds(c)' + 1
                  /\ pc[c] \in Writes => UpsertRounds(c)' >= UpsertRounds(c) - 1
<1> SUFFICES Goal
  BY <1>1, ReadersStayFirst DEF SettingsInv
<1> HIDE DEF Enter, GoOn
<1>4. ASSUME NEW f \in C!Fields \cup {C!NoFields}, C!Miss(c, f)
      PROVE  Goal
  <2>1. /\ UNCHANGED <<savedRow, making, gone>> /\ pc'[c] = "select"
        /\ cache = Absent
    BY <1>1, <1>4 DEF C!Miss, C!Goto
  <2>2. ~gone /\ conn.lock \in callers.settings
          => conn.lock \in making /\ savedRow = Absent
    <3>1. conn.lock \in callers.settings => conn.lock \in Coros
      BY DEF CallersApart
    <3> QED BY <1>1, <1>2, <2>1, <3>1 DEF SettingsInv, SettingsCurrent
  <2> QED BY <1>2, <2>1, <2>2
<1>5. ASSUME NEW f \in C!Fields, C!UpdateCached(c, f)
      PROVE  Goal
  BY <1>1, <1>2, <1>5 DEF C!UpdateCached, C!Upsert, C!Goto
<1>6. CASE C!Select(c) \/ C!FetchOne(c) \/ C!Begin(c) \/ C!Insert(c)
             \/ C!InsertFails(c)
  <2>1. UNCHANGED <<savedRow, making, gone>> /\ ~Enter(c)
    BY <1>1, <1>2, <1>6 DEF C!Select, C!FetchOne, C!Begin, C!Insert,
                            C!InsertFails, C!callVars, C!Goto, C!Resumed
  <2>2. \/ pc[c] = "select" /\ pc'[c] = "fetch"
        \/ pc[c] = "fetch" /\ pc'[c] = "close"
        \/ pc[c] = "begin" /\ pc'[c] = "insert"
        \/ pc[c] = "insert" /\ pc'[c] = "commit"
        \/ pc[c] = "insert" /\ pc'[c] = "rollback"
    BY <1>1, <1>6 DEF C!Select, C!FetchOne, C!Begin, C!Insert,
                      C!InsertFails, C!Goto, C!Resumed
  <2>3. /\ pc[c] \in Reads => ReadRounds(c) = ReadRounds(c)' + 1
        /\ pc[c] \in Writes => UpsertRounds(c)' >= UpsertRounds(c) - 1
    BY <2>2 DEF ReadRounds, UpsertRounds, Reads, Writes
  <2> QED BY <2>1, <2>3
<1>7. CASE C!Closed(c)
  <2>1. /\ pc[c] = "close" /\ UNCHANGED <<savedRow, gone>>
    BY <1>7 DEF C!Closed, C!Resumed
  <2>2. pc'[c] \in {"idle", "begin"} /\ making' \ {c} = making \ {c}
    BY <1>1, <1>7 DEF C!Closed, C!Got, C!Return, C!Upsert, C!Goto
  <2> QED BY <1>2, <2>1, <2>2
<1>8. CASE C!ReadFails(c) \/ C!BeginFails(c) \/ C!Rollback(c) \/ C!CommitFails(c)
  BY <1>1, <1>2, <1>8 DEF C!ReadFails, C!BeginFails, C!Rollback, C!CommitFails,
                          C!Return, C!Goto, C!Resumed
<1>9. CASE C!Commit(c)
  <2>1. /\ pc[c] = "commit" /\ gone' = gone /\ C!IsNext(conn, c)
    BY <1>9 DEF C!Commit, C!Resumed
  <2>2. conn.lock = c
    BY <1>2, <2>1 DEF Writes, PCs, Reads
  <2>3. pc'[c] \in {"idle", "begin"} /\ making' \ {c} = making \ {c}
    BY <1>1, <1>9 DEF C!Commit, C!Got, C!Return, C!Upsert, C!Goto
  <2> QED BY <1>2, <2>1, <2>2, <2>3
<1> HIDE DEF Goal
<1> QED BY <1>4, <1>5, <1>6, <1>7, <1>8, <1>9 DEF C!Call, C!Step

LEMMA ConfigStepSettings ==
  ASSUME CallersApart, Apart(conn, pc), SettingsInv, ConfigStep
  PROVE  SettingsInv'
<1>1. PICK c \in callers.settings : C!Call(c) \/ C!Step(c)
  BY DEF ConfigStep
<1>2. callers' = callers
  BY DEF ConfigStep
<1>3. SettingsTyped' /\ RowsWritten'
  BY <1>1, <1>2, ConfigStepTyped, ConfigStepRows DEF SettingsInv
<1>4. SettingsCurrent' /\ ReadersFirst'
  BY <1>1, <1>2, ConfigStepCurrent, ConfigStepOrder
<1> QED BY <1>3, <1>4 DEF SettingsInv

(* A coroutine of the word list only moves at the connection.              *)
LEMMA WordStepSettings ==
  ASSUME CallersApart, Apart(conn, pc), SettingsInv, WordStep
  PROVE  SettingsInv'
<1>1. PICK c \in callers.words : W!Call(c) \/ W!Step(c)
  BY DEF WordStep
<1>2. /\ callers' = callers /\ UNCHANGED configVars
      /\ c \in Coros /\ c \notin callers.settings
      /\ callers.settings \subseteq Coros
  BY <1>1 DEF WordStep, CallersApart
<1>3. /\ row' = row /\ savedRow' = savedRow /\ cache' = cache /\ cfg' = cfg
      /\ fields' = fields /\ making' = making /\ gone' = gone
  BY <1>2 DEF configVars
<1>4. Moves(c)
  BY <1>1, <1>2, WordMoves
<1>5. \A o \in callers.settings : pc'[o] = pc[o]
  BY <1>2, <1>4, OnlyItsOwnCounter
<1>6. SettingsTyped'
  BY <1>3 DEF SettingsInv, SettingsTyped
<1>7. RowsWritten'
  <2>1. c \notin making
    BY <1>2 DEF SettingsInv, RowsWritten
  <2>2. row' # savedRow' => conn.lock # c
    BY <1>2, <1>3 DEF SettingsInv, RowsWritten
  <2> QED BY <1>2, <1>3, <1>4, <2>1, <2>2, RowsStay DEF SettingsInv
<1>8. SettingsCurrent'
  <2>1. Current' = Current
    BY <1>3 DEF Current
  <2> QED BY <1>2, <1>3, <1>5, <2>1 DEF SettingsInv, SettingsCurrent
<1>9. ReadersFirst'
  BY <1>2, <1>3, <1>4, ReadersStayFirst DEF SettingsInv
<1> QED BY <1>6, <1>7, <1>8, <1>9 DEF SettingsInv

-----------------------------------------------------------------------------
(* The word list.  What a step of c leaves of the change under way.        *)
LEMMA ChangeStays ==
  ASSUME CallersApart, Apart(conn, pc), ChangeSoFar, WordsStored,
         NEW c \in Coros, Moves(c), callers' = callers,
         \A o \in Coros \ {c} :
           op'[o] = op[o] /\ arg'[o] = arg[o] /\ left'[o] = left[o],
         failed => failed',
         conn.lock # c => words' = words /\ savedWords' = savedWords,
         c \in callers.words => SoFar(c)',
         words' # savedWords' /\ conn.lock = c =>
           /\ conn'.lock = c /\ c \in callers.words
           /\ pc'[c] \in {"write", "written", "commit", "rollback"}
  PROVE  ChangeSoFar' /\ WordsStored'
<1>1. /\ pc' \in [Coros -> PCs] /\ \A o \in Coros : o # c => pc'[o] = pc[o]
      /\ callers.words \subseteq Coros /\ Free \notin Coros
  BY OnlyItsOwnCounter, FreeAssumption DEF CallersApart
<1>2. conn'.lock # conn.lock => /\ conn.lock \in {Free, c}
                                /\ conn'.lock # Free => pc'[conn'.lock] = "begin"
  BY LockFate
<1>3. ASSUME NEW o \in callers.words, o # c
      PROVE  SoFar(o)'
  <2>1. /\ SoFar(o) /\ pc'[o] = pc[o] /\ op'[o] = op[o] /\ arg'[o] = arg[o]
        /\ left'[o] = left[o] /\ o \in Coros
    BY <1>1, <1>3 DEF ChangeSoFar
  <2>2. o = conn'.lock /\ pc[o] # "begin" =>
          /\ o = conn.lock
          /\ words' = words /\ savedWords' = savedWords
          /\ W!Result(o, savedWords)' = W!Result(o, savedWords)
    BY <1>1, <1>2, <1>3, <2>1 DEF W!Result
  <2> QED BY <2>1, <2>2 DEF SoFar
<1>4. ChangeSoFar'
  BY <1>3 DEF ChangeSoFar
<1>5. WordsStored'
  BY <1>1, <1>2 DEF WordsStored
<1> QED BY <1>4, <1>5

(* A step that does not change the list leaves what was read of it.        *)
LEMMA ListsStay ==
  ASSUME CallersApart, Apart(conn, pc), OldLists,
         NEW c \in Coros, Moves(c), callers' = callers, conn.lock # c,
         words' = words, failed' = failed,
         \A o \in Coros \ {c} : custom'[o] = custom[o] /\ left'[o] = left[o],
         filter' \in {NotCached, filter}
           \/ /\ c \in callers.words /\ pc[c] = "close"
              /\ filter' = custom[c],
         c \in callers.words /\ pc'[c] \in {"fetch", "close"}
             /\ custom'[c] # words =>
           /\ GoOn(c) /\ pc[c] = "fetch" /\ pc'[c] = "close"
           /\ custom[c] # words
  PROVE  OldLists'
<1> SUFFICES ASSUME ~failed
             PROVE  OldLists'
  BY DEF OldLists
<1>1. /\ \A o \in Coros : o # c => pc'[o] = pc[o]
      /\ callers.words \subseteq Coros
  BY OnlyItsOwnCounter DEF CallersApart
<1>2. ASSUME Changing
      PROVE  /\ conn'.lock = conn.lock /\ Changing' /\ conn.lock \in Coros
             /\ ChangeRounds(conn.lock)' = ChangeRounds(conn.lock)
  <2>1. conn.lock \in Coros /\ conn.lock # Free
    BY <1>1, <1>2, FreeAssumption DEF Changing
  <2>2. conn'.lock = conn.lock
    BY <2>1, LockFate
  <2> QED BY <1>1, <1>2, <2>1, <2>2 DEF Changing, ChangeRounds
<1>3. filter' \notin {NotCached, words'} => Changing'
  BY <1>1, <1>2 DEF OldLists
<1>4. ASSUME NEW o \in callers.words, pc'[o] \in {"fetch", "close"},
             custom'[o] # words
      PROVE  /\ Changing'
             /\ Before(conn', o, ReadRounds(o)', conn'.lock, ChangeRounds(conn.lock)')
  <2> DEFINE h == conn.lock
  <2>1. ReadRounds(o) \in Nat /\ ChangeRounds(h) \in Nat
    BY DEF ReadRounds, ChangeRounds
  <2>2. CASE o # c
    <3>1. /\ pc[o] = pc'[o] /\ custom[o] # words /\ o \in Coros
          /\ ReadRounds(o)' = ReadRounds(o)
      BY <1>1, <1>4, <2>2 DEF ReadRounds
    <3>2. Changing /\ Before(conn, o, ReadRounds(o), h, ChangeRounds(h))
      BY <1>4, <3>1 DEF OldLists
    <3> HIDE DEF ReadRounds, ChangeRounds
    <3>3. Before(conn', o, ReadRounds(o), h, ChangeRounds(h))
      BY <1>2, <2>1, <2>2, <3>1, <3>2, OthersKeepOrder
    <3> QED BY <1>2, <3>1, <3>2, <3>3
  <2>3. CASE o = c
    <3>1. /\ GoOn(c) /\ pc[c] = "fetch" /\ pc'[c] = "close" /\ custom[c] # words
      BY <1>4, <2>3
    <3>2. ReadRounds(c) = 1 /\ ReadRounds(c)' = 0
      BY <3>1 DEF ReadRounds
    <3>3. Changing /\ Before(conn, c, 1, h, ChangeRounds(h))
      BY <1>4, <2>3, <3>1, <3>2 DEF OldLists
    <3>4. Before(conn', c, 1 - 1, h, ChangeRounds(h))
      BY <1>2, <2>1, <3>1, <3>3, ReaderKeepsOrder DEF Reads
    <3>5. 1 - 1 = 0
      OBVIOUS
    <3> QED BY <1>2, <2>3, <3>2, <3>3, <3>4, <3>5
  <2> QED BY <2>2, <2>3
<1> QED BY <1>3, <1>4 DEF OldLists, ChangeRounds, Changing

(* So does one between changes.                                            *)
LEMMA NoOldLists ==
  ASSUME CallersApart, Apart(conn, pc), OldLists, ~Changing,
         NEW c \in Coros, Moves(c), callers' = callers,
         words' = words, failed' = failed, filter' \in {NotCached, filter},
         \A o \in Coros \ {c} : custom'[o] = custom[o],
         c \in callers.words => pc'[c] \notin {"fetch", "close"}
  PROVE  OldLists'
<1>1. /\ \A o \in Coros : o # c => pc'[o] = pc[o]
      /\ callers.words \subseteq Coros
  BY OnlyItsOwnCounter DEF CallersApart
<1> QED BY <1>1 DEF OldLists

LEMMA WordStepTyped ==
  ASSUME CallersApart, WordsTyped,
         NEW c \in callers.words, W!Call(c) \/ W!Step(c)
  PROVE  /\ WordsTyped' /\ (failed => failed')
         /\ \A o \in Coros \ {c} :
              /\ op'[o] = op[o] /\ arg'[o] = arg[o] /\ left'[o] = left[o]
              /\ custom'[o] = custom[o]
<1>1. /\ op \in [Coros -> W!Changes \cup {"find"}]
      /\ DOMAIN arg = Coros /\ DOMAIN left = Coros /\ DOMAIN custom = Coros
      /\ failed \in BOOLEAN /\ c \in Coros
  BY DEF WordsTyped, CallersApart
<1> DEFINE Kept == \A o \in Coros \ {c} :
                     /\ op'[o] = op[o] /\ arg'[o] = arg[o] /\ left'[o] = left[o]
                     /\ custom'[o] = custom[o]
<1>2. ASSUME op' \in [Coros -> W!Changes \cup {"find"}],
             DOMAIN arg' = Coros, DOMAIN left' = Coros, DOMAIN custom' = Coros,
             failed' \in BOOLEAN, Kept, failed => failed'
      PROVE  WordsTyped' /\ (failed => failed') /\ Kept
  BY <1>2 DEF WordsTyped
<1>3. CASE W!Find(c) \/ W!Begin(c) \/ W!Written(c) \/ W!WriteFails(c)
  BY <1>1, <1>2, <1>3 DEF W!Find, W!Begin, W!Written, W!WriteFails, W!callVars
<1>4. CASE W!Select(c) \/ W!FetchAll(c)
  BY <1>1, <1>2, <1>4 DEF W!Select, W!FetchAll
<1>5. ASSUME W!Return(c), failed' = failed \/ failed' = TRUE
      PROVE  WordsTyped' /\ (failed => failed') /\ Kept
  <2>1. /\ op' \in [Coros -> W!Changes \cup {"find"}] /\ Kept
        /\ DOMAIN arg' = Coros /\ DOMAIN left' = Coros /\ DOMAIN custom' = Coros
    BY <1>1, <1>5 DEF W!Return
  <2>2. failed \in BOOLEAN
    BY <1>1
  <2>3. CASE failed' = failed
    BY <1>2, <2>1, <2>2, <2>3
  <2>4. CASE failed' = TRUE
    BY <1>2, <2>1, <2>4
  <2> QED BY <1>5, <2>3, <2>4
<1>6. CASE W!Fill(c) \/ W!ReadFails(c) \/ W!BeginFails(c) \/ W!Rollback(c)
             \/ W!CommitFails(c) \/ W!Commit(c)
  BY <1>5, <1>6 DEF W!Fill, W!ReadFails, W!BeginFails, W!Rollback, W!CommitFails,
                    W!Commit
<1>7. ASSUME NEW o \in W!Changes, NEW ws, W!Change(c, o, ws)
      PROVE  WordsTyped' /\ (failed => failed') /\ Kept
  BY <1>1, <1>2, <1>7 DEF W!Change
<1>8. CASE W!Write(c)
  <2>1. /\ DOMAIN left' = Coros /\ \A o \in Coros \ {c} : left'[o] = left[o]
        /\ UNCHANGED <<op, arg, custom, failed>>
    BY <1>1, <1>8 DEF W!Write
  <2> QED BY <1>1, <1>2, <2>1
<1>9. {"add", "remove", "clear"} \subseteq W!Changes
  BY DEF W!Changes
<1> QED BY <1>3, <1>4, <1>6, <1>7, <1>8, <1>9 DEF W!Call, W!Step

LEMMA WordStepChange ==
  ASSUME CallersApart, Apart(conn, pc), WordsTyped, ChangeSoFar, WordsStored,
         NEW c \in callers.words, W!Call(c) \/ W!Step(c), callers' = callers
  PROVE  ChangeSoFar' /\ WordsStored'
<1>1. /\ c \in Coros /\ Moves(c) /\ pc \in [Coros -> PCs] /\ Free \notin Coros
      /\ DOMAIN arg = Coros /\ DOMAIN left = Coros
      /\ op \in [Coros -> W!Changes \cup {"find"}]
  BY WordMoves, FreeAssumption DEF CallersApart, Apart, WordsTyped
<1>2. /\ \A o \in Coros \ {c} :
           op'[o] = op[o] /\ arg'[o] = arg[o] /\ left'[o] = left[o]
      /\ failed => failed'
  BY WordStepTyped
<1>3. /\ SoFar(c)
      /\ conn.lock = c => pc[c] \in Writes
      /\ conn.lock = c /\ words # savedWords =>
           pc[c] \in {"write", "written", "commit", "rollback"}
      /\ W!IsNext(conn, c) /\ pc[c] \in Writes => conn.lock = c
  BY <1>1, HolderNext DEF ChangeSoFar, Apart, OnePending, WordsStored,
                         W!IsNext, IsNext
<1> DEFINE Goal ==
             /\ conn.lock # c => words' = words /\ savedWords' = savedWords
             /\ SoFar(c)'
             /\ words' # savedWords' /\ conn.lock = c =>
                  /\ conn'.lock = c
                  /\ pc'[c] \in {"write", "written", "commit", "rollback"}
<1> SUFFICES Goal
  BY <1>1, <1>2, ChangeStays
<1>4. ASSUME pc'[c] \in {"idle", "select", "fetch", "close"},
             \/ words' = words /\ savedWords' = savedWords
                  /\ (conn.lock = c => words = savedWords)
             \/ words' = savedWords' /\ conn.lock = c
      PROVE  Goal
  <2>1. SoFar(c)'
    BY <1>4 DEF SoFar, Writes, Reads
  <2> QED BY <1>4, <2>1
<1>5. CASE W!Find(c) \/ W!Select(c) \/ W!FetchAll(c)
  <2>1. pc'[c] \in {"select", "fetch"} \/ pc'[c] = "close"
    BY <1>1, <1>5 DEF W!Find, W!Select, W!FetchAll, W!Goto
  <2>2. words' = words /\ savedWords' = savedWords /\ pc[c] \notin Writes
    BY <1>5 DEF W!Find, W!Select, W!FetchAll, W!Resumed, Writes, Reads
  <2> QED BY <1>3, <1>4, <2>1, <2>2
<1>6. CASE W!Fill(c) \/ W!ReadFails(c) \/ W!BeginFails(c)
  <2>1. words' = words /\ savedWords' = savedWords /\ pc'[c] = "idle"
    BY <1>1, <1>6 DEF W!Fill, W!ReadFails, W!BeginFails, W!Return, W!Goto
  <2>2. pc[c] \notin Writes \/ pc[c] = "begin"
    BY <1>6 DEF W!Fill, W!ReadFails, W!BeginFails, W!Resumed, Writes, Reads
  <2> QED BY <1>3, <1>4, <2>1, <2>2
<1>7. CASE W!Rollback(c) \/ W!CommitFails(c) \/ W!Commit(c)
  <2>1. words' = savedWords' /\ pc'[c] = "idle"
    BY <1>1, <1>7 DEF W!Rollback, W!CommitFails, W!Commit, W!Return, W!Goto
  <2>2. W!IsNext(conn, c) /\ pc[c] \in Writes
    BY <1>7 DEF W!Rollback, W!CommitFails, W!Commit, W!Resumed, Writes, Reads, PCs
  <2> QED BY <1>3, <1>4, <2>1, <2>2
<1>8. ASSUME NEW o \in W!Changes, NEW ws, W!Change(c, o, ws),
             o = "clear" => ws = {}
      PROVE  Goal
  <2>1. /\ pc'[c] = "begin" /\ op'[c] = o /\ arg'[c] = ws /\ left'[c] = ws
        /\ words' = words /\ savedWords' = savedWords /\ pc[c] = "idle"
    BY <1>1, <1>8 DEF W!Change, W!Goto
  <2>2. SoFar(c)'
    BY <1>8, <2>1 DEF SoFar
  <2> QED BY <1>3, <2>1, <2>2 DEF Writes
<1>9. ASSUME GoOn(c), pc[c] \in Writes
      PROVE  conn'.lock = c /\ conn.lock = c
  BY <1>1, <1>9, HolderGoesLast
<1>10. ASSUME W!Begin(c) \/ W!Write(c) \/ W!Written(c) \/ W!WriteFails(c)
       PROVE  conn'.lock = c /\ conn.lock = c
  <2>1. pc[c] \in Writes /\ conn' = W!Continue(conn, c) /\ W!IsNext(conn, c)
    BY <1>10 DEF W!Begin, W!Write, W!Written, W!WriteFails, W!Resumed, Writes,
                 Reads, PCs
  <2>2. Answered(conn) \in Conn /\ Answered(conn).lock = conn.lock
    BY <2>1, AnsweredFields DEF Apart, W!IsNext
  <2>3. conn' = Submit(Answered(conn), c)
    BY <2>1 DEF W!Continue, W!Submit, W!Answered, Submit, Answered
  <2> QED BY <1>1, <1>3, <2>1, <2>2, <2>3, SubmitFields
<1>11. CASE W!Begin(c)
  <2>1. /\ pc[c] = "begin" /\ pc'[c] = "write"
        /\ UNCHANGED <<words, savedWords, op, arg, left, failed>>
    BY <1>1, <1>11 DEF W!Begin, W!Goto, W!Resumed, W!callVars
  <2>2. conn'.lock = c /\ conn.lock = c /\ words = savedWords
    BY <1>3, <1>10, <1>11, <2>1
  <2>3. /\ op[c] \in {"add", "remove", "clear"} /\ left[c] = arg[c]
        /\ op[c] = "clear" => left[c] = {}
    BY <1>3, <2>1 DEF SoFar, Writes, Reads, PCs, W!Changes
  <2>4. SoFar(c)'
    BY <2>1, <2>2, <2>3 DEF SoFar, W!Changes
  <2> QED BY <2>1, <2>2, <2>4
<1>12. CASE W!Write(c)
  <2>1. /\ pc[c] = "write" /\ pc'[c] = "written"
        /\ UNCHANGED <<savedWords, op, arg, failed>>
    BY <1>1, <1>12 DEF W!Write, W!Goto, W!Resumed
  <2>2. conn'.lock = c /\ conn.lock = c
    BY <1>10, <1>12
  <2>3. /\ op[c] \in {"add", "remove", "clear"}
        /\ op[c] = "clear" => left[c] = {}
        /\ op[c] = "add" => left[c] \subseteq arg[c]
                            /\ words = savedWords \cup (arg[c] \ left[c])
        /\ op[c] \in {"remove", "clear"} => words = savedWords
    BY <1>3, <2>1, <2>2 DEF SoFar, Writes, Reads, PCs, W!Changes
  <2>4. CASE op[c] = "add"
    <3>1. PICK w \in left[c] : words' = words \cup {w} /\ left'[c] = left[c] \ {w}
      BY <1>1, <1>12, <2>4 DEF W!Write
    <3>2. /\ left'[c] \subseteq arg[c]
          /\ words' = savedWords \cup (arg[c] \ left'[c])
      BY <2>3, <2>4, <3>1
    <3>3. SoFar(c)'
      BY <2>1, <2>2, <2>4, <3>2 DEF SoFar, W!Changes
    <3> QED BY <2>1, <2>2, <3>3
  <2>5. CASE op[c] = "remove"
    <3>1. left'[c] = {} /\ words' = savedWords \ arg[c]
      BY <1>1, <1>12, <2>3, <2>5 DEF W!Write
    <3>2. SoFar(c)'
      BY <2>1, <2>2, <2>5, <3>1 DEF SoFar, W!Changes, W!Result
    <3> QED BY <2>1, <2>2, <3>2
  <2>6. CASE op[c] = "clear"
    <3>1. left'[c] = {} /\ words' = {}
      BY <1>1, <1>12, <2>3, <2>6 DEF W!Write
    <3>2. SoFar(c)'
      BY <2>1, <2>2, <2>6, <3>1 DEF SoFar, W!Changes, W!Result
    <3> QED BY <2>1, <2>2, <3>2
  <2> QED BY <2>3, <2>4, <2>5, <2>6
<1>13. CASE W!Written(c)
  <2>1. /\ pc[c] = "written"
        /\ pc'[c] = IF left[c] = {} THEN "commit" ELSE "write"
        /\ UNCHANGED <<words, savedWords, op, arg, left, failed>>
    BY <1>1, <1>13 DEF W!Written, W!Goto, W!Resumed, W!callVars
  <2>2. conn'.lock = c /\ conn.lock = c
    BY <1>10, <1>13
  <2>3. /\ op[c] \in {"add", "remove", "clear"}
        /\ op[c] = "clear" => left[c] = {}
        /\ op[c] = "add" => left[c] \subseteq arg[c]
                            /\ words = savedWords \cup (arg[c] \ left[c])
        /\ op[c] \in {"remove", "clear"} =>
             left[c] = {} /\ words = W!Result(c, savedWords)
    BY <1>3, <2>1, <2>2 DEF SoFar, Writes, Reads, PCs, W!Changes
  <2>4. left[c] = {} => words = W!Result(c, savedWords)
    <3>1. op[c] = "add" /\ left[c] = {} => words = savedWords \cup arg[c]
      BY <2>3
    <3> QED BY <2>3, <3>1 DEF W!Result
  <2>5. W!Result(c, savedWords)' = W!Result(c, savedWords)
    BY <2>1 DEF W!Result
  <2>6. SoFar(c)'
    BY <2>1, <2>2, <2>3, <2>4, <2>5 DEF SoFar, W!Changes
  <2> QED BY <2>1, <2>2, <2>6
<1>14. CASE W!WriteFails(c)
  <2>1. /\ pc[c] \in Writes /\ pc'[c] = "rollback" /\ failed'
        /\ UNCHANGED <<words, savedWords, op, left>>
    BY <1>1, <1>14 DEF W!WriteFails, W!Goto, W!Resumed, W!callVars, Writes,
                       Reads, PCs
  <2>2. conn'.lock = c /\ conn.lock = c
    BY <1>10, <1>14
  <2>3. SoFar(c)'
    BY <1>3, <2>1 DEF SoFar
  <2> QED BY <2>1, <2>2, <2>3
<1>15. {"add", "remove", "clear"} \subseteq W!Changes
  BY DEF W!Changes
<1> HIDE DEF Goal
<1> QED BY <1>5, <1>6, <1>7, <1>8, <1>11, <1>12, <1>13, <1>14, <1>15
       DEF W!Call, W!Step

LEMMA WordStepLists ==
  ASSUME CallersApart, Apart(conn, pc), WordInv,
         NEW c \in callers.words, W!Call(c) \/ W!Step(c), callers' = callers
  PROVE  OldLists'
<1>1. /\ c \in Coros /\ Moves(c) /\ pc \in [Coros -> PCs] /\ Free \notin Coros
      /\ DOMAIN left = Coros /\ DOMAIN custom = Coros
      /\ callers.words \subseteq Coros
  BY WordMoves, FreeAssumption DEF CallersApart, Apart, WordInv, WordsTyped
<1>2. /\ \A o \in Coros \ {c} : left'[o] = left[o] /\ custom'[o] = custom[o]
      /\ \A o \in Coros : o # c => pc'[o] = pc[o]
  BY <1>1, WordStepTyped, OnlyItsOwnCounter DEF WordInv
<1>3. /\ OldLists
      /\ conn.lock = c => pc[c] \in Writes
      /\ W!IsNext(conn, c) /\ pc[c] \in Writes => conn.lock = c
  BY <1>1, HolderNext DEF WordInv, Apart, OnePending, W!IsNext, IsNext
<1>4. ASSUME conn.lock # c, words' = words, failed' = failed,
             filter' = filter, pc'[c] \notin {"fetch", "close"}
      PROVE  OldLists'
  BY <1>1, <1>2, <1>3, <1>4, ListsStay
<1>5. CASE W!Find(c)
  <2>1. pc[c] = "idle" /\ pc'[c] = "select"
    BY <1>1, <1>5 DEF W!Find, W!Goto
  <2> QED BY <1>3, <1>4, <1>5, <2>1 DEF W!Find, Writes
<1>6. ASSUME NEW o, NEW ws, W!Change(c, o, ws)
      PROVE  OldLists'
  <2>1. pc[c] = "idle" /\ pc'[c] = "begin"
    BY <1>1, <1>6 DEF W!Change, W!Goto
  <2> QED BY <1>3, <1>4, <1>6, <2>1 DEF W!Change, Writes
<1>7. CASE W!Select(c)
  <2>1. /\ pc[c] = "select" /\ pc'[c] = "fetch" /\ custom'[c] = words
        /\ UNCHANGED <<words, filter, failed>>
    BY <1>1, <1>7 DEF W!Select, W!Resumed, W!Goto
  <2>2. conn.lock # c
    BY <1>3, <2>1 DEF Writes, Reads
  <2> QED BY <1>1, <1>2, <1>3, <2>1, <2>2, ListsStay
<1>8. CASE W!FetchAll(c)
  <2>1. /\ pc[c] = "fetch" /\ pc'[c] = "close" /\ W!IsNext(conn, c)
        /\ UNCHANGED <<words, filter, failed>>
    BY <1>1, <1>8 DEF W!FetchAll, W!Resumed, W!Goto
  <2>2. custom[c] = words => custom'[c] = words
    <3>1. PICK rows \in SUBSET (custom[c] \cup words) :
            /\ custom[c] \cap words \subseteq rows
            /\ custom' = [custom EXCEPT ![c] = rows]
      BY <1>8 DEF W!FetchAll
    <3>2. custom[c] = words => rows = words
      BY <3>1
    <3> QED BY <1>1, <3>1, <3>2
  <2>3. conn.lock # c /\ GoOn(c)
    <3>1. pc[c] \in Reads /\ pc'[c] \notin {"idle", "begin", "select"}
      BY <2>1 DEF Reads
    <3>2. GoOn(c)
      BY <1>1, <3>1 DEF Moves, Enter, Ask, Leave, Release, Upgrade, Again
    <3> QED BY <1>3, <3>1, <3>2 DEF Writes
  <2> QED BY <1>1, <1>2, <1>3, <2>1, <2>2, <2>3, ListsStay
<1>9. CASE W!Fill(c)
  <2>1. /\ pc[c] = "close" /\ pc'[c] = "idle" /\ filter' = custom[c]
        /\ UNCHANGED <<words, failed>>
    BY <1>1, <1>9 DEF W!Fill, W!Resumed, W!Return, W!Goto
  <2>2. conn.lock # c
    BY <1>3, <2>1 DEF Writes, Reads
  <2> QED BY <1>1, <1>2, <1>3, <2>1, <2>2, ListsStay
<1>10. CASE W!ReadFails(c)
  <2>1. /\ pc[c] \in Reads /\ pc'[c] = "idle"
        /\ UNCHANGED <<words, filter, failed>>
    BY <1>1, <1>10 DEF W!ReadFails, W!Resumed, W!Return, W!Goto, Reads
  <2> QED BY <1>3, <1>4, <2>1 DEF Writes
<1>11. CASE W!Begin(c) \/ W!BeginFails(c)
  <2>1. /\ pc[c] = "begin" /\ pc'[c] \notin {"fetch", "close"}
        /\ UNCHANGED <<words, filter, failed>> /\ W!IsNext(conn, c)
    BY <1>1, <1>11 DEF W!Begin, W!BeginFails, W!Resumed, W!Return, W!Goto
  <2>2. ~Changing
    BY <1>3, <2>1 DEF Changing, Writes, Reads, PCs
  <2> QED BY <1>1, <1>2, <1>3, <2>1, <2>2, NoOldLists
<1>12. ASSUME W!IsNext(conn, c), pc[c] \in {"write", "written"},
              pc'[c] \in {"write", "written", "commit"}
       PROVE  /\ GoOn(c) /\ pc[c] \in Writes /\ Changing'
              /\ conn'.lock = c /\ conn.lock = c
              /\ \A o \in Coros, a, b \in Nat :
                   o # c /\ a <= b => Before(conn', o, a, c, b)
  <2>1. pc[c] \in Writes /\ pc[c] # "idle" /\ pc'[c] \notin {"idle", "begin"}
    BY <1>12 DEF Writes, Reads, PCs
  <2>2. GoOn(c)
    BY <1>1, <2>1 DEF Moves, Enter, Ask, Leave, Release, Upgrade, Again, Writes
  <2>3. /\ conn'.lock = c /\ conn.lock = c
        /\ \A o \in Coros, a, b \in Nat :
             o # c /\ a <= b => Before(conn', o, a, c, b)
    BY <1>1, <2>1, <2>2, HolderGoesLast
  <2> QED BY <1>12, <2>1, <2>2, <2>3 DEF Changing
<1>13. CASE W!Write(c)
  <2>1. /\ pc[c] = "write" /\ pc'[c] = "written" /\ W!IsNext(conn, c)
    BY <1>1, <1>13 DEF W!Write, W!Resumed, W!Goto
  <2>2. ASSUME NEW o \in callers.words, pc'[o] \in {"fetch", "close"}
        PROVE  Before(conn', o, ReadRounds(o)', conn'.lock, ChangeRounds(conn.lock)')
    <3>1. /\ ReadRounds(o)' \in Nat /\ ChangeRounds(c)' \in Nat
          /\ ReadRounds(o)' <= ChangeRounds(c)'
      BY <2>1, <2>2 DEF ReadRounds, ChangeRounds
    <3>2. o # c /\ o \in Coros
      BY <1>1, <2>1, <2>2
    <3>3. conn'.lock = c
      BY <1>12, <2>1
    <3>4. ChangeRounds(conn.lock)' = ChangeRounds(c)'
      BY <3>3 DEF ChangeRounds
    <3> HIDE DEF ReadRounds, ChangeRounds
    <3> QED BY <1>12, <2>1, <3>1, <3>2, <3>3, <3>4
  <2>3. Changing'
    BY <1>12, <2>1
  <2> QED BY <2>2, <2>3 DEF OldLists
<1>14. CASE W!Written(c)
  <2>1. /\ pc[c] = "written" /\ pc'[c] = IF left[c] = {} THEN "commit" ELSE "write"
        /\ W!IsNext(conn, c) /\ UNCHANGED <<words, filter, failed, custom, left>>
    BY <1>1, <1>14 DEF W!Written, W!Resumed, W!Goto, W!callVars
  <2>2. ASSUME ~failed, NEW o \in callers.words, pc'[o] \in {"fetch", "close"},
               custom[o] # words
        PROVE  Before(conn', o, ReadRounds(o)', conn'.lock, ChangeRounds(conn.lock)')
    <3>1. /\ ReadRounds(o) \in Nat /\ ChangeRounds(c) \in Nat
          /\ ChangeRounds(c)' \in Nat /\ ChangeRounds(c)' >= ChangeRounds(c) - 1
      BY <2>1 DEF ReadRounds, ChangeRounds
    <3>2. o # c /\ o \in Coros
      BY <1>1, <2>1, <2>2
    <3>3. pc[o] = pc'[o] /\ ReadRounds(o)' = ReadRounds(o) /\ pc[o] \in Reads
      BY <1>2, <2>2, <3>2 DEF ReadRounds, Reads
    <3>4. conn'.lock = c /\ conn.lock = c /\ GoOn(c) /\ pc[c] \in Writes
      BY <1>12, <2>1
    <3>5. ChangeRounds(conn.lock)' = ChangeRounds(c)'
      BY <3>4 DEF ChangeRounds
    <3>6. Before(conn, o, ReadRounds(o), c, ChangeRounds(c))
      BY <1>3, <2>2, <3>3, <3>4 DEF OldLists
    <3> HIDE DEF ReadRounds, ChangeRounds
    <3> QED BY <1>1, <3>1, <3>2, <3>3, <3>4, <3>5, <3>6, HolderKeepsOrder
  <2>3. Changing'
    BY <1>12, <2>1
  <2> QED BY <2>1, <2>2, <2>3 DEF OldLists
<1>15. CASE W!WriteFails(c) \/ W!CommitFails(c)
  BY <1>15 DEF W!WriteFails, W!CommitFails, OldLists
<1>16. CASE W!Rollback(c)
  <2>1. failed
    BY <1>16 DEF W!Rollback, W!Resumed, WordInv, ChangeSoFar, SoFar
  <2> QED BY <1>16, <2>1 DEF W!Rollback, OldLists
<1>17. CASE W!Commit(c)
  <2>1. /\ pc[c] = "commit" /\ pc'[c] = "idle" /\ W!IsNext(conn, c)
        /\ filter' = NotCached /\ words' = words /\ failed' = failed
    BY <1>1, <1>17 DEF W!Commit, W!Resumed, W!Return, W!Goto
  <2>2. pc[c] \in Writes /\ IsNext(conn, c) /\ conn.lock = c
    BY <1>3, <2>1 DEF Writes, Reads, PCs, W!IsNext, IsNext
  <2>3. ASSUME ~failed, NEW o \in callers.words, pc'[o] \in {"fetch", "close"},
               custom'[o] # words
        PROVE  FALSE
    <3>1. /\ o # c /\ o \in Coros /\ pc[o] = pc'[o] /\ custom[o] # words
          /\ pc[o] \in Reads
      BY <1>1, <1>2, <2>1, <2>3 DEF Reads
    <3>2. Before(conn, o, ReadRounds(o), c, ChangeRounds(c))
      BY <1>3, <2>2, <2>3, <3>1 DEF OldLists
    <3>3. ReadRounds(o) \in {0, 1, 2} /\ ChangeRounds(c) = 0
      BY <2>1 DEF ReadRounds, ChangeRounds
    <3>4. ReadRounds(o) < ChangeRounds(c)
      BY <1>1, <2>2, <3>1, <3>2, HolderComesAfter
    <3> HIDE DEF ReadRounds, ChangeRounds
    <3> QED BY <3>3, <3>4
  <2> QED BY <2>1, <2>3 DEF OldLists
<1> QED BY <1>5, <1>6, <1>7, <1>8, <1>9, <1>10, <1>11, <1>13, <1>14, <1>15,
           <1>16, <1>17 DEF W!Call, W!Step

LEMMA WordStepWords ==
  ASSUME CallersApart, Apart(conn, pc), WordInv, WordStep
  PROVE  WordInv'
<1>1. PICK c \in callers.words : W!Call(c) \/ W!Step(c)
  BY DEF WordStep
<1>2. callers' = callers
  BY DEF WordStep
<1>3. WordsTyped'
  BY <1>1, WordStepTyped DEF WordInv
<1>4. ChangeSoFar' /\ WordsStored'
  BY <1>1, <1>2, WordStepChange DEF WordInv
<1>5. OldLists'
  BY <1>1, <1>2, WordStepLists
<1> QED BY <1>3, <1>4, <1>5 DEF WordInv

(* A coroutine of the settings only moves at the connection.               *)
LEMMA ConfigStepWords ==
  ASSUME CallersApart, Apart(conn, pc), WordInv, ConfigStep
  PROVE  WordInv'
<1>1. PICK c \in callers.settings : C!Call(c) \/ C!Step(c)
  BY DEF ConfigStep
<1>2. /\ callers' = callers /\ UNCHANGED wordVars
      /\ c \in Coros /\ c \notin callers.words
  BY <1>1 DEF ConfigStep, CallersApart
<1>3. /\ words' = words /\ savedWords' = savedWords /\ filter' = filter
      /\ op' = op /\ arg' = arg /\ left' = left /\ custom' = custom
      /\ failed' = failed
  BY <1>2 DEF wordVars
<1>4. Moves(c)
  BY <1>1, <1>2, ConfigMoves
<1>5. WordsTyped'
  BY <1>3 DEF WordInv, WordsTyped
<1>6. ChangeSoFar' /\ WordsStored'
  <2>1. conn.lock = c => words = savedWords
    BY <1>2 DEF WordInv, WordsStored
  <2> QED BY <1>2, <1>3, <1>4, <2>1, ChangeStays DEF WordInv
<1>7. CASE conn.lock # c
  <2>1. OldLists'
    BY <1>2, <1>3, <1>4, <1>7, ListsStay DEF WordInv
  <2> QED BY <1>5, <1>6, <2>1 DEF WordInv
<1>8. CASE conn.lock = c
  <2>1. ~Changing
    BY <1>2, <1>8 DEF Changing
  <2>2. OldLists'
    BY <1>2, <1>3, <1>4, <2>1, NoOldLists DEF WordInv
  <2> QED BY <1>5, <1>6, <2>2 DEF WordInv
<1> QED BY <1>7, <1>8

-----------------------------------------------------------------------------
(* How far a change has come is told by the connection and its words.      *)
LEMMA SoFarKept ==
  ASSUME NEW c, UNCHANGED <<conn, words, savedWords, pc, op, arg, left, failed>>
  PROVE  SoFar(c)' <=> SoFar(c)
BY DEF SoFar, W!Result

(* The invariant.                                                          *)
LEMMA InitInv == Init => IInv
<1> SUFFICES ASSUME Init
             PROVE  IInv
  OBVIOUS
<1>1. /\ conn = Idle /\ pc = [c \in Coros |-> "idle"] /\ conn.lock = Free
      /\ Free \notin Coros /\ "idle" \notin Reads /\ "idle" \notin Writes
  BY FreeAssumption DEF Init, W!Init, W!Idle, Idle, Reads, Writes
<1>2. CallersApart
  BY DEF Init, CallersApart
<1>3. Apart(conn, pc)
  <2>1. /\ conn \in Conn /\ conn.queue = <<>> /\ conn.waiters = <<>>
        /\ pc \in [Coros -> PCs]
    BY <1>1 DEF Conn, Idle, PCs
  <2> QED BY <1>1, <2>1 DEF Apart, OnePending, WaitersInLine, Distinct
<1>4. WordInv
  <2>1. WordsTyped
    BY DEF Init, W!Init, WordsTyped
  <2>2. ChangeSoFar
    BY <1>1, <1>2 DEF ChangeSoFar, SoFar, CallersApart
  <2>3. words = savedWords /\ filter = NotCached
    BY DEF Init, W!Init
  <2>4. WordsStored /\ OldLists
    BY <1>1, <1>2, <2>3 DEF WordsStored, OldLists, CallersApart
  <2> QED BY <2>1, <2>2, <2>4 DEF WordInv
<1>5. SettingsInv
  <2>1. /\ row \in InOrder \cup {Absent} /\ savedRow = row /\ cache = Absent
        /\ fields = [c \in Coros |-> C!NoFields]
        /\ cfg = [c \in Coros |-> C!Defaults] /\ making = {} /\ gone = FALSE
    BY DEF Init, C!Init, InOrder
  <2>2. SettingsTyped
    BY <2>1, DefaultsInOrder DEF SettingsTyped
  <2>3. RowsWritten
    BY <1>1, <1>2, <2>1 DEF RowsWritten, CallersApart
  <2>4. SettingsCurrent
    BY <1>1, <1>2, <2>1 DEF SettingsCurrent, CallersApart, Current
  <2>5. ReadersFirst
    BY <1>1, <1>2 DEF ReadersFirst, CallersApart
  <2> QED BY <2>2, <2>3, <2>4, <2>5 DEF SettingsInv
<1> QED BY <1>2, <1>3, <1>4, <1>5 DEF IInv

LEMMA ReloadInv == IInv /\ ReloadDefaults => IInv'
<1> SUFFICES ASSUME IInv, ReloadDefaults
             PROVE  IInv'
  OBVIOUS
<1>1. /\ filter' = NotCached
      /\ UNCHANGED <<conn, words, savedWords, pc, op, arg, left, custom, failed>>
      /\ UNCHANGED <<row, savedRow, cache, fields, cfg, making, gone, callers>>
  BY DEF ReloadDefaults, W!Invalidate, W!callVars, configVars
<1>2. CallersApart' /\ Apart(conn, pc)'
  BY <1>1 DEF IInv, CallersApart, Apart, OnePending, WaitersInLine
<1>3. SettingsInv'
  BY <1>1 DEF IInv, SettingsInv, SettingsTyped, RowsWritten, SettingsCurrent,
              ReadersFirst, Current, ReadRounds, UpsertRounds
<1>4. WordsTyped' /\ ChangeSoFar' /\ WordsStored'
  <2>1. WordsTyped'
    BY <1>1 DEF IInv, WordInv, WordsTyped
  <2>2. ChangeSoFar'
    BY <1>1, SoFarKept DEF IInv, WordInv, ChangeSoFar
  <2>3. WordsStored'
    BY <1>1 DEF IInv, WordInv, WordsStored, W!Result
  <2> QED BY <2>1, <2>2, <2>3
<1>5. OldLists'
  BY <1>1 DEF IInv, WordInv, OldLists, Changing, ReadRounds, ChangeRounds
<1> QED BY <1>2, <1>3, <1>4, <1>5 DEF IInv, WordInv

LEMMA RemovedInv == IInv /\ GuildRemoved => IInv'
<1> SUFFICES ASSUME IInv, GuildRemoved
             PROVE  IInv'
  OBVIOUS
<1>1. /\ filter' = NotCached /\ cache' = Absent /\ gone' = TRUE
      /\ UNCHANGED <<conn, words, savedWords, pc, op, arg, left, custom, failed>>
      /\ UNCHANGED <<row, savedRow, fields, cfg, making, callers>>
  BY DEF GuildRemoved, W!Invalidate, W!callVars, C!Invalidate, C!callVars
<1>2. CallersApart' /\ Apart(conn, pc)'
  BY <1>1 DEF IInv, CallersApart, Apart, OnePending, WaitersInLine
<1>3. SettingsTyped' /\ RowsWritten'
  BY <1>1 DEF IInv, SettingsInv, SettingsTyped, RowsWritten
<1>4. SettingsCurrent' /\ ReadersFirst'
  BY <1>1 DEF SettingsCurrent, ReadersFirst
<1>5. WordsTyped' /\ ChangeSoFar' /\ WordsStored'
  <2>1. WordsTyped'
    BY <1>1 DEF IInv, WordInv, WordsTyped
  <2>2. ChangeSoFar'
    BY <1>1, SoFarKept DEF IInv, WordInv, ChangeSoFar
  <2>3. WordsStored'
    BY <1>1 DEF IInv, WordInv, WordsStored, W!Result
  <2> QED BY <2>1, <2>2, <2>3
<1>6. OldLists'
  BY <1>1 DEF IInv, WordInv, OldLists, Changing, ReadRounds, ChangeRounds
<1> QED BY <1>2, <1>3, <1>4, <1>5, <1>6 DEF IInv, WordInv, SettingsInv

LEMMA RestartInv == IInv /\ Restart => IInv'
<1> SUFFICES ASSUME IInv, Restart
             PROVE  IInv'
  OBVIOUS
<1>1. /\ conn' = Idle /\ pc' = [c \in Coros |-> "idle"] /\ conn'.lock = Free
      /\ Free \notin Coros /\ "idle" \notin Reads /\ "idle" \notin Writes
      /\ callers' = callers
  BY FreeAssumption DEF Restart, W!Restart, W!Idle, Idle, Reads, Writes
<1>2. /\ CallersApart' /\ callers.words \subseteq Coros
      /\ callers.settings \subseteq Coros
  BY <1>1 DEF IInv, CallersApart
<1>3. Apart(conn, pc)'
  <2>1. /\ conn' \in Conn /\ conn'.queue = <<>> /\ conn'.waiters = <<>>
        /\ pc' \in [Coros -> PCs]
    BY <1>1 DEF Conn, Idle, PCs
  <2> QED BY <1>1, <2>1 DEF Apart, OnePending, WaitersInLine, Distinct
<1>4. WordInv'
  <2>1. WordsTyped'
    <3>1. failed' = failed /\ failed \in BOOLEAN
      BY DEF Restart, W!Restart, IInv, WordInv, WordsTyped
    <3>2. /\ op' = [c \in Coros |-> "find"]
          /\ arg' = [c \in Coros |-> {}] /\ left' = [c \in Coros |-> {}]
          /\ custom' = [c \in Coros |-> {}]
      BY DEF Restart, W!Restart
    <3> QED BY <3>1, <3>2 DEF WordsTyped
  <2>2. ChangeSoFar'
    BY <1>1, <1>2 DEF ChangeSoFar, SoFar
  <2>3. words' = savedWords' /\ filter' = NotCached
    BY DEF Restart, W!Restart
  <2>4. WordsStored' /\ OldLists'
    BY <1>1, <1>2, <2>3 DEF WordsStored, OldLists
  <2> QED BY <2>1, <2>2, <2>4 DEF WordInv
<1>5. SettingsInv'
  <2>1. /\ row' = savedRow /\ savedRow' = savedRow /\ cache' = Absent
        /\ savedRow \in InOrder \cup {Absent}
        /\ fields' = [c \in Coros |-> C!NoFields]
        /\ cfg' = [c \in Coros |-> C!Defaults] /\ making' = {} /\ gone' = FALSE
    BY DEF Restart, C!Restart, IInv, SettingsInv, SettingsTyped
  <2>2. SettingsTyped'
    BY <2>1, DefaultsInOrder DEF SettingsTyped
  <2>3. RowsWritten'
    BY <1>1, <1>2, <2>1 DEF RowsWritten
  <2>4. SettingsCurrent'
    BY <1>1, <1>2, <2>1 DEF SettingsCurrent, Current
  <2>5. ReadersFirst'
    BY <1>1, <1>2 DEF ReadersFirst
  <2> QED BY <2>2, <2>3, <2>4, <2>5 DEF SettingsInv
<1> QED BY <1>2, <1>3, <1>4, <1>5 DEF IInv

LEMMA NextInv == IInv /\ [Next]_vars => IInv'
<1> SUFFICES ASSUME IInv, [Next]_vars
             PROVE  IInv'
  OBVIOUS
<1>1. CallersApart /\ Apart(conn, pc) /\ WordInv /\ SettingsInv
  BY DEF IInv
<1>2. ASSUME callers' = callers, NEW c \in Coros, Moves(c)
      PROVE  CallersApart' /\ Apart(conn, pc)'
  <2>1. Apart(conn', pc')
    BY <1>1, <1>2, MovesApart
  <2>2. Apart(conn, pc)' <=> Apart(conn', pc')
    BY DEF Apart, OnePending, WaitersInLine
  <2> QED BY <1>1, <1>2, <2>1, <2>2 DEF CallersApart
<1>3. CASE WordStep
  <2>1. PICK c \in callers.words : W!Call(c) \/ W!Step(c)
    BY <1>3 DEF WordStep
  <2>2. c \in Coros /\ callers' = callers
    BY <1>1, <1>3, <2>1 DEF WordStep, CallersApart
  <2>3. CallersApart' /\ Apart(conn, pc)'
    BY <1>1, <1>2, <2>1, <2>2, WordMoves
  <2> QED BY <1>1, <1>3, <2>3, WordStepWords, WordStepSettings DEF IInv
<1>4. CASE ConfigStep
  <2>1. PICK c \in callers.settings : C!Call(c) \/ C!Step(c)
    BY <1>4 DEF ConfigStep
  <2>2. c \in Coros /\ callers' = callers
    BY <1>1, <1>4, <2>1 DEF ConfigStep, CallersApart
  <2>3. CallersApart' /\ Apart(conn, pc)'
    BY <1>1, <1>2, <2>1, <2>2, ConfigMoves
  <2> QED BY <1>1, <1>4, <2>3, ConfigStepWords, ConfigStepSettings DEF IInv
<1>5. CASE UNCHANGED vars
  <2>1. /\ UNCHANGED <<conn, words, savedWords, pc, op, arg, left, custom, failed>>
        /\ UNCHANGED <<row, savedRow, cache, fields, cfg, making, gone, callers>>
        /\ filter' = filter
    BY <1>5 DEF vars, wordVars, configVars
  <2>2. CallersApart' /\ Apart(conn, pc)'
    BY <1>1, <2>1 DEF CallersApart, Apart, OnePending, WaitersInLine
  <2>3. SettingsInv'
    BY <1>1, <2>1 DEF SettingsInv, SettingsTyped, RowsWritten, SettingsCurrent,
                      ReadersFirst, Current, ReadRounds, UpsertRounds
  <2>4. WordsTyped' /\ ChangeSoFar' /\ WordsStored'
    <3>1. WordsTyped'
      BY <1>1, <2>1 DEF WordInv, WordsTyped
    <3>2. ChangeSoFar'
      BY <1>1, <2>1, SoFarKept DEF WordInv, ChangeSoFar
    <3>3. WordsStored'
      BY <1>1, <2>1 DEF WordInv, WordsStored, W!Result
    <3> QED BY <3>1, <3>2, <3>3
  <2>5. OldLists'
    BY <1>1, <2>1 DEF WordInv, OldLists, Changing, ReadRounds, ChangeRounds
  <2> QED BY <2>2, <2>3, <2>4, <2>5 DEF IInv, WordInv
<1> QED BY <1>3, <1>4, <1>5, ReloadInv, RemovedInv, RestartInv DEF Next

THEOREM Invariance == Spec => []IInv
BY InitInv, NextInv, PTL DEF Spec

(* What messages are held against is the stored list whenever no change    *)
(* holds the write lock, if none has failed.                               *)
THEOREM CurrentFilter == Spec => []FilterCurrent
<1>1. IInv => FilterCurrent
  BY FreeAssumption DEF IInv, CallersApart, WordInv, WordsStored, OldLists,
                        Changing, FilterCurrent, W!FilterCurrent
<1> QED BY <1>1, Invariance, PTL

(* No settings are ever stored, or acted on, with the ban threshold below  *)
(* the kick threshold, whoever updates what at the same time.              *)
THEOREM OrderedThresholds == Spec => []ThresholdsOrdered
<1>1. IInv => ThresholdsOrdered
  BY DEF IInv, SettingsInv, SettingsTyped, InOrder, ThresholdsOrdered,
         C!ThresholdsOrdered
<1> QED BY <1>1, Invariance, PTL

(* The bot acts on the stored settings, or on the defaults when there are  *)
(* none, until it leaves the guild.                                        *)
THEOREM FreshCache == Spec => []CacheFresh
<1>1. IInv => CacheFresh
  BY DEF IInv, SettingsInv, SettingsCurrent, Current, CacheFresh, C!CacheFresh
<1> QED BY <1>1, Invariance, PTL

(* A call changes the stored list as a whole or not at all.                *)
THEOREM WholeChanges == Spec => AllOrNothing
<1> DEFINE Whole == savedWords' # savedWords =>
                      \E c \in Coros : op[c] \in W!Changes
                                         /\ savedWords' = W!Result(c, savedWords)
<1>1. IInv /\ [Next]_vars => [Whole]_(W!vars)
  <2> SUFFICES ASSUME IInv, [Next]_vars, savedWords' # savedWords
               PROVE  Whole
    OBVIOUS
  <2>1. PICK c \in callers.words : W!Commit(c)
    <3>1. ~UNCHANGED vars /\ ~ConfigStep
      BY DEF vars, wordVars, ConfigStep
    <3>2. ~ReloadDefaults /\ ~GuildRemoved /\ ~Restart
      BY DEF ReloadDefaults, GuildRemoved, Restart, W!Invalidate, W!Restart
    <3>3. PICK c \in callers.words : W!Call(c) \/ W!Step(c)
      BY <3>1, <3>2 DEF Next, WordStep
    <3>4. ~W!Call(c)
      BY DEF W!Call, W!Find, W!Change
    <3>5. W!Commit(c)
      BY <3>3, <3>4 DEF W!Step, W!Select, W!FetchAll, W!Fill, W!ReadFails, W!Begin,
                        W!BeginFails, W!Write, W!Written, W!WriteFails, W!Rollback,
                        W!CommitFails
    <3> QED BY <3>5
  <2>2. /\ IsNext(conn, c) /\ pc[c] = "commit" /\ savedWords' = words
        /\ pc[c] \in Writes /\ c \in Coros
    BY <2>1 DEF W!Commit, W!Resumed, W!IsNext, IsNext, Writes, Reads, PCs, IInv,
                CallersApart
  <2>3. c = conn.lock
    BY <2>2, HolderNext DEF IInv
  <2>4. op[c] \in W!Changes /\ words = W!Result(c, savedWords)
    BY <2>2, <2>3 DEF IInv, WordInv, ChangeSoFar, SoFar
  <2> QED BY <2>2, <2>4
<1>2. AllOrNothing <=> [][Whole]_(W!vars)
  BY DEF AllOrNothing, W!AllOrNothing
<1> HIDE DEF Whole
<1> QED BY <1>1, <1>2, Invariance, PTL DEF Spec
=============================================================================
