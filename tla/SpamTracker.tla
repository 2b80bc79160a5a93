----------------------------- MODULE SpamTracker -----------------------------
(***************************************************************************)
(* Rate-based spam detection (src/services/spam.py): a bounded table of    *)
(* members, each with a bounded list of recent messages, judged one        *)
(* message at a time.  `sent' is what the members really sent while the    *)
(* filter was on; with the filter off nothing is recorded or judged.  A    *)
(* key is a member of one guild, and the guilds' settings are the same.    *)
(***************************************************************************)
EXTENDS Integers, Sequences, FiniteSets, Monotonic

CONSTANTS
  Members,          (* keys (guild, member) *)
  Texts,            (* messages, up to case and surrounding space *)
  Blank,            (* the message without text, an attachment *)
  MessageLimit,     (* antispam_message_limit *)
  FloodWindow,      (* antispam_window_seconds *)
  DuplicateLimit,   (* DUPLICATE_LIMIT *)
  WindowFactor,     (* DUPLICATE_WINDOW_FACTOR *)
  HistoryPerMember, (* HISTORY_PER_MEMBER *)
  MaxTracked        (* MAX_TRACKED_MEMBERS *)

ASSUME SpamAssumption ==
  /\ {MessageLimit, DuplicateLimit} \subseteq Nat
  /\ {FloodWindow, WindowFactor, HistoryPerMember} \subseteq Nat \ {0}
  /\ MaxTracked \in Nat /\ MaxTracked >= 2
  /\ Blank \in Texts /\ Members # {}

VARIABLES
  activity,   (* _activity: the events of each tracked member, oldest first *)
  verdict,    (* what inspect said last, and of whom *)
  sent,       (* history: every message of each member *)
  forgotten   (* history: how many of them were dropped from the table *)

spamVars == <<activity, verdict, sent, forgotten>>

Event    == [at : 0..MaxTime, what : Texts]
Verdicts == {"none", "mentions", "flood", "repeat"}

SpamInit ==
  /\ activity  = [k \in {} |-> <<>>]
  /\ verdict   = [of |-> CHOOSE k \in Members : TRUE, why |-> "none"]
  /\ sent      = [k \in Members |-> <<>>]
  /\ forgotten = [k \in Members |-> 0]

Times(log) == [i \in DOMAIN log |-> log[i].at]

(* prune *)
Since(log, t) == SubSeq(log, Outdated(Times(log), t) + 1, Len(log))

Recent(log, t)   == Within(Times(log), t)
Alike(log, text) == {i \in DOMAIN log : log[i].what = text}
Latest(log, n) ==
  IF Len(log) <= n THEN log ELSE SubSeq(log, Len(log) - n + 1, Len(log))

Larger(m, n) == IF m >= n THEN m ELSE n

Tracked == DOMAIN activity
LastActive(k) == activity[k][Len(activity[k])].at

(* The halves of the table that went idle the longest ago; ties fall as    *)
(* the table's order has it.                                               *)
IdleHalves ==
  {S \in SUBSET Tracked :
     /\ Cardinality(S) = Cardinality(Tracked) \div 2
     /\ \A d \in S, r \in Tracked \ S : LastActive(d) <= LastActive(r)}

(* Fault: one entry too many before the table is halved. *)
EvictedLate(k) ==
  IF k \in Tracked \/ Cardinality(Tracked) <= MaxTracked THEN {{}} ELSE IdleHalves

(* _evict, when a new member meets a full table. *)
Evicted(k) ==
  IF k \in Tracked \/ Cardinality(Tracked) < MaxTracked THEN {{}} ELSE IdleHalves

(* Fault: events are kept for the flood window alone. *)
RememberedShort(k, text) ==
  LET old == IF k \in Tracked THEN activity[k] ELSE <<>>
  IN  Latest(Append(Since(old, now - FloodWindow), [at |-> now, what |-> text]),
             HistoryPerMember)

(* The member's events once this message is in: prune, then append, which  *)
(* drops the oldest of a full deque.                                       *)
Remembered(k, text) ==
  LET old == IF k \in Tracked THEN activity[k] ELSE <<>>
  IN  Latest(Append(Since(old, now - FloodWindow * WindowFactor),
                    [at |-> now, what |-> text]),
             HistoryPerMember)

Flooding(log) ==
  Cardinality(Recent(log, now - FloodWindow)) >= Larger(2, MessageLimit)
Repeating(log, text) ==
  text # Blank /\ Cardinality(Alike(log, text)) >= DuplicateLimit

(* In this order: mass mentions, flooding, repetition. *)
Judge(log, text, many) ==
  CASE many                                        -> "mentions"
    [] ~many /\ Flooding(log)                       -> "flood"
    [] ~many /\ ~Flooding(log) /\ Repeating(log, text) -> "repeat"
    [] OTHER                                       -> "none"

(* inspect, with antispam_enabled. *)
Inspect(k, text, many) ==
  LET log == Remembered(k, text) IN
  /\ Happen
  /\ \E S \in Evicted(k) :
       /\ activity' = [m \in (Tracked \ S) \cup {k} |->
                         IF m = k THEN log ELSE activity[m]]
       /\ forgotten' = [m \in Members |->
                          IF m \in S THEN Len(sent[m]) ELSE forgotten[m]]
  /\ verdict' = [of |-> k, why |-> Judge(log, text, many)]
  /\ sent' = [sent EXCEPT ![k] = Append(@, [at |-> now, what |-> text])]

(* forget for one member, clear_guild for all of a guild. *)
Drop(S) ==
  /\ activity' = [m \in Tracked \ S |-> activity[m]]
  /\ forgotten' = [m \in Members |->
                     IF m \in S THEN Len(sent[m]) ELSE forgotten[m]]
  /\ UNCHANGED <<verdict, sent>>

-----------------------------------------------------------------------------
SpamTypeOK ==
  /\ Tracked \subseteq Members /\ Cardinality(Tracked) <= MaxTracked
  /\ \A k \in Tracked : activity[k] \in Seq(Event) /\ Len(activity[k]) \in 1..HistoryPerMember
  /\ verdict \in [of : Members, why : Verdicts]
  /\ sent \in [Members -> Seq(Event)]
  /\ \A k \in Members : forgotten[k] \in 0..Len(sent[k])

(* What the member judged last sent since it was last dropped.             *)
Mine  == SubSeq(sent[verdict.of], forgotten[verdict.of] + 1, Len(sent[verdict.of]))
Final == Mine[Len(Mine)]

(* "Messages within the window that count as flooding.": a message is      *)
(* called a flood exactly when it makes that many within the window,       *)
(* however the events kept of the member were pruned and cut short.        *)
FloodJudged ==
  Mine # <<>> /\ verdict.why # "mentions" =>
    (verdict.why = "flood" <=>
       Cardinality(Recent(Mine, Final.at - FloodWindow)) >= Larger(2, MessageLimit))

(* Short of a flood, a message is called repeated exactly when it has text *)
(* and its like was sent DUPLICATE_LIMIT times, itself included, in the    *)
(* longer window, as far back as a member's history goes.                  *)
RepeatJudged ==
  Mine # <<>> /\ verdict.why \in {"none", "repeat"} =>
    (verdict.why = "repeat" <=>
       /\ Final.what # Blank
       /\ LET span == Since(Mine, Final.at - FloodWindow * WindowFactor)
          IN  Cardinality(Alike(Latest(span, HistoryPerMember), Final.what))
                >= DuplicateLimit)

(* A message is judged as the member's whole true history would have it.   *)
JudgedByHistory == FloodJudged /\ RepeatJudged
=============================================================================
