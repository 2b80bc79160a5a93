------------------------- MODULE InteractionsProofs -------------------------
(***************************************************************************)
(* Theorems about Interactions, for any members, moderators, guests and    *)
(* bounds.  A round of trivia has one outcome because the loop runs tasks  *)
(* in the order they were made: the timer's task is the last there will    *)
(* be, so that whatever runs before the question is settled finds no       *)
(* outcome (Round).  A channel command stores an overwrite that agrees     *)
(* with the one it replaces unless it was overtaken (Channels).            *)
(*                                                                         *)
(* A listing holds every case because its layout, a fold over the cases,   *)
(* places each on the page that is open or on a new one (LayoutFits), and  *)
(* its buttons lead on because whatever is on its way to the message shows *)
(* one of the pages (Browsing).                                            *)
(*                                                                         *)
(* The last two parts are about MusicPlayer and WordFilter, which run in   *)
(* the same process and share no state with these commands.                *)
(***************************************************************************)
EXTENDS Interactions, MusicPlayer, WordFilter, WellFoundedInduction, TLAPS

(* A round: until it is settled or its timer has run, no outcome is told.  *)
Round ==
  /\ life \in {"unsent", "listening", "stopped"}
  /\ ready \in Seq(Members \cup {OnTimeout})
  /\ step \in {"fetch", "post", "message", "done"} /\ answered \in BOOLEAN
  /\ step \in {"fetch", "post"} => life = "unsent"
  /\ life = "unsent" => ready = <<>>
  /\ life # "stopped" => ~answered /\ outcomes = {}
  /\ \A i \in DOMAIN ready : ready[i] = OnTimeout => /\ life = "stopped"
                                                     /\ i = Len(ready)
  /\ ready # <<>> /\ ~answered => outcomes = {}
  /\ outcomes = {} \/ \E o \in Members \cup {"time"} : outcomes = {o}

Overwrites == [post : {"allow", "unset", "deny"}, others : Nat]

ChannelType ==
  /\ overwrite \in [Channel!Targets -> Overwrites]
  /\ cached \in [Channel!Targets -> Overwrites]
  /\ byhand \in Nat
  /\ pc \in [Mods -> {"idle", "reading", "setting"}]
  /\ goal \in [Mods -> Channel!Goals \cup {Channel!NoGoal}]
  /\ payload \in [Mods -> Overwrites]

(* What a command is about to store is for the target of its goal; the     *)
(* opener's overwrite is replaced by one that admits him.                  *)
Prepared(m) ==
  /\ pc[m] # "idle" => goal[m] \in Channel!Goals
  /\ pc[m] = "setting" =>
       /\ goal[m] \in Channel!Locks /\ m \notin overtaken =>
            payload[m].others = overwrite[Everyone].others
       /\ goal[m].who = Opener => payload[m] = Channel!Admitted

Channels == ChannelType /\ \A m \in Mods : Prepared(m)

IInv == /\ kind \in {"trivia", "listing", "channel"}
        /\ IF kind = "trivia" THEN Round ELSE outcomes = {}
        /\ Channels

-----------------------------------------------------------------------------
(* The view and the round. *)

LEMMA HeadFirst ==
  ASSUME NEW T, NEW s \in Seq(T), s # <<>>
  PROVE  /\ Head(s) = s[1] /\ 1 \in DOMAIN s
         /\ Tail(s) \in Seq(T) /\ Len(Tail(s)) = Len(s) - 1
         /\ \A i \in DOMAIN Tail(s) : Tail(s)[i] = s[i + 1] /\ i + 1 \in DOMAIN s
  OBVIOUS

LEMMA Appended ==
  ASSUME NEW T, NEW s \in Seq(T), NEW x \in T
  PROVE  /\ Append(s, x) \in Seq(T) /\ Append(s, x) # <<>>
         /\ Len(Append(s, x)) = Len(s) + 1
         /\ \A i \in DOMAIN Append(s, x) :
              \/ i = Len(s) + 1 /\ Append(s, x)[i] = x
              \/ i \in DOMAIN s /\ Append(s, x)[i] = s[i]
  OBVIOUS

(* A task leaves the queue; what is left is as it was. *)
LEMMA RunKeepsQueue ==
  ASSUME Round, NEW t, V!Runs(t)
  PROVE  /\ ready # <<>> /\ ready' \in Seq(Members \cup {OnTimeout})
         /\ life # "unsent"
         /\ \A i \in DOMAIN ready' :
              ready'[i] = OnTimeout => life = "stopped" /\ i = Len(ready')
         /\ t = OnTimeout => ready' = <<>> /\ life = "stopped"
  <1>1. ready \in Seq(Members \cup {OnTimeout}) /\ ready # <<>>
        /\ Head(ready) = t /\ ready' = Tail(ready)
    BY DEF Round, V!Runs
  <1>2. /\ ready[1] = t /\ 1 \in DOMAIN ready
        /\ ready' \in Seq(Members \cup {OnTimeout}) /\ Len(ready') = Len(ready) - 1
        /\ \A i \in DOMAIN ready' : ready'[i] = ready[i + 1] /\ i + 1 \in DOMAIN ready
    BY <1>1, HeadFirst
  <1>3. Len(ready) \in Nat /\ DOMAIN ready' = 1..Len(ready')
    BY <1>1, <1>2
  <1>4. \A i \in DOMAIN ready' :
          ready'[i] = OnTimeout => life = "stopped" /\ i = Len(ready')
    BY <1>2, <1>3 DEF Round
  <1>5. t = OnTimeout => ready' = <<>> /\ life = "stopped"
    <2> SUFFICES ASSUME t = OnTimeout PROVE ready' = <<>> /\ life = "stopped"
      OBVIOUS
    <2>1. Len(ready) = 1 /\ life = "stopped"
      BY <1>2 DEF Round
    <2> QED
      BY <1>2, <2>1
  <1> QED
    BY <1>1, <1>2, <1>4, <1>5 DEF Round

LEMMA TriviaStepRound ==
  ASSUME Round, Trivia!TriviaNext
  PROVE  Round'
  <1>1. CASE Trivia!Fetch
    BY <1>1 DEF Round, Trivia!Fetch, viewVars, Trivia!viewVars
  <1>2. CASE Trivia!Post
    <2>1. ready' = ready /\ (life' = life \/ life' = "listening")
          /\ step' = "message" /\ step = "post" /\ answered' = answered
          /\ outcomes' = outcomes
      BY <1>2 DEF Trivia!Post, Trivia!Send, Trivia!viewVars, Trivia!Question,
                  Trivia!Face
    <2> QED
      BY <2>1 DEF Round
  <1>3. CASE Trivia!OriginalResponse
    BY <1>3 DEF Round, Trivia!OriginalResponse, Trivia!MessageKnown
  <1>4. CASE Trivia!RevealAnswer
    <2>1. V!Runs(OnTimeout)
      BY <1>4 DEF Trivia!RevealAnswer, Trivia!Runs, V!Runs
    <2>2. /\ ready # <<>> /\ ready' = <<>> /\ life = "stopped"
      BY <2>1, RunKeepsQueue
    <2>3. /\ UNCHANGED <<life, step, answered>>
          /\ \/ outcomes' = outcomes
             \/ ~answered /\ outcomes' = outcomes \cup {"time"}
      BY <1>4 DEF Trivia!RevealAnswer, Trivia!Settle
    <2>4. outcomes' = {} \/ \E o \in Members \cup {"time"} : outcomes' = {o}
      BY <2>2, <2>3 DEF Round
    <2>5. ready' \in Seq(Members \cup {OnTimeout}) /\ DOMAIN ready' = {}
      BY <2>2
    <2>6. life' = life /\ step' = step /\ answered' = answered
      BY <2>3
    <2> QED
      BY <2>2, <2>4, <2>5, <2>6 DEF Round
  <1>5. ASSUME NEW m \in Members, Trivia!PressAnswer(m) PROVE Round'
    <2>1. /\ life = "listening" /\ ready' = Append(ready, m)
          /\ UNCHANGED <<life, step, answered, outcomes>>
      BY <1>5 DEF Trivia!PressAnswer, Trivia!Press, Trivia!triviaVars
    <2>2. /\ ready' \in Seq(Members \cup {OnTimeout})
          /\ \A i \in DOMAIN ready' : \/ ready'[i] = m
                                      \/ i \in DOMAIN ready /\ ready'[i] = ready[i]
      BY <2>1, Appended DEF Round
    <2> QED
      BY <2>1, <2>2, TimerAssumption DEF Round
  <1>6. ASSUME NEW m \in Members, Trivia!Answer(m) PROVE Round'
    <2>1. V!Runs(m)
      BY <1>6 DEF Trivia!Answer, Trivia!Runs, V!Runs
    <2>2. /\ ready # <<>> /\ ready' \in Seq(Members \cup {OnTimeout})
          /\ life # "unsent"
          /\ \A i \in DOMAIN ready' :
               ready'[i] = OnTimeout => life = "stopped" /\ i = Len(ready')
      BY <2>1, RunKeepsQueue
    <2>3. CASE answered
      <3>1. UNCHANGED <<answered, outcomes, life, step>>
        BY <1>6, <2>3 DEF Trivia!Answer
      <3> QED
        BY <2>2, <2>3, <3>1 DEF Round
    <2>4. CASE ~answered
      <3>1. /\ answered' = TRUE /\ life' = "stopped" /\ step' = step
            /\ outcomes' = outcomes \cup {m}
        BY <1>6, <2>4 DEF Trivia!Answer, Trivia!Settle
      <3>2. outcomes' = {m} /\ step \notin {"fetch", "post"}
        BY <2>2, <2>4, <3>1 DEF Round
      <3> QED
        BY <2>2, <3>1, <3>2 DEF Round
    <2> QED
      BY <2>3, <2>4 DEF Round
  <1> QED
    BY <1>1, <1>2, <1>3, <1>4, <1>5, <1>6 DEF Trivia!TriviaNext

(* The view's timer, edits and restarts. *)
LEMMA ViewStepRound ==
  ASSUME Round, UNCHANGED <<kind, triviaVars>>,
         V!TimerFires \/ (\E e \in edits : Delivered(e))
  PROVE  Round'
  <1>1. step' = step /\ answered' = answered /\ outcomes' = outcomes
    BY DEF triviaVars
  <1>2. CASE V!TimerFires
    <2>1. life = "listening" /\ life' = "stopped" /\ ready' = Append(ready, OnTimeout)
      BY <1>2 DEF V!TimerFires
    <2>2. /\ ready' \in Seq(Members \cup {OnTimeout}) /\ Len(ready') = Len(ready) + 1
          /\ \A i \in DOMAIN ready' : \/ i = Len(ready) + 1
                                      \/ i \in DOMAIN ready /\ ready'[i] = ready[i]
      BY <2>1, Appended DEF Round
    <2> QED
      BY <1>1, <2>1, <2>2 DEF Round
  <1>3. CASE \E e \in edits : Delivered(e)
    <2>1. life' = life /\ ready' = ready
      BY <1>3 DEF Delivered, V!Arrives, V!Refused
    <2> QED
      BY <1>1, <2>1 DEF Round
  <1> QED
    BY <1>2, <1>3

LEMMA RestartRound ==
  ASSUME Round, V!Forgotten, Trivia!TriviaRestart
  PROVE  Round'
  <1>1. /\ ready' = <<>> /\ life' = "stopped" /\ step' = "done"
        /\ answered' = answered /\ outcomes' = outcomes
    BY DEF V!Forgotten, Trivia!TriviaRestart
  <1>2. ready' \in Seq(Members \cup {OnTimeout}) /\ DOMAIN ready' = {}
    BY <1>1
  <1> QED
    BY <1>1, <1>2 DEF Round

-----------------------------------------------------------------------------
(* The channel commands. *)

LEMMA HandlerKeeps ==
  ASSUME Channels, NEW m \in Mods, Channel!Handler(m)
  PROVE  Channels'
  <1> USE DEF Channels
  <1>0. /\ Everyone \in Channel!Targets /\ Everyone # Opener
        /\ Channel!Blank \in Overwrites /\ Channel!Admitted \in Overwrites
        /\ \A g \in Channel!Goals : g.who \in Channel!Targets
        /\ \A g \in Channel!Locks : g.who = Everyone /\ g.name \in {"lock", "unlock"}
        /\ Channel!Locks \subseteq Channel!Goals
    BY EveryoneAssumption
    DEF Channel!Targets, Channel!Blank, Channel!Admitted, Overwrites,
        Channel!Goals, Channel!Locks
  (* Ending a command leaves nothing prepared by it. *)
  <1>1. ASSUME Channel!Ends(m), overwrite' = overwrite, cached' = cached,
               byhand' = byhand, overtaken' \in {overtaken, overtaken \ {m}}
        PROVE  Channels'
    <2>1. ChannelType'
      BY <1>0, <1>1 DEF ChannelType, Channel!Ends
    <2>2. \A d \in Mods : Prepared(d)'
      BY <1>1 DEF ChannelType, Channel!Ends, Prepared
    <2> QED
      BY <2>1, <2>2
  (* A command that has read sends an overwrite that fits its goal.        *)
  <1>2. ASSUME NEW whole \in Overwrites, pc[m] = "reading",
               Channel!Sending(m, whole),
               goal[m] \in Channel!Locks => whole.others = cached[Everyone].others,
               goal[m].who = Opener => whole = Channel!Admitted
        PROVE  Channels'
    <2>1. ChannelType'
      BY <1>2 DEF ChannelType, Channel!Sending
    <2>2. Prepared(m)'
      BY <1>0, <1>2 DEF ChannelType, Channel!Sending, Prepared, Channel!Same
    <2>3. \A d \in Mods : d # m => Prepared(d)'
      BY <1>2 DEF ChannelType, Channel!Sending, Prepared
    <2> QED
      BY <2>1, <2>2, <2>3
  <1>3. ASSUME NEW g \in Channel!Goals, Channel!Command(m, g) PROVE Channels'
    BY <1>3 DEF ChannelType, Channel!Command, Prepared
  <1>4. CASE Channel!SetLocked(m)
    <2> DEFINE whole == [cached[Everyone] EXCEPT
                           !.post = IF goal[m].name = "lock" THEN "deny" ELSE "unset"]
    <2>1. whole \in Overwrites /\ whole.others = cached[Everyone].others
      BY <1>0 DEF ChannelType, Overwrites
    <2>2. pc[m] = "reading" /\ goal[m] \in Channel!Locks /\ Channel!Sending(m, whole)
      BY <1>4 DEF Channel!SetLocked
    <2> QED
      BY <1>0, <1>2, <2>1, <2>2
  <1>5. CASE Channel!AddGuest(m)
    BY <1>0, <1>2, <1>5 DEF Channel!AddGuest
  <1>6. CASE Channel!RemoveGuest(m)
    BY <1>0, <1>2, <1>6 DEF Channel!RemoveGuest
  <1>7. CASE Channel!Declined(m)
    BY <1>1, <1>7 DEF Channel!Declined
  <1>8. CASE Channel!SetPermissions(m)
    <2> DEFINE t == goal[m].who
               new == [overwrite EXCEPT ![t] = payload[m]]
    <2>1. /\ pc[m] = "setting" /\ Channel!Ends(m) /\ Channel!Replace(new, t)
          /\ UNCHANGED <<cached, byhand>>
      BY <1>8 DEF Channel!SetPermissions
    <2>2. t \in Channel!Targets
      BY <1>0, <2>1 DEF Prepared
    <2>3. ChannelType'
      BY <1>0, <2>1, <2>2 DEF ChannelType, Channel!Ends, Channel!Replace
    <2>4. Prepared(m)'
      BY <2>1 DEF Prepared, ChannelType, Channel!Ends
    <2>5. \A d \in Mods : d # m => Prepared(d)'
      BY <1>0, <2>1, <2>2
      DEF Prepared, ChannelType, Channel!Ends, Channel!Replace, Channel!Same
    <2> QED
      BY <2>3, <2>4, <2>5
  <1>9. CASE Channel!SetPermissionsFails(m)
    BY <1>1, <1>9 DEF Channel!SetPermissionsFails
  <1> QED
    BY <1>3, <1>4, <1>5, <1>6, <1>7, <1>8, <1>9 DEF Channel!Handler

LEMMA ChannelStepKeeps ==
  ASSUME Channels, Channel!Next
  PROVE  Channels'
  <1>1. ASSUME NEW m \in Mods, Channel!Handler(m) PROVE Channels'
    BY <1>1, HandlerKeeps
  <1>2. CASE Channel!Slowmode
    BY <1>2 DEF Channels, ChannelType, Prepared, Channel!Slowmode
  <1>3. CASE Channel!EditByHand
    <2>1. PICK t \in Channel!Targets, p \in {"allow", "unset", "deny"} :
            Channel!Replace([overwrite EXCEPT ![t] = [post |-> p, others |-> byhand + 1]], t)
      BY <1>3 DEF Channel!EditByHand
    <2>2. byhand' = byhand + 1 /\ UNCHANGED <<cached, pc, goal, payload>>
      BY <1>3 DEF Channel!EditByHand
    <2>3. ChannelType'
      BY <2>1, <2>2 DEF Channels, ChannelType, Overwrites, Channel!Replace
    <2>4. ASSUME NEW m \in Mods PROVE Prepared(m)'
      BY <2>1, <2>2, EveryoneAssumption
      DEF Channels, ChannelType, Prepared, Channel!Replace, Channel!Same,
          Channel!Locks, Channel!Targets
    <2> QED
      BY <2>3, <2>4 DEF Channels
  <1>4. CASE Channel!Gateway
    BY <1>4 DEF Channels, ChannelType, Prepared, Channel!Gateway
  <1>5. CASE Channel!Restart
    BY <1>5 DEF Channels, ChannelType, Prepared, Channel!Restart, Channel!Blank,
                Overwrites
  <1> QED
    BY <1>1, <1>2, <1>3, <1>4, <1>5 DEF Channel!Next

-----------------------------------------------------------------------------
LEMMA InitIInv == Init => IInv
  <1> SUFFICES ASSUME Init PROVE IInv
    OBVIOUS
  <1>1. /\ life = "unsent" /\ ready = <<>> /\ step = "fetch"
        /\ answered = FALSE /\ outcomes = {}
    BY DEF Init, V!ViewInit, Trivia!TriviaInit
  <1>2. Round
    <2>1. ready \in Seq(Members \cup {OnTimeout}) /\ DOMAIN ready = {}
      BY <1>1
    <2> QED
      BY <1>1, <2>1 DEF Round
  <1>3. Channels
    BY DEF Init, Channel!Init, Channels, ChannelType, Prepared, Channel!Blank,
           Channel!Admitted, Overwrites
  <1> QED
    BY <1>1, <1>2, <1>3 DEF IInv, Init

(* The invariant of Interactions: see IInv. *)
THEOREM Invariance == Spec => []IInv
  <1>1. IInv /\ [Next]_vars => IInv'
    <2> SUFFICES ASSUME IInv, [Next]_vars PROVE IInv'
      OBVIOUS
    <2> USE DEF IInv
    <2>0. kind' = kind
      BY DEF Next, TriviaStep, ListingStep, ChannelStep, TimerFires, Delivery,
             ViewUnchanged, Restart, vars
    <2>1. CASE TriviaStep
      <3>1. Round'
        BY <2>1, TriviaStepRound DEF TriviaStep
      <3>2. Channels'
        BY <2>1 DEF TriviaStep, channelVars, Channels, ChannelType, Prepared
      <3> QED
        BY <2>0, <2>1, <3>1, <3>2 DEF TriviaStep
    <2>2. CASE ListingStep
      BY <2>0, <2>2
      DEF ListingStep, triviaVars, channelVars, Channels, ChannelType, Prepared
    <2>3. CASE ChannelStep
      BY <2>0, <2>3, ChannelStepKeeps DEF ChannelStep, triviaVars
    <2>4. CASE TimerFires \/ Delivery
      <3>1. Channels' /\ outcomes' = outcomes
        BY <2>4 DEF TimerFires, Delivery, ViewUnchanged, triviaVars, channelVars,
                    Channels, ChannelType, Prepared
      <3>2. Round => Round'
        BY <2>4, ViewStepRound DEF TimerFires, Delivery, ViewUnchanged
      <3> QED
        BY <2>0, <3>1, <3>2
    <2>5. CASE Restart
      <3>1. Channels' /\ outcomes' = outcomes
        BY <2>5 DEF Restart, Trivia!TriviaRestart, channelVars, Channels,
                    ChannelType, Prepared
      <3>2. Round => Round'
        BY <2>5, RestartRound DEF Restart
      <3> QED
        BY <2>0, <3>1, <3>2
    <2>6. CASE UNCHANGED vars
      BY <2>0, <2>6 DEF vars, viewVars, triviaVars, channelVars, Round, Channels,
                  ChannelType, Prepared
    <2> QED
      BY <2>1, <2>2, <2>3, <2>4, <2>5, <2>6 DEF Next
  <1> QED
    BY InitIInv, <1>1, PTL DEF Spec

(* However the presses of a round and its timer fall: see OneOutcome. *)
THEOREM OneOutcomeTold == Spec => []OneOutcome
  <1>1. IInv => OneOutcome
    BY DEF IInv, Round, OneOutcome, Trivia!OneOutcome
  <1> QED
    BY <1>1, Invariance, PTL

(* A command changes what it is about: see OthersPreserved. *)
THEOREM OverwritesPreserved == Spec => OthersPreserved
  <1> DEFINE Preserving ==
        \A m \in Mods :
          Channel!SetPermissions(m) /\ m \notin overtaken =>
            /\ goal[m] \in Channel!Locks =>
                 Channel!Same(overwrite, overwrite', Everyone)
            /\ overwrite[Opener].post = "allow" => overwrite'[Opener].post = "allow"
  <1>1. IInv => Preserving
    <2> SUFFICES ASSUME IInv, NEW m \in Mods,
                        Channel!SetPermissions(m), m \notin overtaken
                 PROVE  /\ goal[m] \in Channel!Locks =>
                             Channel!Same(overwrite, overwrite', Everyone)
                        /\ overwrite[Opener].post = "allow"
                             => overwrite'[Opener].post = "allow"
      OBVIOUS
    <2>1. /\ pc[m] = "setting"
          /\ overwrite' = [overwrite EXCEPT ![goal[m].who] = payload[m]]
      BY DEF Channel!SetPermissions, Channel!Replace
    <2>2. overwrite \in [Channel!Targets -> Overwrites]
          /\ Opener \in Channel!Targets /\ Everyone \in Channel!Targets
      BY EveryoneAssumption DEF IInv, Channels, ChannelType, Channel!Targets
    <2>3. goal[m] \in Channel!Locks => /\ goal[m].who = Everyone
                                       /\ payload[m].others = overwrite[Everyone].others
      BY <2>1 DEF IInv, Channels, Prepared, Channel!Locks
    <2>4. goal[m].who = Opener => payload[m].post = "allow"
      BY <2>1 DEF IInv, Channels, Prepared, Channel!Admitted
    <2> QED
      BY <2>1, <2>2, <2>3, <2>4 DEF Channel!Same
  <1>2. IInv /\ [Next]_vars => [Preserving]_Channel!vars
    BY <1>1
  <1> QED
    BY <1>2, Invariance, PTL DEF Spec, OthersPreserved, Channel!OthersPreserved

-----------------------------------------------------------------------------
(* Induction on an index, stated for a set, from the library's theorem that *)
(* the natural numbers are well founded.                                   *)

(* The natural numbers of a set have a least one. *)
LEMMA Smallest ==
  ASSUME NEW S \in SUBSET Nat, S # {}
  PROVE  \E n \in S : \A m \in S : n <= m
  <1> DEFINE R == OpToRel(<, Nat)
  <1>1. R = {ss \in Nat \X Nat : ss[1] < ss[2]}
    BY DEF OpToRel
  <1>2. IsWellFoundedOn(R, Nat)
    BY NatLessThanWellFounded
  <1> HIDE DEF R
  <1>3. PICK n \in S : \A m \in S : <<m, n>> \notin R
    BY <1>2, WFMin
  <1>4. \A m \in S : ~(m < n)
    BY <1>1, <1>3
  <1> QED
    BY <1>4

(* What holds of 0, and of every k that comes after one of which it holds.  *)
LEMMA Upto ==
  ASSUME NEW N \in Nat, NEW S, 0 \in S, \A k \in 1..N : k - 1 \in S => k \in S
  PROVE  0..N \subseteq S
  <1> DEFINE B == (0..N) \ S
  <1>1. SUFFICES ASSUME B # {} PROVE FALSE
    OBVIOUS
  <1>2. B \in SUBSET Nat
    OBVIOUS
  <1>3. PICK n \in B : \A m \in B : n <= m
    <2> HIDE DEF B
    <2> QED
      BY <1>1, <1>2, Smallest
  <1>4. n \in 1..N /\ n - 1 \notin B /\ n - 1 \in 0..N
    BY <1>3
  <1> QED
    BY <1>3, <1>4


-----------------------------------------------------------------------------
(* The folds of the library: a fold over an index, which takes the greatest *)
(* index last, is a recursion on the prefixes of a sequence.               *)

(* Max is what it is named for. *)
LEMMA Highest ==
  ASSUME NEW n \in Nat, NEW s \in SUBSET (1..n), s # {}
  PROVE  Listing!Max(s) \in s /\ \A y \in s : Listing!Max(s) >= y
  <1> DEFINE B == {m \in Nat : \A y \in s : m >= y}
  <1>1. n \in B /\ B \in SUBSET Nat
    OBVIOUS
  <1>2. PICK m \in B : \A k \in B : m <= k
    <2> HIDE DEF B
    <2> QED BY <1>1, Smallest
  <1>3. m \in s
    <2> SUFFICES ASSUME m \notin s PROVE FALSE
      OBVIOUS
    <2>1. m \in Nat /\ \A y \in s : m >= y /\ y \in Nat /\ y # m /\ y >= 1
      BY <1>2
    <2>0. PICK y \in s : TRUE
      OBVIOUS
    <2>2. m - 1 \in Nat /\ \A z \in s : m - 1 >= z
      BY <2>0, <2>1
    <2>3. m - 1 \in B
      BY <2>2
    <2> QED
      BY <1>2, <2>1, <2>3
  <1>4. \E x \in s : \A y \in s : x >= y
    BY <1>2, <1>3
  <1> QED
    BY <1>4 DEF Listing!Max

LEMMA HighestIs ==
  ASSUME NEW n \in Nat, NEW s \in SUBSET (1..n), NEW x \in s, \A y \in s : x >= y
  PROVE  Listing!Max(s) = x
  <1>1. s # {} /\ s \subseteq Nat /\ x \in Nat
    OBVIOUS
  <1>2. Listing!Max(s) \in s /\ \A y \in s : Listing!Max(s) >= y
    BY <1>1, Highest
  <1>3. /\ Listing!Max(s) \in Nat
        /\ Listing!Max(s) >= x /\ x >= Listing!Max(s)
    BY <1>1, <1>2
  <1> QED
    BY <1>1, <1>2, <1>3

(* What a fold with the steps of F, on sets of indices, comes to. *)
FoldsTo(g, n, D, base, F) ==
  /\ g \in [SUBSET (1..n) -> D]
  /\ g = [s \in SUBSET (1..n) |->
            IF s = {} THEN base ELSE F[g[s \ {Listing!Max(s)}], Listing!Max(s)]]

(* There is such a fold, so that the one the library chooses is one. *)
LEMMA FoldOver ==
  ASSUME NEW D, NEW base \in D, NEW N \in Nat, NEW F \in [D \X (1..N) -> D]
  PROVE  \E g : FoldsTo(g, N, D, base, F)
  <1> DEFINE B == {n \in Nat : n <= N /\ ~ \E g : FoldsTo(g, n, D, base, F)}
  <1>1. SUFFICES ASSUME B # {} PROVE FALSE
    OBVIOUS
  <1>2. PICK n \in B : \A k \in B : n <= k
    <2>1. B \in SUBSET Nat
      OBVIOUS
    <2> HIDE DEF B
    <2> QED BY <1>1, <2>1, Smallest
  <1>3. n # 0
    <2> SUFFICES ASSUME n = 0 PROVE FALSE
      OBVIOUS
    <2>1. 1..0 = {} /\ SUBSET (1..0) = {{}}
      OBVIOUS
    <2>2. FoldsTo([s \in {{}} |-> base], 0, D, base, F)
      BY <2>1 DEF FoldsTo
    <2> QED
      BY <1>2, <2>2
  <1>4. n - 1 \in Nat /\ n - 1 <= N /\ n - 1 \notin B /\ n \in 1..N
    BY <1>2, <1>3
  <1>5. PICK g : FoldsTo(g, n - 1, D, base, F)
    BY <1>4
  <1> DEFINE h == [s \in SUBSET (1..n) |->
                     IF n \in s THEN F[g[s \ {n}], n] ELSE g[s]]
  <1>6. \A s \in SUBSET (1..n) : /\ s \ {n} \in SUBSET (1..(n-1))
                                 /\ n \notin s => s \in SUBSET (1..(n-1))
    BY <1>4
  <1>6a. g \in [SUBSET (1..(n-1)) -> D]
    BY <1>5 DEF FoldsTo
  <1>7. h \in [SUBSET (1..n) -> D]
    BY <1>4, <1>6, <1>6a
  <1>8. ASSUME NEW s \in SUBSET (1..n)
        PROVE  h[s] = IF s = {} THEN base
                      ELSE F[h[s \ {Listing!Max(s)}], Listing!Max(s)]
    <2>1. CASE n \in s
      <3>1. Listing!Max(s) = n
        <4>1. n \in Nat /\ \A y \in s : n >= y
          BY <1>4
        <4> QED
          BY <2>1, <4>1, HighestIs
      <3>2. h[s] = F[g[s \ {n}], n] /\ h[s \ {n}] = g[s \ {n}]
        BY <1>6, <2>1
      <3> QED
        BY <2>1, <3>1, <3>2
    <2>2. CASE n \notin s
      <3>1. s \in SUBSET (1..(n-1)) /\ h[s] = g[s]
        BY <1>6, <2>2
      <3>2. g[s] = IF s = {} THEN base ELSE F[g[s \ {Listing!Max(s)}], Listing!Max(s)]
        BY <1>5, <3>1 DEF FoldsTo
      <3>3. n \notin s \ {Listing!Max(s)} /\ s \ {Listing!Max(s)} \in SUBSET (1..n)
        BY <2>2
      <3>4. h[s \ {Listing!Max(s)}] = g[s \ {Listing!Max(s)}]
        BY <3>3
      <3> HIDE DEF h
      <3> QED
        BY <3>1, <3>2, <3>4
    <2> QED
      BY <2>1, <2>2
  <1>9. h = [s \in SUBSET (1..n) |->
               IF s = {} THEN base ELSE F[h[s \ {Listing!Max(s)}], Listing!Max(s)]]
    <2> HIDE DEF h
    <2>1. DOMAIN h = SUBSET (1..n) /\ h = [s \in SUBSET (1..n) |-> h[s]]
      BY <1>7
    <2> QED
      BY <1>8, <2>1
  <1>10. FoldsTo(h, n, D, base, F)
    BY <1>7, <1>9 DEF FoldsTo
  <1> QED
    BY <1>2, <1>10

(* The prefixes of a sequence, as a fold from the left reaches them. *)
LEMMA PrefixSets ==
  ASSUME NEW N \in Nat, NEW k \in 1..N
  PROVE  /\ Listing!Max(1..k) = k /\ (1..k) \ {k} = 1..(k-1) /\ 1..k # {}
         /\ 1..k \in SUBSET (1..N) /\ 1..(k-1) \in SUBSET (1..N)
  <1>1. k \in 1..k /\ \A y \in 1..k : k >= y
    OBVIOUS
  <1>2. k \in Nat /\ 1..k \in SUBSET (1..k)
    OBVIOUS
  <1>3. Listing!Max(1..k) = k
    BY <1>1, <1>2, HighestIs
  <1> QED
    BY <1>1, <1>3

Recurs(f, N, D, base, F) ==
  f \in [0..N -> D] /\ f[0] = base /\ \A k \in 1..N : f[k] = F[f[k-1], k]

(* A recursion on an index has a solution. *)
LEMMA Recursion ==
  ASSUME NEW D, NEW base \in D, NEW N \in Nat, NEW F \in [D \X (1..N) -> D]
  PROVE  \E f : Recurs(f, N, D, base, F)
  <1>1. PICK g : FoldsTo(g, N, D, base, F)
    BY FoldOver
  <1>2. g \in [SUBSET (1..N) -> D]
    BY <1>1 DEF FoldsTo
  <1>3. \A s \in SUBSET (1..N) :
          g[s] = IF s = {} THEN base ELSE F[g[s \ {Listing!Max(s)}], Listing!Max(s)]
    BY <1>1 DEF FoldsTo
  <1> DEFINE f == [k \in 0..N |-> g[1..k]]
  <1>4. f \in [0..N -> D]
    BY <1>2
  <1>5. f[0] = base
    <2>1. 1..0 = {} /\ {} \in SUBSET (1..N) /\ f[0] = g[1..0]
      OBVIOUS
    <2> HIDE DEF f
    <2>2. g[{}] = base
      BY <1>3, <2>1
    <2> QED
      BY <2>1, <2>2
  <1>6. ASSUME NEW k \in 1..N PROVE f[k] = F[f[k-1], k]
    <2>1. f[k] = g[1..k] /\ f[k-1] = g[1..(k-1)]
      OBVIOUS
    <2>2. /\ Listing!Max(1..k) = k /\ (1..k) \ {k} = 1..(k-1) /\ 1..k # {}
          /\ 1..k \in SUBSET (1..N)
      BY PrefixSets
    <2> HIDE DEF f
    <2>3. g[1..k] = F[g[(1..k) \ {Listing!Max(1..k)}], Listing!Max(1..k)]
      BY <1>3, <2>2
    <2> QED
      BY <2>1, <2>2, <2>3
  <1> HIDE DEF f
  <1>7. Recurs(f, N, D, base, F)
    BY <1>4, <1>5, <1>6 DEF Recurs
  <1> QED
    BY <1>7

(* SumOf, from the left. *)
LEMMA SumSteps ==
  ASSUME NEW page \in Seq(Nat)
  PROVE  \E f : /\ f[0] = 0 /\ \A k \in 1..Len(page) : f[k] = f[k-1] + page[k]
                /\ Listing!SumOf(page) = f[Len(page)]
  <1> DEFINE N == Len(page)
             Eq(g) == g = [s \in SUBSET (1..N) |->
                            IF s = {} THEN 0
                            ELSE g[s \ {Listing!Max(s)}] + page[Listing!Max(s)]]
             F == [x \in Nat \X (1..N) |-> x[1] + page[x[2]]]
  <1>0. N \in Nat /\ DOMAIN page = 1..N /\ \A i \in 1..N : page[i] \in Nat
    OBVIOUS
  <1>1. Listing!SumOf(page) = (CHOOSE g : Eq(g))[1..N]
    BY <1>0 DEF Listing!SumOf, Listing!FoldLeft, Listing!MapThenFoldSet
  <1>2. \E g : Eq(g)
    <2>1. F \in [Nat \X (1..N) -> Nat]
      BY <1>0
    <2>2. PICK g : FoldsTo(g, N, Nat, 0, F)
      <3> HIDE DEF F, N
      <3> QED
        BY <1>0, <2>1, FoldOver
    <2>3. ASSUME NEW s \in SUBSET (1..N), s # {}
          PROVE  /\ F[g[s \ {Listing!Max(s)}], Listing!Max(s)]
                      = g[s \ {Listing!Max(s)}] + page[Listing!Max(s)]
      <3>1. Listing!Max(s) \in 1..N /\ g[s \ {Listing!Max(s)}] \in Nat
        BY <1>0, <2>2, <2>3, Highest DEF FoldsTo
      <3> QED
        BY <3>1
    <2>4. g = [s \in SUBSET (1..N) |->
                 IF s = {} THEN 0 ELSE F[g[s \ {Listing!Max(s)}], Listing!Max(s)]]
      BY <2>2 DEF FoldsTo
    <2> HIDE DEF F, N
    <2>5. Eq(g)
      BY <2>3, <2>4
    <2> QED
      BY <2>5
  <1> DEFINE h == CHOOSE g : Eq(g)
             f == [k \in 0..N |-> h[1..k]]
  <1>3. Eq(h)
    <2> HIDE DEF Eq
    <2> QED BY <1>2
  <1> HIDE DEF h
  <1>4. f[0] = 0
    <2>1. 1..0 = {} /\ {} \in SUBSET (1..N) /\ f[0] = h[1..0]
      BY <1>0
    <2>2. h[{}] = 0
      BY <1>3, <2>1
    <2> QED
      BY <2>1, <2>2
  <1>5. ASSUME NEW k \in 1..N PROVE f[k] = f[k-1] + page[k]
    <2>1. f[k] = h[1..k] /\ f[k-1] = h[1..(k-1)]
      BY <1>0
    <2>2. /\ Listing!Max(1..k) = k /\ (1..k) \ {k} = 1..(k-1) /\ 1..k # {}
          /\ 1..k \in SUBSET (1..N)
      BY <1>0, PrefixSets
    <2> HIDE DEF f
    <2>3. h[1..k] = h[(1..k) \ {Listing!Max(1..k)}] + page[Listing!Max(1..k)]
      BY <1>3, <2>2
    <2> QED
      BY <2>1, <2>2, <2>3
  <1>6. Listing!SumOf(page) = f[N]
    BY <1>0, <1>1 DEF h
  <1> HIDE DEF f
  <1> QED
    BY <1>4, <1>5, <1>6

(* The sum of a page, case by case. *)
LEMMA SumEmpty == Listing!SumOf(<<>>) = 0
  <1>1. <<>> \in Seq(Nat) /\ Len(<<>>) = 0
    OBVIOUS
  <1> QED
    BY <1>1, SumSteps

LEMMA SumAppend ==
  ASSUME NEW p \in Seq(Nat), NEW c \in Nat
  PROVE  /\ Listing!SumOf(p) \in Nat
         /\ Listing!SumOf(Append(p, c)) = Listing!SumOf(p) + c
  <1> DEFINE N == Len(p)
             q == Append(p, c)
  <1>0. /\ N \in Nat /\ q \in Seq(Nat) /\ Len(q) = N + 1 /\ q[N + 1] = c
        /\ \A k \in 1..N : q[k] = p[k] /\ p[k] \in Nat
    OBVIOUS
  <1>1. PICK f : /\ f[0] = 0 /\ \A k \in 1..N : f[k] = f[k-1] + p[k]
                 /\ Listing!SumOf(p) = f[N]
    BY SumSteps
  <1> HIDE DEF q, N
  <1>2. PICK h : /\ h[0] = 0 /\ \A k \in 1..(N + 1) : h[k] = h[k-1] + q[k]
                 /\ Listing!SumOf(q) = h[N + 1]
    BY <1>0, SumSteps
  <1> DEFINE S == {k \in 0..N : f[k] = h[k] /\ f[k] \in Nat}
  <1>3. 0 \in S
    BY <1>0, <1>1, <1>2
  <1>4. ASSUME NEW k \in 1..N, k - 1 \in S PROVE k \in S
    <2>1. f[k] = f[k-1] + p[k]
      BY <1>1
    <2>2. h[k] = h[k-1] + q[k]
      <3>1. k \in 1..(N + 1)
        BY <1>0
      <3> QED
        BY <1>2, <3>1
    <2>3. p[k] \in Nat /\ q[k] = p[k] /\ k \in 0..N
      BY <1>0
    <2>4. f[k-1] = h[k-1] /\ f[k-1] \in Nat
      BY <1>4
    <2> QED
      BY <2>1, <2>2, <2>3, <2>4
  <1> HIDE DEF S
  <1>5. 0..N \subseteq S
    BY <1>0, <1>3, <1>4, Upto
  <1>6. f[N] = h[N] /\ f[N] \in Nat
    BY <1>0, <1>5 DEF S
  <1>7. h[N + 1] = h[N] + c
    <2>1. N + 1 \in 1..(N + 1) /\ (N + 1) - 1 = N
      BY <1>0
    <2> QED
      BY <1>0, <1>2, <2>1
  <1> QED
    BY <1>1, <1>2, <1>6, <1>7 DEF q

(* FlattenSeq, from the left. *)
Flattens(f, ps, T) ==
  /\ f[1] = ps[1]
  /\ \A k \in 2..Len(ps) : f[k] = f[k-1] \o ps[k]
  /\ \A k \in 1..Len(ps) : f[k] \in Seq(T)
  /\ Listing!FlattenSeq(ps) = f[Len(ps)]

LEMMA FlattenSteps ==
  ASSUME NEW T, NEW ps \in Seq(Seq(T)), ps # <<>>
  PROVE  \E f : Flattens(f, ps, T)
  <1> DEFINE N == Len(ps)
             Eq(g) == g = [i \in 1..N |-> IF i = 1 THEN ps[i] ELSE g[i-1] \o ps[i]]
             F == [x \in Seq(T) \X (1..N) |-> x[1] \o ps[x[2]]]
  <1>0. N \in Nat /\ N >= 1 /\ \A i \in 1..N : ps[i] \in Seq(T)
    OBVIOUS
  <1>1. Listing!FlattenSeq(ps) = (CHOOSE g : Eq(g))[N]
    BY <1>0 DEF Listing!FlattenSeq
  <1>2. \E g : Eq(g)
    <2>1. F \in [Seq(T) \X (1..N) -> Seq(T)] /\ <<>> \in Seq(T)
      BY <1>0
    <2>2. PICK g : Recurs(g, N, Seq(T), <<>>, F)
      <3> HIDE DEF F, N
      <3> QED
        BY <1>0, <2>1, Recursion
    <2>3. \A k \in 1..N : g[k] = g[k-1] \o ps[k]
      <3> SUFFICES ASSUME NEW k \in 1..N PROVE g[k] = g[k-1] \o ps[k]
        OBVIOUS
      <3>1. k - 1 \in 0..N
        BY <1>0
      <3>2. g[k-1] \in Seq(T)
        BY <2>2, <3>1 DEF Recurs
      <3>3. F[g[k-1], k] = g[k-1] \o ps[k]
        BY <3>2
      <3> HIDE DEF F
      <3> QED
        BY <2>2, <3>3 DEF Recurs
    <2> HIDE DEF F, N
    <2> DEFINE h == [i \in 1..N |-> g[i]]
    <2>4. g[1] = ps[1]
      <3>1. 1 \in 1..N /\ 1 - 1 = 0 /\ <<>> \o ps[1] = ps[1]
        BY <1>0
      <3> QED
        BY <2>2, <2>3, <3>1 DEF Recurs
    <2>5. ASSUME NEW i \in 1..N
          PROVE  h[i] = IF i = 1 THEN ps[i] ELSE h[i-1] \o ps[i]
      <3>1. h[i] = g[i] /\ (i # 1 => h[i-1] = g[i-1])
        BY <1>0
      <3> HIDE DEF h
      <3> QED
        BY <2>3, <2>4, <3>1
    <2>6. Eq(h)
      <3>1. h = [i \in 1..N |-> h[i]]
        OBVIOUS
      <3> HIDE DEF h
      <3> QED
        BY <2>5, <3>1
    <2> QED
      BY <2>6
  <1> DEFINE h == CHOOSE g : Eq(g)
  <1>3. Eq(h)
    <2> HIDE DEF Eq
    <2> QED BY <1>2
  <1>4. Listing!FlattenSeq(ps) = h[N]
    BY <1>1
  <1> HIDE DEF h, N
  <1>5. h[1] = ps[1] /\ \A k \in 2..N : h[k] = h[k-1] \o ps[k]
    <2>1. \A i \in 1..N : h[i] = IF i = 1 THEN ps[i] ELSE h[i-1] \o ps[i]
      BY <1>3
    <2>2. 1 \in 1..N /\ \A k \in 2..N : k \in 1..N /\ k # 1
      BY <1>0
    <2> QED
      BY <2>1, <2>2
  <1> DEFINE S == {k \in 0..N : k # 0 => h[k] \in Seq(T)}
  <1>6. 0 \in S
    BY <1>0
  <1>7. ASSUME NEW k \in 1..N, k - 1 \in S PROVE k \in S
    <2>1. CASE k = 1
      BY <1>0, <1>5, <2>1
    <2>2. CASE k # 1
      <3>1. k \in 2..N /\ k - 1 # 0 /\ h[k-1] \in Seq(T) /\ ps[k] \in Seq(T)
        BY <1>0, <1>7, <2>2
      <3>2. h[k-1] \o ps[k] \in Seq(T)
        BY <3>1
      <3>3. h[k] \in Seq(T)
        BY <1>5, <3>1, <3>2
      <3> HIDE DEF N
      <3> QED
        BY <1>0, <3>3
    <2> QED
      BY <2>1, <2>2
  <1> HIDE DEF S
  <1>8. 0..N \subseteq S
    BY <1>0, <1>6, <1>7, Upto
  <1>9. \A k \in 1..N : h[k] \in Seq(T)
    BY <1>0, <1>8 DEF S
  <1> QED
    BY <1>4, <1>5, <1>9 DEF N, Flattens

(* Append, part by part. *)
LEMMA AppendParts ==
  ASSUME NEW U, NEW ps \in Seq(U), NEW p \in U
  PROVE  LET N  == Len(ps)
             qs == Append(ps, p)
         IN  /\ N \in Nat /\ qs \in Seq(U) /\ Len(qs) = N + 1 /\ qs[N + 1] = p
             /\ qs # <<>> /\ \A k \in 1..N : qs[k] = ps[k]
  OBVIOUS

(* The cases on some pages, page by page. *)
LEMMA FlattenAppend ==
  ASSUME NEW T, NEW ps \in Seq(Seq(T)), NEW p \in Seq(T)
  PROVE  /\ Listing!FlattenSeq(<<>>) = <<>> /\ Listing!FlattenSeq(ps) \in Seq(T)
         /\ Listing!FlattenSeq(Append(ps, p)) = Listing!FlattenSeq(ps) \o p
  <1> DEFINE N == Len(ps)
             qs == Append(ps, p)
  <1>0. /\ N \in Nat /\ qs \in Seq(Seq(T)) /\ Len(qs) = N + 1 /\ qs[N + 1] = p
        /\ qs # <<>> /\ \A k \in 1..N : qs[k] = ps[k]
    BY AppendParts
  <1>1. Listing!FlattenSeq(<<>>) = <<>>
    BY DEF Listing!FlattenSeq
  <1>2. PICK h : /\ h[1] = qs[1] /\ \A k \in 2..(N + 1) : h[k] = h[k-1] \o qs[k]
                 /\ Listing!FlattenSeq(qs) = h[N + 1]
    <2> HIDE DEF qs, N
    <2>1. PICK h : Flattens(h, qs, T)
      BY <1>0, FlattenSteps
    <2> QED
      BY <1>0, <2>1 DEF Flattens
  <1>3. CASE ps = <<>>
    <2>1. N = 0 /\ <<>> \o p = p /\ <<>> \in Seq(T)
      BY <1>3
    <2>2. Listing!FlattenSeq(qs) = p
      <3> HIDE DEF qs
      <3>1. qs[0 + 1] = p /\ h[1] = qs[1] /\ Listing!FlattenSeq(qs) = h[0 + 1]
        BY <1>0, <1>2, <2>1
      <3> QED
        BY <3>1
    <2> QED
      BY <1>1, <1>3, <2>1, <2>2
  <1>4. CASE ps # <<>>
    <2>1. PICK f : /\ f[1] = ps[1] /\ \A k \in 2..N : f[k] = f[k-1] \o ps[k]
                   /\ \A k \in 1..N : f[k] \in Seq(T)
                   /\ Listing!FlattenSeq(ps) = f[N]
      <3>1. PICK f : Flattens(f, ps, T)
        BY <1>4, FlattenSteps
      <3> QED
        BY <3>1 DEF Flattens
    <2>2. N >= 1
      BY <1>4
    <2> HIDE DEF qs, N
    <2> DEFINE S == {k \in 0..N : k # 0 => f[k] = h[k]}
    <2>3. 0 \in S
      BY <1>0
    <2>4. ASSUME NEW k \in 1..N, k - 1 \in S PROVE k \in S
      <3>1. CASE k = 1
        BY <1>0, <1>2, <2>1, <3>1
      <3>2. CASE k # 1
        <4>1. k \in 2..N /\ k \in 2..(N + 1) /\ f[k-1] = h[k-1] /\ qs[k] = ps[k]
          BY <1>0, <2>4, <3>2
        <4>2. f[k] = f[k-1] \o ps[k] /\ h[k] = h[k-1] \o qs[k]
          BY <1>2, <2>1, <4>1
        <4>3. f[k] = h[k]
          BY <4>1, <4>2
        <4> QED
          BY <1>0, <4>3
      <3> QED
        BY <3>1, <3>2
    <2> HIDE DEF S
    <2>5. 0..N \subseteq S
      BY <1>0, <2>3, <2>4, Upto
    <2>6. f[N] = h[N] /\ f[N] \in Seq(T)
      BY <1>0, <2>1, <2>2, <2>5 DEF S
    <2>7. h[N + 1] = h[N] \o p
      <3>1. N + 1 \in 2..(N + 1) /\ (N + 1) - 1 = N
        BY <1>0, <2>2
      <3> QED
        BY <1>0, <1>2, <3>1
    <2> QED
      BY <1>1, <1>2, <2>1, <2>6, <2>7 DEF qs
  <1> QED
    BY <1>3, <1>4

-----------------------------------------------------------------------------
(* The pages of a listing.                                                 *)

(* Layout, from the left: the first page is open, and each case is placed. *)
Place(laid, case) ==
  LET page == Listing!Last(laid) IN
  IF page # <<>> /\ \/ Len(page) >= PerPage
                    \/ Title + Listing!SumOf(page) + case > Budget
    THEN Append(laid, <<case>>)
    ELSE Listing!Front(laid) \o <<Append(page, case)>>

(* Some pages, at least one. *)
Booklets == Seq(Seq(Nat)) \ {<<>>}

LEMMA LastPage ==
  ASSUME NEW U, NEW s \in Seq(U), s # <<>>
  PROVE  /\ Listing!Front(s) \in Seq(U) /\ Listing!Last(s) \in U
         /\ s = Append(Listing!Front(s), Listing!Last(s))
         /\ \A x \in U : Listing!Front(s) \o <<x>> = Append(Listing!Front(s), x)
  BY DEF Listing!Front, Listing!Last

LEMMA Placed ==
  ASSUME NEW laid \in Booklets, NEW case \in Nat
  PROVE  /\ Place(laid, case) \in Booklets
         /\ \E ps \in Seq(Seq(Nat)), p \in Seq(Nat) :
              /\ laid = Append(ps, p)
              /\ \/ /\ p # <<>>
                    /\ Place(laid, case) = Append(laid, <<case>>)
                 \/ /\ p # <<>> => /\ Len(p) < PerPage
                                   /\ Title + Listing!SumOf(p) + case <= Budget
                    /\ Place(laid, case) = Append(ps, Append(p, case))
  <1> DEFINE ps == Listing!Front(laid)
             p  == Listing!Last(laid)
             U  == Seq(Nat)
  <1>1. laid \in Seq(U) /\ laid # <<>>
    BY DEF Booklets
  <1>2. /\ ps \in Seq(U) /\ p \in U /\ laid = Append(ps, p)
        /\ \A x \in U : ps \o <<x>> = Append(ps, x)
    <2> HIDE DEF U
    <2> QED BY <1>1, LastPage
  <1>3. /\ <<case>> \in U /\ Append(p, case) \in U
    BY <1>2
  <1>4. Listing!SumOf(p) \in Nat
    BY <1>2, SumAppend
  <1>5. PerPage \in Nat /\ Title \in Nat /\ Budget \in Nat /\ Len(p) \in Nat
    BY <1>2, PageAssumption
  <1> DEFINE full == p # <<>> /\ \/ Len(p) >= PerPage
                                 \/ Title + Listing!SumOf(p) + case > Budget
  <1>6. Place(laid, case) = IF full THEN Append(laid, <<case>>)
                                    ELSE ps \o <<Append(p, case)>>
    BY DEF Place
  <1>7. ~full /\ p # <<>> => /\ Len(p) < PerPage
                             /\ Title + Listing!SumOf(p) + case <= Budget
    <2> HIDE DEF p
    <2> QED
      BY <1>4, <1>5
  <1>8. full => p # <<>>
    OBVIOUS
  <1> HIDE DEF full, ps, p, U
  <1>9. Place(laid, case) = IF full THEN Append(laid, <<case>>)
                                    ELSE Append(ps, Append(p, case))
    BY <1>2, <1>3, <1>6
  <1>10. /\ Append(laid, <<case>>) \in Seq(U) /\ Append(laid, <<case>>) # <<>>
         /\ Append(ps, Append(p, case)) \in Seq(U)
         /\ Append(ps, Append(p, case)) # <<>>
    BY <1>1, <1>2, <1>3, AppendParts
  <1>11. Place(laid, case) \in Booklets
    BY <1>9, <1>10 DEF Booklets, U
  <1> QED
    BY <1>2, <1>7, <1>8, <1>9, <1>11 DEF U

Lays(f, cases) ==
  /\ f[0] = << <<>> >>
  /\ \A k \in 1..Len(cases) : f[k] = Place(f[k-1], cases[k])
  /\ Listing!Layout(cases) = f[Len(cases)]

LEMMA LayoutSteps ==
  ASSUME NEW cases \in Seq(Nat)
  PROVE  \E f : Lays(f, cases)
  <1> DEFINE N == Len(cases)
             base == << <<>> >>
             Eq(g) == g = [s \in SUBSET (1..N) |->
                            IF s = {} THEN base
                            ELSE Place(g[s \ {Listing!Max(s)}], cases[Listing!Max(s)])]
             F == [x \in Booklets \X (1..N) |-> Place(x[1], cases[x[2]])]
  <1>0. N \in Nat /\ DOMAIN cases = 1..N /\ \A i \in 1..N : cases[i] \in Nat
    OBVIOUS
  <1>1. Listing!Layout(cases) = (CHOOSE g : Eq(g))[1..N]
    <2>1. DOMAIN cases = 1..Len(cases)
      BY <1>0
    <2> QED
      BY <2>1 DEF Listing!Layout, Listing!FoldLeft, Listing!MapThenFoldSet, Place
  <1>2. \E g : Eq(g)
    <2>1. F \in [Booklets \X (1..N) -> Booklets]
      BY <1>0, Placed
    <2>2. base \in Booklets
      BY DEF Booklets
    <2>3. PICK g : FoldsTo(g, N, Booklets, base, F)
      <3> HIDE DEF F, N, base
      <3> QED
        BY <1>0, <2>1, <2>2, FoldOver
    <2>4. ASSUME NEW s \in SUBSET (1..N), s # {}
          PROVE  F[g[s \ {Listing!Max(s)}], Listing!Max(s)]
                   = Place(g[s \ {Listing!Max(s)}], cases[Listing!Max(s)])
      <3>1. Listing!Max(s) \in 1..N /\ g[s \ {Listing!Max(s)}] \in Booklets
        <4> HIDE DEF F, N, base
        <4> QED
          BY <1>0, <2>3, <2>4, Highest DEF FoldsTo
      <3> QED
        BY <3>1
    <2>5. g = [s \in SUBSET (1..N) |->
                 IF s = {} THEN base ELSE F[g[s \ {Listing!Max(s)}], Listing!Max(s)]]
      BY <2>3 DEF FoldsTo
    <2> HIDE DEF F, N, base
    <2>6. Eq(g)
      BY <2>4, <2>5
    <2> QED
      BY <2>6
  <1> DEFINE h == CHOOSE g : Eq(g)
             f == [k \in 0..N |-> h[1..k]]
  <1>3. Eq(h)
    <2> HIDE DEF Eq
    <2> QED BY <1>2
  <1> HIDE DEF h, base
  <1>4. f[0] = base
    <2>1. 1..0 = {} /\ {} \in SUBSET (1..N) /\ f[0] = h[1..0]
      BY <1>0
    <2>2. h[{}] = base
      BY <1>3, <2>1
    <2> QED
      BY <2>1, <2>2
  <1>5. ASSUME NEW k \in 1..N PROVE f[k] = Place(f[k-1], cases[k])
    <2>1. f[k] = h[1..k] /\ f[k-1] = h[1..(k-1)]
      BY <1>0
    <2>2. /\ Listing!Max(1..k) = k /\ (1..k) \ {k} = 1..(k-1) /\ 1..k # {}
          /\ 1..k \in SUBSET (1..N)
      BY <1>0, PrefixSets
    <2> HIDE DEF f, N
    <2>3. h[1..k] = Place(h[(1..k) \ {Listing!Max(1..k)}], cases[Listing!Max(1..k)])
      BY <1>3, <2>2
    <2> QED
      BY <2>1, <2>2, <2>3
  <1>6. Listing!Layout(cases) = f[N]
    BY <1>0, <1>1 DEF h
  <1> HIDE DEF f
  <1>7. Lays(f, cases)
    BY <1>4, <1>5, <1>6 DEF Lays, base
  <1> QED
    BY <1>7

(* A page of Layout's: not empty, not over the count, not too long. *)
Fits(page) == Len(page) \in 1..PerPage /\ Title + Listing!SumOf(page) <= Budget

LEMMA SeqFacts ==
  ASSUME NEW T, NEW s \in Seq(T), NEW t \in Seq(T), NEW c \in T
  PROVE  /\ s \o Append(t, c) = Append(s \o t, c) /\ s \o t \in Seq(T)
         /\ s \o <<c>> = Append(s, c) /\ <<c>> = Append(<<>>, c) /\ <<>> \in Seq(T)
         /\ Len(Append(t, c)) = Len(t) + 1 /\ Len(t) \in Nat
         /\ Append(t, c) \in Seq(T) /\ <<>> \o s = s
  OBVIOUS

(* A case placed is the last of those laid out, on a page that fits. *)
LEMMA PlaceFits ==
  ASSUME NEW laid \in Booklets, NEW case \in Sizes,
         laid = << <<>> >> \/ \A i \in DOMAIN laid : Fits(laid[i])
  PROVE  /\ Place(laid, case) \in Booklets
         /\ Listing!FlattenSeq(Place(laid, case))
              = Append(Listing!FlattenSeq(laid), case)
         /\ \A i \in DOMAIN Place(laid, case) : Fits(Place(laid, case)[i])
  <1> DEFINE U == Seq(Nat)
             new == Place(laid, case)
  <1>1. /\ case \in Nat /\ Title \in Nat /\ Budget \in Nat /\ Title + case <= Budget
        /\ PerPage \in Nat /\ PerPage >= 1
    BY PageAssumption, RoomAssumption
  <1>2. PICK ps \in Seq(Seq(Nat)), p \in Seq(Nat) :
          /\ laid = Append(ps, p)
          /\ \/ /\ p # <<>>
                /\ Place(laid, case) = Append(laid, <<case>>)
             \/ /\ p # <<>> => /\ Len(p) < PerPage
                               /\ Title + Listing!SumOf(p) + case <= Budget
                /\ Place(laid, case) = Append(ps, Append(p, case))
    BY <1>1, Placed
  <1>3. /\ Len(p) \in Nat /\ Listing!SumOf(p) \in Nat
        /\ Listing!SumOf(Append(p, case)) = Listing!SumOf(p) + case
        /\ Listing!SumOf(<<case>>) = case
        /\ Append(p, case) \in U /\ <<case>> \in U
        /\ Len(Append(p, case)) = Len(p) + 1 /\ Len(<<case>>) = 1
    <2>1. <<case>> = Append(<<>>, case) /\ <<>> \in Seq(Nat)
      BY <1>1, SeqFacts
    <2>2. Listing!SumOf(<<case>>) = 0 + case
      BY <1>1, <2>1, SumAppend, SumEmpty
    <2>3. Append(p, case) \in U /\ <<case>> \in U /\ Len(<<case>>) = 1
      BY <1>1
    <2> QED
      BY <1>1, <2>2, <2>3, SumAppend, SeqFacts
  <1>4. Fits(<<case>>)
    BY <1>1, <1>3 DEF Fits
  <1>5. laid \in Seq(U) /\ DOMAIN laid = 1..Len(laid)
    BY DEF Booklets
  <1>6. /\ Listing!FlattenSeq(laid) = Listing!FlattenSeq(ps) \o p
        /\ Listing!FlattenSeq(ps) \in Seq(Nat) /\ Listing!FlattenSeq(laid) \in Seq(Nat)
    <2>1. Listing!FlattenSeq(ps) \in Seq(Nat)
          /\ Listing!FlattenSeq(laid) = Listing!FlattenSeq(ps) \o p
      BY <1>2, FlattenAppend
    <2> QED
      BY <2>1, SeqFacts
  <1>9. /\ Len(ps) \in Nat /\ Len(laid) = Len(ps) + 1 /\ laid[Len(ps) + 1] = p
        /\ \A k \in 1..Len(ps) : laid[k] = ps[k]
    <2>1. ps \in Seq(U) /\ p \in U
      OBVIOUS
    <2> HIDE DEF U
    <2> QED
      BY <1>2, <2>1, AppendParts
  <1>10. laid # << <<>> >> => \A k \in 1..Len(laid) : Fits(laid[k])
    BY <1>5
  <1>7. CASE p # <<>> /\ new = Append(laid, <<case>>)
    <2>1. laid # << <<>> >>
      <3> DEFINE blank == << <<>> >>
      <3>1. Len(blank) = 1 /\ blank[1] = <<>>
        OBVIOUS
      <3> HIDE DEF blank
      <3>2. laid # blank
        BY <1>7, <1>9, <3>1
      <3> QED
        BY <3>2 DEF blank
    <2>2. Listing!FlattenSeq(new) = Listing!FlattenSeq(laid) \o <<case>>
      <3>1. laid \in Seq(Seq(Nat)) /\ <<case>> \in Seq(Nat)
        BY <1>3, <1>5
      <3> QED
        BY <1>7, <3>1, FlattenAppend
    <2>3. Listing!FlattenSeq(new) = Append(Listing!FlattenSeq(laid), case)
      BY <1>1, <1>6, <2>2, SeqFacts
    <2>4. \A i \in DOMAIN new : Fits(new[i])
      <3> HIDE DEF U
      <3>1. /\ Len(laid) \in Nat /\ new \in Seq(U) /\ Len(new) = Len(laid) + 1
            /\ new[Len(laid) + 1] = <<case>>
            /\ \A k \in 1..Len(laid) : new[k] = laid[k]
        BY <1>3, <1>5, <1>7, AppendParts
      <3>2. DOMAIN new = 1..(Len(laid) + 1)
        BY <3>1
      <3> HIDE DEF new
      <3>3. ASSUME NEW i \in 1..(Len(laid) + 1) PROVE Fits(new[i])
        <4>1. CASE i = Len(laid) + 1
          BY <1>4, <3>1, <4>1
        <4>2. CASE i \in 1..Len(laid)
          <5>1. new[i] = laid[i] /\ Fits(laid[i])
            BY <1>10, <2>1, <3>1, <4>2
          <5> QED
            BY <5>1
        <4> QED
          BY <3>1, <4>1, <4>2
      <3> QED
        BY <3>2, <3>3
    <2> QED
      BY <1>1, <2>3, <2>4, Placed
  <1>8. CASE /\ p # <<>> => /\ Len(p) < PerPage
                            /\ Title + Listing!SumOf(p) + case <= Budget
             /\ new = Append(ps, Append(p, case))
    <2>1. Fits(Append(p, case))
      <3>1. CASE p = <<>>
        <4>1. Append(p, case) = <<case>>
          BY <1>1, <3>1, SeqFacts
        <4> QED
          BY <1>4, <4>1
      <3>2. CASE p # <<>>
        BY <1>1, <1>3, <1>8, <3>2 DEF Fits
      <3> QED
        BY <3>1, <3>2
    <2>2. Listing!FlattenSeq(new) = Listing!FlattenSeq(ps) \o Append(p, case)
      BY <1>3, <1>8, FlattenAppend
    <2>3. Listing!FlattenSeq(new) = Append(Listing!FlattenSeq(laid), case)
      BY <1>1, <1>6, <2>2, SeqFacts
    <2>4. \A i \in DOMAIN new : Fits(new[i])
      <3>1. ps \in Seq(U) /\ p \in U
        OBVIOUS
      <3> HIDE DEF U
      <3>2. /\ Len(ps) \in Nat /\ new \in Seq(U) /\ Len(new) = Len(ps) + 1
            /\ new[Len(ps) + 1] = Append(p, case)
            /\ \A k \in 1..Len(ps) : new[k] = ps[k]
        BY <1>3, <1>8, <3>1, AppendParts
      <3>3. DOMAIN new = 1..(Len(ps) + 1)
        BY <3>2
      <3> HIDE DEF new
      <3>4. ASSUME NEW i \in 1..Len(ps) PROVE Fits(new[i])
        <4>1. laid # << <<>> >>
          <5> DEFINE blank == << <<>> >>
          <5>1. Len(blank) = 1
            OBVIOUS
          <5> HIDE DEF blank
          <5>2. Len(ps) \in Nat /\ Len(laid) = Len(ps) + 1 /\ 1 <= Len(ps)
            BY <1>9
          <5>3. Len(laid) # Len(blank)
            BY <5>1, <5>2
          <5>4. laid # blank
            BY <5>3
          <5> QED
            BY <5>4 DEF blank
        <4>2. i \in 1..Len(laid) /\ new[i] = laid[i]
          BY <1>9, <3>2
        <4>3. Fits(laid[i])
          BY <1>10, <4>1, <4>2
        <4> QED
          BY <4>2, <4>3
      <3>5. ASSUME NEW i \in 1..(Len(ps) + 1) PROVE Fits(new[i])
        <4>1. CASE i = Len(ps) + 1
          BY <2>1, <3>2, <4>1
        <4>2. CASE i \in 1..Len(ps)
          BY <3>4, <4>2
        <4> QED
          BY <1>9, <4>1, <4>2
      <3> QED
        BY <3>3, <3>5
    <2> QED
      BY <1>1, <2>3, <2>4, Placed
  <1> QED
    BY <1>2, <1>7, <1>8

LEMMA Widened ==
  ASSUME NEW S, NEW T, S \subseteq T, NEW s \in Seq(S)
  PROVE  s \in Seq(T)
  OBVIOUS

(* The pages of a listing hold its cases, in order, and every page fits. *)
LEMMA LayoutFits ==
  ASSUME NEW cases \in Seq(Sizes), cases # <<>>
  PROVE  /\ Listing!Layout(cases) \in Booklets
         /\ Listing!FlattenSeq(Listing!Layout(cases)) = cases
         /\ \A i \in DOMAIN Listing!Layout(cases) : Fits(Listing!Layout(cases)[i])
  <1> DEFINE N == Len(cases)
             Holds(laid, k) == /\ laid \in Booklets
                               /\ Listing!FlattenSeq(laid) = SubSeq(cases, 1, k)
                               /\ \/ k = 0 /\ laid = << <<>> >>
                                  \/ k # 0 /\ \A i \in DOMAIN laid : Fits(laid[i])
  <1>0. /\ N \in Nat \ {0} /\ cases \in Seq(Nat) /\ SubSeq(cases, 1, N) = cases
        /\ SubSeq(cases, 1, 0) = <<>>
        /\ \A k \in 1..N : /\ cases[k] \in Sizes
                           /\ SubSeq(cases, 1, k) = Append(SubSeq(cases, 1, k-1), cases[k])
    <2>1. /\ N \in Nat \ {0} /\ SubSeq(cases, 1, N) = cases /\ SubSeq(cases, 1, 0) = <<>>
          /\ \A k \in 1..N : cases[k] \in Sizes
      OBVIOUS
    <2>2. cases \in Seq(Nat)
      BY PageAssumption, Widened
    <2>3. ASSUME NEW k \in 1..N
          PROVE  SubSeq(cases, 1, k) = Append(SubSeq(cases, 1, k-1), cases[k])
      OBVIOUS
    <2> QED
      BY <2>1, <2>2, <2>3
  <1>1. PICK f : Lays(f, cases)
    BY <1>0, LayoutSteps
  <1> DEFINE S == {k \in 0..N : Holds(f[k], k)}
  <1>2. 0 \in S
    <2>1. f[0] = << <<>> >> /\ << <<>> >> \in Booklets
      BY <1>1 DEF Lays, Booklets
    <2>2. Listing!FlattenSeq(<< <<>> >>) = <<>>
      <3>1. << <<>> >> = Append(<<>>, <<>>) /\ <<>> \in Seq(Seq(Nat)) /\ <<>> \in Seq(Nat)
            /\ <<>> \o <<>> = <<>>
        OBVIOUS
      <3> QED
        BY <3>1, FlattenAppend
    <2>3. Holds(f[0], 0)
      BY <1>0, <2>1, <2>2
    <2> HIDE DEF Holds, N
    <2> QED
      BY <1>0, <2>3
  <1>3. ASSUME NEW k \in 1..N, k - 1 \in S PROVE k \in S
    <2>1. Holds(f[k-1], k-1) /\ f[k] = Place(f[k-1], cases[k])
      BY <1>1, <1>3 DEF Lays
    <2>2. k # 0 /\ k \in 0..N /\ cases[k] \in Sizes
      BY <1>0
    <2>3. /\ f[k] \in Booklets
          /\ Listing!FlattenSeq(f[k]) = Append(Listing!FlattenSeq(f[k-1]), cases[k])
          /\ \A i \in DOMAIN f[k] : Fits(f[k][i])
      BY <2>1, <2>2, PlaceFits
    <2> QED
      BY <1>0, <2>1, <2>2, <2>3
  <1> HIDE DEF S
  <1>4. 0..N \subseteq S
    <2> HIDE DEF N, Holds
    <2> QED
      BY <1>0, <1>2, <1>3, Upto
  <1>5. Holds(f[N], N) /\ Listing!Layout(cases) = f[N]
    BY <1>0, <1>1, <1>4 DEF Lays, S
  <1> QED
    BY <1>0, <1>5

-----------------------------------------------------------------------------
(* A listing: its pages are those of its cases, and while its message      *)
(* listens, the message and every edit of it show one of them.             *)
Tasks == Listing!Buttons \cup {OnTimeout}

IsPage(face) == \E i \in 1..Len(pages) : face = Listing!Page(i)

Laid ==
  /\ records # <<>>
  /\ pages = Listing!Layout(records)
  /\ index \in 1..Len(pages)

Listed ==
  /\ records \in Seq(Sizes)
  /\ ready \in Seq(Tasks)
  /\ asked = "post" => pages = <<>> /\ life = "unsent"
  /\ life = "unsent" => ready = <<>> /\ edits = {}
  /\ pages = <<>> => index = 1 /\ ready = <<>> /\ life # "listening"
  /\ pages # <<>> => Laid
  /\ life = "listening" =>
       /\ Len(pages) > 1
       /\ \A i \in DOMAIN ready : ready[i] # OnTimeout
       /\ IsPage(shown)
       /\ \A e \in edits : IsPage(e)

Browsing == IF kind = "listing" THEN Listed ELSE pages = <<>>

LEMMA LaidOut ==
  ASSUME Laid, records \in Seq(Sizes)
  PROVE  /\ pages \in Seq(Seq(Nat)) /\ pages # <<>> /\ Len(pages) \in Nat \ {0}
         /\ Listing!FlattenSeq(pages) = records
         /\ \A i \in DOMAIN pages : Fits(pages[i])
  <1>1. pages \in Booklets
    BY LayoutFits DEF Laid
  <1>2. pages \in Seq(Seq(Nat)) /\ pages # <<>>
    BY <1>1 DEF Booklets
  <1>3. Len(pages) \in Nat \ {0}
    BY <1>2
  <1> QED
    BY <1>2, <1>3, LayoutFits DEF Laid

(* A press asks for a page there is. *)
LEMMA TargetIsPage ==
  ASSUME Len(pages) \in Nat \ {0}, index \in 1..Len(pages), NEW b \in Listing!Buttons
  PROVE  Listing!Target(b) \in 1..Len(pages)
  BY DEF Listing!Target, Listing!Clamp, Listing!Buttons

LEMMA ShowCasesListed ==
  ASSUME Listed, Listing!ShowCases
  PROVE  Listed'
  <1>1. /\ asked = "post" /\ pages = <<>> /\ life = "unsent" /\ index = 1
        /\ ready = <<>> /\ edits = {} /\ records' = records /\ index' = index
        /\ asked' # "post"
    BY DEF Listed, Listing!ShowCases
  <1>2. CASE records = <<>>
    <2>1. UNCHANGED <<life, ready, edits, shown, pages>>
      BY <1>2 DEF Listing!ShowCases, Listing!viewVars
    <2> QED
      BY <1>1, <2>1 DEF Listed
  <1>3. CASE records # <<>>
    <2>1. /\ pages' = Listing!Layout(records)
          /\ Listing!Send(Listing!Page(1)') \/ UNCHANGED <<life, ready, edits, shown>>
      BY <1>3 DEF Listing!ShowCases, Listing!viewVars
    <2>2. records \in Seq(Sizes) /\ pages' \in Booklets
      BY <1>3, <2>1, LayoutFits DEF Listed
    <2>3. pages' # <<>> /\ Len(pages') \in Nat \ {0}
      BY <2>2 DEF Booklets
    <2>4. Laid'
      BY <1>1, <1>3, <2>1, <2>3 DEF Laid
    <2>5. ready' = ready /\ edits' = edits
      BY <2>1 DEF Listing!Send
    <2>6. CASE life' = "listening"
      <3>1. Listing!Send(Listing!Page(1)')
        BY <1>1, <2>1, <2>6
      <3>2. shown' = Listing!Page(1)' /\ Listing!Page(1)'.enabled # {}
        BY <1>1, <2>6, <3>1 DEF Listing!Send
      <3>3. Len(pages') > 1
        BY <2>3, <3>2 DEF Listing!Page, Listing!Face
      <3>4. IsPage(shown)'
        BY <2>3, <3>2 DEF IsPage
      <3> QED
        BY <1>1, <2>2, <2>3, <2>4, <2>5, <2>6, <3>3, <3>4 DEF Listed
    <2>7. CASE life' # "listening"
      <3>1. life' = "unsent"
        BY <1>1, <2>1, <2>7 DEF Listing!Send
      <3> QED
        BY <1>1, <2>2, <2>3, <2>4, <2>5, <2>7, <3>1 DEF Listed
    <2> QED
      BY <2>6, <2>7
  <1> QED
    BY <1>2, <1>3

LEMMA ListingStepListed ==
  ASSUME Listed, Listing!PagesNext
  PROVE  Listed'
  <1>1. CASE Listing!ShowCases
    BY <1>1, ShowCasesListed
  <1>2. CASE Listing!PageMessage
    BY <1>2 DEF Listed, Laid, IsPage, Listing!Page, Listing!PageMessage,
                Listing!MessageKnown
  <1>3. CASE Listing!PressButton
    <2>1. PICK b \in shown.enabled : Listing!Press(b)
      BY <1>3 DEF Listing!PressButton
    <2>2. /\ life = "listening" /\ ready' = Append(ready, b)
          /\ UNCHANGED <<life, edits, shown, records, asked, pages, index>>
      BY <1>3, <2>1 DEF Listing!Press, Listing!PressButton, Listing!pagesVars
    <2>3. b \in Listing!Buttons
      BY <2>1, <2>2 DEF Listed, IsPage, Listing!Page, Listing!Face, Listing!Buttons
    <2>4. b \in Tasks /\ b # OnTimeout
      BY <2>3, TimerAssumption DEF Tasks, Listing!Buttons
    <2>5. /\ ready' \in Seq(Tasks)
          /\ \A i \in DOMAIN ready' : \/ ready'[i] = b
                                      \/ i \in DOMAIN ready /\ ready'[i] = ready[i]
      BY <2>2, <2>4, Appended DEF Listed
    <2> QED
      BY <2>2, <2>4, <2>5 DEF Listed, Laid, IsPage, Listing!Page
  <1>4. CASE Listing!Turn
    <2>1. PICK b \in Listing!Buttons :
            /\ Listing!Runs(b) /\ index' = Listing!Target(b)
            /\ edits' = edits \cup {Listing!Page(Listing!Target(b))}
      BY <1>4 DEF Listing!Turn
    <2>2. UNCHANGED <<life, shown, records, asked, pages>>
      BY <1>4 DEF Listing!Turn
    <2>3. ready # <<>> /\ ready' = Tail(ready)
      BY <2>1 DEF Listing!Runs
    <2>4. /\ ready' \in Seq(Tasks)
          /\ \A i \in DOMAIN ready' : ready'[i] = ready[i + 1] /\ i + 1 \in DOMAIN ready
      BY <2>3, HeadFirst DEF Listed
    <2>5. life # "unsent" /\ pages # <<>> /\ Laid
      BY <2>3 DEF Listed
    <2>6. Len(pages) \in Nat \ {0} /\ index \in 1..Len(pages)
      BY <2>5, LaidOut DEF Listed, Laid
    <2>7. index' \in 1..Len(pages)
      BY <2>1, <2>6, TargetIsPage
    <2>8. Laid'
      BY <2>2, <2>5, <2>7 DEF Laid
    <2>9. edits' = edits \cup {Listing!Page(index')}
      BY <2>1
    <2>10. \A i \in 1..Len(pages) : Listing!Page(i)' = Listing!Page(i)
      BY <2>2 DEF Listing!Page
    <2>11. life = "listening" => /\ IsPage(shown)'
                                 /\ \A e \in edits' : IsPage(e)'
      BY <2>2, <2>7, <2>9, <2>10 DEF Listed, IsPage
    <2> QED
      BY <2>2, <2>4, <2>5, <2>8, <2>11 DEF Listed
  <1>5. CASE Listing!DisableButtons
    <2>1. /\ ready # <<>> /\ Head(ready) = OnTimeout /\ ready' = Tail(ready)
          /\ UNCHANGED <<life, shown, records, asked, pages, index>>
      BY <1>5 DEF Listing!DisableButtons, Listing!Runs, Listing!pagesVars
    <2>2. ready' \in Seq(Tasks) /\ ready[1] = OnTimeout /\ 1 \in DOMAIN ready
      BY <2>1, HeadFirst DEF Listed
    <2>3. life \notin {"listening", "unsent"} /\ pages # <<>>
      BY <2>1, <2>2 DEF Listed
    <2> QED
      BY <2>1, <2>2, <2>3 DEF Listed, Laid
  <1> QED
    BY <1>1, <1>2, <1>3, <1>4, <1>5 DEF Listing!PagesNext

LEMMA ViewStepListed ==
  ASSUME Listed, UNCHANGED listingVars,
         V!TimerFires \/ \E e \in edits : Delivered(e)
  PROVE  Listed'
  <1>0. /\ records' = records /\ asked' = asked /\ pages' = pages /\ index' = index
        /\ Laid' = Laid
    BY DEF listingVars, Laid
  <1>1. CASE V!TimerFires
    <2>1. life = "listening" /\ life' = "stopped" /\ ready' = Append(ready, OnTimeout)
      BY <1>1 DEF V!TimerFires
    <2>2. ready' \in Seq(Tasks)
      BY <2>1 DEF Listed, Tasks
    <2> QED
      BY <1>0, <2>1, <2>2 DEF Listed
  <1>2. ASSUME NEW e \in edits, V!Arrives(e) PROVE Listed'
    <2>1. /\ life' = life /\ ready' = ready /\ edits' = edits \ {e}
          /\ shown' = V!Face(IF e.text = Nothing THEN shown.text ELSE e.text, e.enabled)
      BY <1>2 DEF V!Arrives
    <2>2. ASSUME life = "listening" PROVE IsPage(shown)'
      <3>1. PICK i \in 1..Len(pages) : e = Listing!Page(i)
        BY <1>2, <2>2 DEF Listed, IsPage
      <3>2. e.text = i /\ i # Nothing /\ e = V!Face(e.text, e.enabled)
        <4>1. Len(pages) \in Nat
          BY <2>2, LaidOut DEF Listed
        <4>2. i \in Nat
          BY <4>1
        <4> QED
          BY <3>1, <4>2, PageAssumption DEF Listing!Page, Listing!Face, V!Face
      <3>3. shown' = Listing!Page(i)'
        BY <1>0, <2>1, <3>1, <3>2 DEF Listing!Page
      <3> QED
        BY <1>0, <3>3 DEF IsPage
    <2>3. \A f \in edits' : f \in edits
      BY <2>1
    <2>4. life = "listening" => \A f \in edits' : IsPage(f)'
      BY <1>0, <2>3 DEF Listed, IsPage, Listing!Page
    <2> QED
      BY <1>0, <2>1, <2>2, <2>3, <2>4 DEF Listed
  <1>3. ASSUME NEW e \in edits, V!Refused(e) PROVE Listed'
    <2>1. life' = life /\ ready' = ready /\ edits' = edits \ {e} /\ shown' = shown
      BY <1>3 DEF V!Refused
    <2>2. life = "listening" => /\ IsPage(shown)' /\ \A f \in edits' : IsPage(f)'
      BY <1>0, <2>1 DEF Listed, IsPage, Listing!Page
    <2> QED
      BY <1>0, <2>1, <2>2 DEF Listed
  <1> QED
    BY <1>1, <1>2, <1>3 DEF Delivered

(* The invariant of a listing: see Browsing. *)
THEOREM BrowsingInvariance == Spec => []Browsing
  <1>1. Init => Browsing
    <2> SUFFICES ASSUME Init PROVE Browsing
      OBVIOUS
    <2>1. pages = <<>> /\ index = 1 /\ asked = "post"
          /\ life = "unsent" /\ ready = <<>> /\ edits = {}
      BY DEF Init, Listing!PagesInit, V!ViewInit
    <2>2. records \in Seq(Sizes) /\ ready \in Seq(Tasks)
      <3>1. records \in UNION {[1..n -> Sizes] : n \in 0..MaxCases}
        BY DEF Init, Listing!PagesInit
      <3>2. PICK n \in 0..MaxCases : records \in [1..n -> Sizes]
        BY <3>1
      <3> QED
        BY <2>1, <3>2
    <2> QED
      BY <2>1, <2>2 DEF Browsing, Listed
  <1>2. Browsing /\ [Next]_vars => Browsing'
    <2> SUFFICES ASSUME Browsing, [Next]_vars PROVE Browsing'
      OBVIOUS
    <2>0. kind' = kind
      BY DEF Next, TriviaStep, ListingStep, ChannelStep, TimerFires, Delivery,
             ViewUnchanged, Restart, vars
    <2>1. CASE TriviaStep
      BY <2>0, <2>1 DEF Browsing, TriviaStep, listingVars
    <2>2. CASE ListingStep
      BY <2>0, <2>2, ListingStepListed DEF Browsing, ListingStep
    <2>3. CASE ChannelStep
      BY <2>0, <2>3 DEF Browsing, ChannelStep, listingVars
    <2>4. CASE TimerFires \/ Delivery
      <3>1. UNCHANGED listingVars /\ (V!TimerFires \/ \E e \in edits : Delivered(e))
        BY <2>4 DEF TimerFires, Delivery, ViewUnchanged
      <3>2. CASE kind = "listing"
        BY <2>0, <3>1, <3>2, ViewStepListed DEF Browsing
      <3>3. CASE kind # "listing"
        BY <2>0, <3>1, <3>3 DEF Browsing, listingVars
      <3> QED
        BY <3>2, <3>3
    <2>5. CASE Restart
      <3>1. /\ life' = "stopped" /\ ready' = <<>> /\ edits' = {} /\ asked' = "done"
            /\ records' = records /\ pages' = pages /\ index' = index
        BY <2>5 DEF Restart, V!Forgotten, Listing!PagesRestart
      <3>2. ready' \in Seq(Tasks)
        BY <3>1
      <3> QED
        BY <2>0, <3>1, <3>2 DEF Browsing, Listed, Laid
    <2>6. CASE UNCHANGED vars
      BY <2>0, <2>6 DEF vars, viewVars, listingVars, Browsing, Listed, Laid, IsPage,
                        Listing!Page
    <2> QED
      BY <2>1, <2>2, <2>3, <2>4, <2>5, <2>6 DEF Next
  <1> QED
    BY <1>1, <1>2, PTL DEF Spec

(* Every case of a listing can be read: see EveryCaseReachable. *)
THEOREM CasesReachable == Spec => []EveryCaseReachable
  <1>1. Browsing => EveryCaseReachable
    <2> SUFFICES ASSUME Browsing, pages # <<>> PROVE EveryCaseReachable
      BY DEF EveryCaseReachable, Listing!EveryCaseReachable
    <2>1. Listed /\ Laid
      BY DEF Browsing, Listed
    <2>2. /\ pages \in Seq(Seq(Nat)) /\ Len(pages) \in Nat \ {0}
          /\ Listing!FlattenSeq(pages) = records
          /\ \A i \in DOMAIN pages : Fits(pages[i])
      BY <2>1, LaidOut DEF Listed
    <2>3. ASSUME NEW i \in DOMAIN pages
          PROVE  /\ Len(pages[i]) \in 1..PerPage
                 /\ Title + Listing!SumOf(pages[i]) + Listing!Footer <= Limit
      <3>1. Listing!SumOf(pages[i]) \in Nat /\ Fits(pages[i])
        BY <2>2, SumAppend
      <3> QED
        BY <3>1, PageAssumption, RoomAssumption DEF Fits, Listing!Footer
    <2>4. ASSUME life = "listening"
          PROVE  \E b \in shown.enabled : Listing!Target(b) # shown.text
      <3>1. PICK i \in 1..Len(pages) : shown = Listing!Page(i)
        BY <2>1, <2>4 DEF Listed, IsPage
      <3>2. Len(pages) > 1 /\ index \in 1..Len(pages)
        BY <2>1, <2>4 DEF Listed, Laid
      <3>3. CASE i > 1
        <4>1. "first" \in shown.enabled /\ shown.text = i
          BY <3>1, <3>3 DEF Listing!Page, Listing!Face
        <4>2. Listing!Target("first") = 1
          BY <2>2 DEF Listing!Target, Listing!Clamp
        <4> QED
          BY <3>3, <4>1, <4>2
      <3>4. CASE ~(i > 1)
        <4>0. i = 1
          BY <2>2, <3>4
        <4>1. "last" \in shown.enabled /\ shown.text = 1
          BY <3>1, <3>2, <4>0 DEF Listing!Page, Listing!Face
        <4>2. Listing!Target("last") = Len(pages)
          BY <2>2 DEF Listing!Target, Listing!Clamp
        <4> QED
          BY <2>2, <3>2, <4>1, <4>2
      <3> QED
        BY <3>3, <3>4
    <2> QED
      BY <2>2, <2>3, <2>4 DEF EveryCaseReachable, Listing!EveryCaseReachable
  <1> QED
    BY <1>1, BrowsingInvariance, PTL

-----------------------------------------------------------------------------
(* Music.  Its invariant relates the registered player, its task, the one  *)
(* source that plays and the way its end is told (Players, Sources,        *)
(* Quiet), and what /play has accepted to the voice client it was accepted *)
(* for (Connecting to Outdated).                                           *)

(* A track that no player has been handed has no player named after it. *)
Early  == {"new", "connecting", "resolving", "refused"}
Active == {"starting", "getting", "timedout", "loading", "noticing",
           "announcing", "waiting", "clearing"}

RequestStates == {"new", "connecting", "resolving", "refused", "queued",
                  "played", "failed"}
TaskStates == {"none", "starting", "getting", "timedout", "loading",
               "noticing", "announcing", "waiting", "clearing", "hanging",
               "done"}

(* The registered player is the one whose task is at work, uncancelled. *)
Players ==
  /\ \A t \in Tracks :
       request[t] \in Early => task[t] = "none" /\ t \notin cancelled
  /\ \A p \in Tracks :
       p = registered <=> task[p] \in Active /\ p \notin cancelled

(* The end of a source is told once, and only by a client that is there. *)
Told(p) == p \in callbacks \cup advance

Sources ==
  /\ audio # None => voice \in {"connected", "closing"} /\ ~Told(audio)
  /\ callbacks \cap advance = {}
  /\ \A p \in Tracks : task[p] = "none" => audio # p /\ ~Told(p)

(* A player that is past its track, or has yet to play one, has no source. *)
Quiet ==
  registered # None /\ task[registered] \notin {"announcing", "waiting"} =>
    /\ audio # registered
    /\ registered \notin callbacks
    /\ task[registered] # "clearing" => registered \notin advance

(* One /play connects the client, and one that is not excused has it. *)
Connecting ==
  /\ \A t \in Tracks : request[t] = "connecting" => voice = "connecting"
  /\ \A t, u \in Tracks :
       request[t] = "connecting" /\ request[u] = "connecting" => t = u

Settled ==
  \A t \in Tracks \ excused :
    request[t] \in {"resolving", "queued"} => voice = "connected"

Overtaken == Unsettled => Unplayed \subseteq excused

(* What a player holds was handed to it. *)
Handed ==
  /\ \A p \in Tracks :
       \A i \in DOMAIN queue[p] : request[queue[p][i]] \notin Early
  /\ \A p \in Tracks :
       task[p] = "loading" => /\ track[p] \in Tracks
                              /\ request[track[p]] \notin Early

Outdated ==
  \A p \in stale :
    task[p] = "loading" /\ request[track[p]] = "queued"
      => track[p] \in excused

(* The inductive invariant. *)
MusicInv ==
  /\ TypeOK /\ Players /\ Sources /\ Quiet
  /\ AdvanceComes /\ NoOrphanAudio
  /\ Connecting /\ Settled /\ Overtaken /\ Handed /\ Outdated
  /\ AcceptedIsKept

-----------------------------------------------------------------------------
(* The steps of music, named by what they do. *)

(* A task that has no track, or whose track is to be dropped, goes on. *)
Fetches(p) ==
  /\ task[p] \in {"starting", "clearing", "noticing", "getting", "loading"}
  /\ p \notin cancelled
  /\ task[p] = "loading" => voice # "connected" \/ p \in stale \/ audio # None
  /\ PlayNext(p)
  /\ UNCHANGED stopperVars

(* A source is started on a client that has none. *)
Starts(p) ==
  /\ At(p, "loading")
  /\ p \notin stale
  /\ audio = None /\ voice \in {"connected", "closing"}
  /\ audio' = p
  /\ request' = [request EXCEPT ![track[p]] = "played"]
  /\ Becomes(p, "announcing")
  /\ UNCHANGED <<registered, track, queue, advance, stale, voice, callbacks,
                 left, stopperVars, excused>>

Forgets ==
  /\ left' \in BOOLEAN
  /\ UNCHANGED <<request, registered, playerVars, voice, audio,
                 callbacks, stopperVars, excused>>

(* The other steps, by what they touch: /play up to its track, a task that *)
(* goes on with what it has or that ends, and the client.                  *)
Asks(t)     == Play(t) \/ Connect(t) \/ ResolveFails(t)
Proceeds(p) == \/ LoadFails(p) \/ Announce(p) \/ Advance(p)
               \/ Unwind(p) \/ AfterPlay(p)
GivesUp(p)  == IdleTimer(p) \/ TimedOut(p) \/ Crash(p)
Stops(s)    == \/ Stopped(s)
               \/ \E event \in BOOLEAN : StopPlayer(s, event)
VoiceStep   == HungUp \/ Kicked \/ TrackEnds \/ Forgets

MusicStep ==
  \/ \E t \in Tracks : Asks(t) \/ Resolve(t)
  \/ \E p \in Tracks : Fetches(p) \/ Starts(p) \/ Proceeds(p) \/ GivesUp(p)
  \/ \E s \in Stoppers : Stops(s)
  \/ VoiceStep

(* Every step is one of these. *)
LEMMA MusicSteps ==
  ASSUME TypeOK, Players, Quiet, [MusicNext]_musicVars
  PROVE  MusicStep
<1>1. CASE UNCHANGED musicVars
  BY <1>1 DEF MusicStep, VoiceStep, Forgets, TypeOK, musicVars, voiceVars
<1>2. ASSUME NEW t \in Tracks, Play(t) \/ Connect(t) \/ Resolve(t)
               \/ ResolveFails(t)
      PROVE  MusicStep
  BY <1>2 DEF MusicStep, Asks
<1>3. ASSUME NEW p \in Tracks, PlayerStep(p)
      PROVE  MusicStep
  <2>1. CASE Run(p)
    <3>1. Fetches(p)
      BY <2>1 DEF Run, Fetches, At
    <3> QED BY <3>1 DEF MusicStep
  <2>2. CASE Get(p)
    <3>1. p = registered /\ p # None
      BY <2>2, NoneAssumption DEF Get, At, Players, Active
    <3>2. p \notin advance
      BY <2>2, <3>1 DEF Get, At, Quiet
    <3>3. advance' = advance \ {p}
      BY <2>2, <3>2 DEF Get
    <3>4. Fetches(p)
      BY <2>2, <3>3 DEF Get, Fetches, At, PlayNext
    <3> QED BY <3>4 DEF MusicStep
  <2>3. CASE Load(p)
    <3>1. Fetches(p) \/ Starts(p)
      BY <2>3 DEF Load, Fetches, Starts, At, stopperVars
    <3> QED BY <3>1 DEF MusicStep
  <2>4. CASE ~(Run(p) \/ Get(p) \/ Load(p))
    BY <1>3, <2>4 DEF PlayerStep, MusicStep, Proceeds, GivesUp
  <2> QED BY <2>1, <2>2, <2>3, <2>4
<1>4. ASSUME NEW s \in Stoppers, Stop(s) \/ ChannelEmpties(s) \/ BotLeft(s)
               \/ Stopped(s)
      PROVE  MusicStep
  <2>1. left \in BOOLEAN
    BY DEF TypeOK
  <2>2. CASE Stop(s)
    BY <2>1, <2>2 DEF Stop, MusicStep, Stops
  <2>3. CASE ChannelEmpties(s)
    BY <2>1, <2>3 DEF ChannelEmpties, MusicStep, Stops
  <2>4. CASE BotLeft(s)
    BY <2>4 DEF BotLeft, MusicStep, Stops, VoiceStep, Forgets
  <2>5. CASE Stopped(s)
    BY <2>5 DEF MusicStep, Stops
  <2> QED BY <1>4, <2>2, <2>3, <2>4, <2>5
<1>5. CASE HungUp \/ Kicked \/ TrackEnds
  BY <1>5 DEF MusicStep, VoiceStep
<1> QED BY <1>1, <1>2, <1>3, <1>4, <1>5 DEF MusicNext

(* What the queue of a player is after a track is taken, or added. *)
LEMMA Dequeued ==
  ASSUME NEW q \in Seq(Tracks), q # <<>>
  PROVE  /\ Head(q) \in Tracks /\ Head(q) = q[1] /\ 1 \in DOMAIN q
         /\ Tail(q) \in Seq(Tracks) /\ Len(Tail(q)) = Len(q) - 1
         /\ \A i \in DOMAIN Tail(q) : i + 1 \in DOMAIN q
              /\ Tail(q)[i] = q[i + 1]
         /\ \A i \in DOMAIN q : i = 1
              \/ (i - 1 \in DOMAIN Tail(q) /\ Tail(q)[i - 1] = q[i])
  OBVIOUS

LEMMA Enqueued ==
  ASSUME NEW q \in Seq(Tracks), NEW t \in Tracks
  PROVE  /\ Append(q, t) \in Seq(Tracks) /\ Len(Append(q, t)) = Len(q) + 1
         /\ Len(q) + 1 \in DOMAIN Append(q, t) /\ Append(q, t)[Len(q) + 1] = t
         /\ \A i \in DOMAIN q : i \in DOMAIN Append(q, t)
              /\ Append(q, t)[i] = q[i]
         /\ \A i \in DOMAIN Append(q, t) : i = Len(q) + 1 \/ i \in DOMAIN q
         /\ <<t>> \in Seq(Tracks) /\ Len(<<t>>) = 1 /\ <<t>>[1] = t
         /\ DOMAIN <<t>> = {1}
  OBVIOUS

LEMMA Element ==
  ASSUME NEW q \in Seq(Tracks), NEW i \in DOMAIN q
  PROVE  q[i] \in Tracks
  OBVIOUS

LEMMA Requeued ==
  ASSUME TypeOK, NEW p \in Tracks, NEW q \in Seq(Tracks), Len(q) <= MaxQueue,
         queue' = [queue EXCEPT ![p] = q]
  PROVE  /\ queue' \in [Tracks -> Seq(Tracks)] /\ queue'[p] = q
         /\ \A r \in Tracks : Len(queue'[r]) <= MaxQueue
         /\ \A r \in Tracks \ {p} : queue'[r] = queue[r]
  BY DEF TypeOK

(* voice.disconnect changes the client and the /play that awaits it. *)
LEMMA Disconnected ==
  ASSUME TypeOK, NEW event \in BOOLEAN, Disconnect(event)
  PROVE  /\ request' \in [Tracks -> RequestStates]
         /\ voice' \in {"none", "connecting", "connected", "closing"}
         /\ audio' \in Tracks \cup {None}
         /\ callbacks' \in SUBSET Tracks
         /\ left' \in BOOLEAN
         /\ \A t \in Tracks :
              request'[t] = request[t]
                \/ (request[t] = "connecting" /\ request'[t] = "resolving")
  BY DEF TypeOK, RequestStates, Disconnect, AudioStops

(* The end of a task, with the leave it makes the bot take. *)
LEMMA FinishedTyped ==
  ASSUME TypeOK, NEW p \in Tracks, Finished(p)
  PROVE  /\ registered' = None
         /\ task' \in [Tracks -> TaskStates]
         /\ request' \in [Tracks -> RequestStates]
         /\ voice' \in {"none", "connecting", "connected", "closing"}
         /\ audio' \in Tracks \cup {None}
         /\ callbacks' \in SUBSET Tracks
         /\ left' \in BOOLEAN
<1>1. left \in BOOLEAN /\ task \in [Tracks -> TaskStates]
  BY DEF TypeOK, TaskStates
<1>2. Disconnect(left) /\ registered' = None
  BY DEF Finished
<1>3. task' \in [Tracks -> TaskStates]
  BY <1>1 DEF Finished, Becomes, TaskStates
<1> QED BY <1>1, <1>2, <1>3, Disconnected

(* What a fetch finds: nothing to take, a track to load, or no client. *)
LEMMA Fetched ==
  ASSUME TypeOK, NEW p \in Tracks, Fetches(p)
  PROVE  \/ /\ queue[p] = <<>> /\ queue' = queue
            /\ task' = [task EXCEPT ![p] = "getting"]
            /\ track' = [track EXCEPT ![p] = None]
            /\ UNCHANGED <<stale, registered, voiceVars, request,
                           excused>>
         \/ /\ queue[p] # <<>> /\ queue' = [queue EXCEPT ![p] = Tail(@)]
            /\ voice \in {"connected", "closing"}
            /\ task' = [task EXCEPT ![p] = "loading"]
            /\ track' = [track EXCEPT ![p] = Head(queue[p])]
            /\ stale' = stale \ {p}
            /\ UNCHANGED <<registered, voiceVars, request, excused>>
         \/ /\ queue[p] # <<>> /\ queue' = [queue EXCEPT ![p] = Tail(@)]
            /\ voice # "connected" /\ Finished(p)
            /\ excused' = excused \cup Underway
            /\ track' = [track EXCEPT ![p] = None]
            /\ stale' = stale
  BY DEF Fetches, PlayNext, Take, Becomes, Excuse, TypeOK

LEMMA FetchedTyped ==
  ASSUME TypeOK, NEW p \in Tracks, Fetches(p)
  PROVE  /\ task' \in [Tracks -> TaskStates]
         /\ track' \in [Tracks -> Tracks \cup {None}]
         /\ stale' \subseteq stale
         /\ \A r \in Tracks \ {p} : track'[r] = track[r]
              /\ queue'[r] = queue[r]
<1>1. /\ task \in [Tracks -> TaskStates]
      /\ track \in [Tracks -> Tracks \cup {None}]
      /\ queue \in [Tracks -> Seq(Tracks)]
  BY DEF TypeOK, TaskStates
<1>2. queue[p] # <<>> => Head(queue[p]) \in Tracks
  BY <1>1, Dequeued
<1>3. ASSUME NEW state \in {"getting", "loading"},
             task' = [task EXCEPT ![p] = state]
      PROVE  task' \in [Tracks -> TaskStates]
  <2>1. state \in TaskStates
    BY DEF TaskStates
  <2> QED BY <1>1, <1>3, <2>1
<1>4. ASSUME Finished(p)
      PROVE  task' \in [Tracks -> TaskStates]
  BY <1>4, FinishedTyped
<1>5. \/ track' = [track EXCEPT ![p] = None]
      \/ /\ track' = [track EXCEPT ![p] = Head(queue[p])]
         /\ Head(queue[p]) \in Tracks
  BY <1>2, Fetched
<1>6. \/ queue' = queue
      \/ queue' = [queue EXCEPT ![p] = Tail(queue[p])]
  BY Fetched
<1>7. stale' \subseteq stale
  BY Fetched
<1>8. task' \in [Tracks -> TaskStates]
  BY <1>3, <1>4, Fetched
<1>9. /\ track' \in [Tracks -> Tracks \cup {None}]
      /\ \A r \in Tracks \ {p} : track'[r] = track[r]
  BY <1>1, <1>5
<1>10. \A r \in Tracks \ {p} : queue'[r] = queue[r]
  BY <1>1, <1>6
<1> QED BY <1>7, <1>8, <1>9, <1>10

(* The task that fetches is that of the registered player. *)
LEMMA FetchedBy ==
  ASSUME TypeOK, Players, NEW p \in Tracks, Fetches(p)
  PROVE  /\ p = registered /\ p # None /\ p \notin cancelled
         /\ advance' = advance \ {p}
         /\ UNCHANGED <<stopper, victim, cancelled>>
         /\ \A q \in Tracks \ {p} : task'[q] = task[q]
         /\ \/ /\ task'[p] \in {"getting", "loading"}
               /\ UNCHANGED <<registered, voice, audio, callbacks, left,
                              request, excused>>
            \/ /\ task'[p] \in {"hanging", "done"} /\ voice # "connected"
               /\ Finished(p) /\ excused' = excused \cup Underway
<1>1. p = registered /\ p # None /\ p \notin cancelled
  BY NoneAssumption DEF Fetches, Players, Active
<1>2. /\ advance' = advance \ {p}
      /\ UNCHANGED <<stopper, victim, cancelled>>
  BY DEF Fetches, PlayNext, stopperVars
<1>3. task \in [Tracks -> TaskStates]
  BY DEF TypeOK, TaskStates
<1>4. ASSUME Finished(p)
      PROVE  task'[p] \in {"hanging", "done"}
               /\ \A q \in Tracks \ {p} : task'[q] = task[q]
  BY <1>3, <1>4 DEF Finished, Becomes
<1> QED BY <1>1, <1>2, <1>3, <1>4, Fetched DEF voiceVars

-----------------------------------------------------------------------------
(* Types. *)

LEMMA TypeKept ==
  ASSUME TypeOK, MusicStep
  PROVE  TypeOK'
<1>1. ASSUME NEW t \in Tracks, Asks(t)
      PROVE  TypeOK'
  <2>1. request' \in [Tracks -> RequestStates]
    <3>1. CASE Play(t)
      BY <3>1
         DEF Play, TypeOK, RequestStates, playerVars, voiceVars, stopperVars,
             beyondTask
    <3>2. CASE Connect(t)
      BY <3>2 DEF Connect, TypeOK, RequestStates
    <3>3. CASE ResolveFails(t)
      BY <3>3 DEF ResolveFails, TypeOK, RequestStates
    <3> QED BY <1>1, <3>1, <3>2, <3>3 DEF Asks
  <2>2. voice' \in {"none", "connecting", "connected", "closing"}
    BY <1>1 DEF Asks, Play, Connect, ResolveFails, TypeOK, voiceVars
  <2>3. excused' \in SUBSET Tracks
    BY <1>1 DEF Asks, Play, Connect, ResolveFails, Excuse, TypeOK
  <2> QED BY <1>1, <2>1, <2>2, <2>3
             DEF Asks, Play, Connect, ResolveFails, TypeOK, RequestStates,
                 playerVars, voiceVars, stopperVars
<1>2. ASSUME NEW t \in Tracks, Resolve(t)
      PROVE  TypeOK'
  <2>1. CASE registered = None
    <3>1. queue' = [queue EXCEPT ![t] = <<t>>]
      BY <1>2, <2>1 DEF Resolve, Enqueue
    <3>2. 1 <= MaxQueue
      BY QueueAssumption
    <3>3. queue' \in [Tracks -> Seq(Tracks)]
            /\ \A r \in Tracks : Len(queue'[r]) <= MaxQueue
      BY <3>1, <3>2, Requeued, Enqueued DEF TypeOK
    <3>4. request' \in [Tracks -> RequestStates]
            /\ task' \in [Tracks -> TaskStates]
      BY <1>2, <2>1
         DEF Resolve, Enqueue, Becomes, TaskStates, TypeOK, RequestStates
    <3> QED BY <1>2, <2>1, <3>3, <3>4
               DEF Resolve, Enqueue, TaskStates, TypeOK, RequestStates,
                   voiceVars, stopperVars
  <2>2. CASE registered # None /\ ~Full(registered)
    <3>1. queue' = [queue EXCEPT ![registered] = Append(queue[registered], t)]
      BY <1>2, <2>2 DEF Resolve, Enqueue
    <3>2. registered \in Tracks /\ queue[registered] \in Seq(Tracks)
      BY <2>2 DEF TypeOK
    <3>3. Len(queue[registered]) + 1 <= MaxQueue
      BY <2>2, <3>2, QueueAssumption DEF Full
    <3>4. queue' \in [Tracks -> Seq(Tracks)]
            /\ \A r \in Tracks : Len(queue'[r]) <= MaxQueue
      BY <3>1, <3>2, <3>3, Requeued, Enqueued DEF TypeOK
    <3>5. request' \in [Tracks -> RequestStates] /\ excused' \in SUBSET Tracks
      BY <1>2, <2>2 DEF Resolve, Enqueue, Excuse, TypeOK, RequestStates
    <3>6. UNCHANGED <<registered, task, track, advance, stale, voiceVars,
                      stopperVars>>
      BY <1>2, <2>2 DEF Resolve, Enqueue
    <3> QED BY <3>4, <3>5, <3>6
               DEF TypeOK, RequestStates, voiceVars, stopperVars
  <2>3. CASE registered # None /\ Full(registered)
    <3>1. request' \in [Tracks -> RequestStates]
      BY <1>2, <2>3 DEF Resolve, Enqueue, TypeOK, RequestStates
    <3>2. UNCHANGED <<registered, task, track, queue, advance, stale, voiceVars,
                      stopperVars, excused>>
      BY <1>2, <2>3 DEF Resolve, Enqueue
    <3> QED BY <3>1, <3>2 DEF TypeOK, RequestStates, voiceVars, stopperVars
  <2> QED BY <2>1, <2>2, <2>3
<1>3. ASSUME NEW p \in Tracks, Fetches(p)
      PROVE  TypeOK'
  <2>1. /\ advance' = advance \ {p}
        /\ UNCHANGED <<stopper, victim, cancelled>>
    BY <1>3 DEF Fetches, PlayNext, stopperVars
  <2>2. queue' \in [Tracks -> Seq(Tracks)]
          /\ \A r \in Tracks : Len(queue'[r]) <= MaxQueue
    <3>1. CASE queue' = queue
      BY <3>1 DEF TypeOK
    <3>2. CASE /\ queue[p] # <<>>
               /\ queue' = [queue EXCEPT ![p] = Tail(queue[p])]
      <4>1. queue[p] \in Seq(Tracks) /\ Len(queue[p]) <= MaxQueue
              /\ MaxQueue \in Nat
        BY QueueAssumption DEF TypeOK
      <4>2. Tail(queue[p]) \in Seq(Tracks) /\ Len(Tail(queue[p])) <= MaxQueue
        BY <3>2, <4>1, Dequeued
      <4> QED BY <3>2, <4>2, Requeued
    <3> QED BY <1>3, <3>1, <3>2, Fetched
  <2>3. CASE UNCHANGED <<registered, voiceVars, request, excused>>
    <3>1. /\ stale' \in SUBSET Tracks /\ task' \in [Tracks -> TaskStates]
          /\ track' \in [Tracks -> Tracks \cup {None}]
      BY <1>3, FetchedTyped DEF TypeOK
    <3> QED BY <2>1, <2>2, <2>3, <3>1 DEF TaskStates, TypeOK, voiceVars
  <2>4. CASE /\ Finished(p) /\ excused' = excused \cup Underway
             /\ stale' = stale /\ track' = [track EXCEPT ![p] = None]
    <3>1. excused' \in SUBSET Tracks
      BY <2>4 DEF Underway, TypeOK
    <3>2. track' \in [Tracks -> Tracks \cup {None}]
            /\ advance' \in SUBSET Tracks
      BY <2>1, <2>4 DEF TypeOK
    <3>3. /\ registered' = None
          /\ task' \in [Tracks -> TaskStates]
          /\ request' \in [Tracks -> RequestStates]
          /\ voice' \in {"none", "connecting", "connected", "closing"}
          /\ audio' \in Tracks \cup {None}
          /\ callbacks' \in SUBSET Tracks
          /\ left' \in BOOLEAN
      BY <2>4, FinishedTyped
    <3> QED BY <2>1, <2>2, <2>4, <3>1, <3>2, <3>3
               DEF TaskStates, TypeOK, RequestStates
  <2> QED BY <1>3, <2>3, <2>4, Fetched
<1>4. ASSUME NEW p \in Tracks, Starts(p) \/ Proceeds(p)
      PROVE  TypeOK'
  <2>1. request' \in [Tracks -> RequestStates]
          /\ task' \in [Tracks -> TaskStates]
    BY <1>4
       DEF Starts, Proceeds, LoadFails, Announce, Advance, Unwind, AfterPlay,
           Becomes, TaskStates, TypeOK, RequestStates
  <2>2. advance' \in SUBSET Tracks /\ callbacks' \in SUBSET Tracks
    BY <1>4
       DEF Starts, Proceeds, LoadFails, Announce, Advance, Unwind, AfterPlay,
           TypeOK, voiceVars, beyondTask
  <2>3. audio' \in Tracks \cup {None}
    BY <1>4
       DEF Starts, Proceeds, LoadFails, Announce, Advance, Unwind, AfterPlay,
           TypeOK, voiceVars, beyondTask
  <2> QED BY <1>4, <2>1, <2>2, <2>3
             DEF Starts, Proceeds, LoadFails, Announce, Advance, Unwind,
                 AfterPlay, TaskStates, TypeOK, RequestStates, voiceVars,
                 stopperVars, beyondTask
<1>5. ASSUME NEW p \in Tracks, IdleTimer(p)
      PROVE  TypeOK'
  <2>1. excused' \in SUBSET Tracks
    BY <1>5 DEF IdleTimer, Excuse, TypeOK
  <2> QED BY <1>5, <2>1
             DEF IdleTimer, Becomes, TypeOK, voiceVars, stopperVars,
                 beyondTask
<1>6. ASSUME NEW p \in Tracks, TimedOut(p) \/ Crash(p)
      PROVE  TypeOK'
  <2>1. Finished(p) /\ excused' \in SUBSET Tracks
    BY <1>6 DEF TimedOut, Crash, Excuse, Unplayed, Underway, TypeOK
  <2>2. /\ registered' = None
        /\ task' \in [Tracks -> TaskStates]
        /\ request' \in [Tracks -> RequestStates]
        /\ voice' \in {"none", "connecting", "connected", "closing"}
        /\ audio' \in Tracks \cup {None}
        /\ callbacks' \in SUBSET Tracks
        /\ left' \in BOOLEAN
    BY <2>1, FinishedTyped
  <2> QED BY <1>6, <2>1, <2>2
             DEF TimedOut, Crash, TaskStates, TypeOK, RequestStates,
                 stopperVars
<1>7. ASSUME NEW s \in Stoppers, NEW event \in BOOLEAN, StopPlayer(s, event)
      PROVE  TypeOK'
  <2>1. excused' \in SUBSET Tracks
    BY <1>7 DEF StopPlayer, Excuse, Unplayed, Underway, TypeOK
  <2>2. CASE registered # None
    <3>1. queue' = [queue EXCEPT ![registered] = <<>>]
            /\ registered \in Tracks
      BY <1>7, <2>2 DEF StopPlayer, TypeOK
    <3>2. <<>> \in Seq(Tracks) /\ Len(<<>>) <= MaxQueue
      BY QueueAssumption
    <3>3. queue' \in [Tracks -> Seq(Tracks)]
            /\ \A r \in Tracks : Len(queue'[r]) <= MaxQueue
      BY <3>1, <3>2, Requeued
    <3>4. cancelled' \in SUBSET Tracks /\ left' \in BOOLEAN
      BY <1>7, <2>2 DEF StopPlayer, TypeOK
    <3>5. /\ stopper' \in [Stoppers -> {"idle", "stopping", "leaving"}]
          /\ victim' \in [Stoppers -> Tracks \cup {None}]
      BY <1>7, <2>2 DEF StopPlayer, TypeOK
    <3>6. /\ registered' = None
          /\ UNCHANGED <<task, track, advance, stale, voice, audio, callbacks,
                         request>>
      BY <1>7, <2>2 DEF StopPlayer
    <3> QED BY <2>1, <3>3, <3>4, <3>5, <3>6 DEF TypeOK
  <2>3. CASE registered = None
    <3>1. Leave(s, event)
      BY <1>7, <2>3 DEF StopPlayer
    <3> QED BY <1>7, <2>1, <2>3, <3>1, Disconnected
               DEF StopPlayer, Leave, TypeOK
  <2> QED BY <2>2, <2>3
<1>8. ASSUME NEW s \in Stoppers, Stopped(s)
      PROVE  TypeOK'
  <2>1. Leave(s, left) /\ left \in BOOLEAN
    BY <1>8 DEF Stopped, TypeOK
  <2> QED BY <1>8, <2>1, Disconnected DEF Stopped, Leave, TypeOK, playerVars
<1>9. CASE VoiceStep
  <2>1. CASE HungUp
    BY <2>1 DEF HungUp, AudioStops, TypeOK
  <2>2. CASE Kicked
    BY <2>2
       DEF Kicked, AudioStops, Excuse, Unplayed, Underway, TypeOK, playerVars,
           stopperVars
  <2>3. CASE TrackEnds \/ Forgets
    BY <2>3
       DEF TrackEnds, Forgets, AudioStops, TypeOK, playerVars, stopperVars
  <2> QED BY <1>9, <2>1, <2>2, <2>3 DEF VoiceStep
<1> QED BY <1>1, <1>2, <1>3, <1>4, <1>5, <1>6, <1>7, <1>8, <1>9
           DEF MusicStep, GivesUp, Stops

(* A /play that was handed over is never back at its lookup. *)
LEMMA NeverBack ==
  ASSUME TypeOK, Players, MusicStep, NEW t \in Tracks, request[t] \notin Early
  PROVE  request'[t] \notin Early
<1>1. CASE \E u \in Tracks : Asks(u) \/ Resolve(u)
  BY <1>1
     DEF Asks, Play, Connect, Resolve, Enqueue, ResolveFails, TypeOK, Early
<1>2. CASE \E p \in Tracks : Fetches(p)
  <2>1. PICK p \in Tracks : Fetches(p)
    BY <1>2
  <2>2. CASE Finished(p)
    BY <2>2, Disconnected DEF Finished, TypeOK, Early
  <2>3. CASE request' = request
    BY <2>3
  <2> QED BY <2>1, <2>2, <2>3, FetchedBy
<1>3. CASE \E p \in Tracks : Starts(p) \/ IdleTimer(p) \/ Proceeds(p)
  BY <1>3
     DEF Starts, Proceeds, IdleTimer, LoadFails, Announce, Advance, Unwind,
         AfterPlay, TypeOK, Early
<1>4. CASE \E p \in Tracks : TimedOut(p) \/ Crash(p)
  BY <1>4, Disconnected DEF TimedOut, Crash, Finished, TypeOK, Early
<1>5. CASE \E s \in Stoppers : Stops(s)
  <2>1. request' = request \/ \E event \in BOOLEAN : Disconnect(event)
    BY <1>5 DEF Stops, Stopped, StopPlayer, Leave, TypeOK
  <2> QED BY <2>1, Disconnected DEF Early
<1>6. CASE VoiceStep
  BY <1>6 DEF VoiceStep, HungUp, Kicked, TrackEnds, Forgets
<1> QED BY <1>1, <1>2, <1>3, <1>4, <1>5, <1>6 DEF MusicStep, GivesUp

(* A queue, and a task that loads, only hold what /play handed over. *)
LEMMA HandedKept ==
  ASSUME TypeOK, Players, Handed, MusicStep
  PROVE  Handed'
<1>1. \A t \in Tracks : request[t] \notin Early => request'[t] \notin Early
  BY NeverBack
<1>2. \A p \in Tracks : queue[p] \in Seq(Tracks)
        /\ \A i \in DOMAIN queue[p] : queue[p][i] \in Tracks
  BY Element DEF TypeOK
<1>3. ASSUME UNCHANGED <<queue, track>>,
             \A p \in Tracks : task'[p] = "loading" => task[p] = "loading"
      PROVE  Handed'
  BY <1>1, <1>2, <1>3 DEF Handed
<1>4. ASSUME NEW t \in Tracks, Resolve(t)
      PROVE  Handed'
  <2>1. /\ UNCHANGED track
        /\ \A p \in Tracks : task'[p] = "loading" => task[p] = "loading"
    BY <1>4 DEF Resolve, Enqueue, Becomes, TypeOK
  <2>2. CASE UNCHANGED queue
    BY <1>3, <2>1, <2>2
  <2>3. CASE registered = None
    <3>1. request'[t] \notin Early
      BY <1>4, <2>3 DEF Resolve, Enqueue, TypeOK, Early
    <3>2. \A p \in Tracks : queue'[p] = IF p = t THEN <<t>> ELSE queue[p]
      BY <1>4, <2>3 DEF Resolve, Enqueue, TypeOK
    <3> QED BY <1>1, <1>2, <2>1, <3>1, <3>2 DEF Handed
  <2>4. CASE registered # None /\ ~Full(registered)
    <3>1. request'[t] \notin Early
      BY <1>4, <2>4 DEF Resolve, Enqueue, TypeOK, Early
    <3>2. \A p \in Tracks :
            queue'[p] = IF p = registered THEN Append(queue[p], t)
                                          ELSE queue[p]
      <4>1. queue' = [queue EXCEPT ![registered] = Append(queue[registered], t)]
        BY <1>4, <2>4 DEF Resolve, Enqueue
      <4>2. registered \in Tracks /\ queue \in [Tracks -> Seq(Tracks)]
        BY <2>4 DEF TypeOK
      <4> QED BY <4>1, <4>2
    <3>3. ASSUME NEW p \in Tracks, NEW i \in DOMAIN queue'[p]
          PROVE  request'[queue'[p][i]] \notin Early
      <4>1. CASE p = registered
        <5>1. queue'[p] = Append(queue[p], t) /\ queue[p] \in Seq(Tracks)
          BY <1>2, <3>2, <4>1
        <5>2. queue'[p][i] = t
                \/ (i \in DOMAIN queue[p] /\ queue'[p][i] = queue[p][i])
          BY <3>3, <5>1, Enqueued
        <5> QED BY <1>1, <1>2, <3>1, <5>2 DEF Handed
      <4>2. CASE p # registered
        BY <1>1, <1>2, <3>2, <3>3, <4>2 DEF Handed
      <4> QED BY <4>1, <4>2
    <3> QED BY <1>1, <2>1, <3>3 DEF Handed
  <2> QED BY <1>4, <2>2, <2>3, <2>4 DEF Resolve, Enqueue
<1>5. ASSUME NEW p \in Tracks, Fetches(p)
      PROVE  Handed'
  <2>1. \A r \in Tracks \ {p} : task'[r] = task[r]
    BY <1>5, FetchedBy
  <2>2. \A r \in Tracks \ {p} : track'[r] = track[r] /\ queue'[r] = queue[r]
    BY <1>5, FetchedTyped
  <2>3. CASE queue[p] = <<>>
    <3>1. queue'[p] = queue[p] /\ task'[p] # "loading"
      BY <1>5, <2>3, Fetched DEF TypeOK
    <3> QED BY <1>1, <1>2, <2>1, <2>2, <3>1 DEF Handed
  <2>4. CASE queue[p] # <<>>
    <3>1. queue'[p] = Tail(queue[p])
      BY <1>5, <2>4, Fetched DEF TypeOK
    <3>2. task'[p] = "loading" => track'[p] = Head(queue[p])
      <4>1. Finished(p) => task'[p] # "loading"
        BY DEF Finished, Becomes, TypeOK
      <4> QED BY <1>5, <2>4, <4>1, Fetched DEF TypeOK
    <3>3. \A i \in DOMAIN queue'[p] : request'[queue'[p][i]] \notin Early
      BY <1>1, <1>2, <2>4, <3>1, Dequeued DEF Handed
    <3>4. task'[p] = "loading"
            => track'[p] \in Tracks /\ request'[track'[p]] \notin Early
      BY <1>1, <1>2, <2>4, <3>2, Dequeued DEF Handed
    <3> QED BY <1>1, <1>2, <2>1, <2>2, <3>3, <3>4 DEF Handed
  <2> QED BY <2>3, <2>4
<1>6. ASSUME NEW s \in Stoppers, NEW event \in BOOLEAN, StopPlayer(s, event),
             registered # None
      PROVE  Handed'
  <2>1. /\ UNCHANGED <<task, track>>
        /\ \A p \in Tracks :
             queue'[p] = IF p = registered THEN <<>> ELSE queue[p]
    BY <1>6 DEF StopPlayer, TypeOK
  <2> QED BY <1>1, <1>2, <2>1 DEF Handed
<1>7. CASE \E t \in Tracks : Asks(t)
  BY <1>3, <1>7 DEF Asks, Play, Connect, ResolveFails, playerVars
<1>8. CASE \E p \in Tracks : Starts(p) \/ IdleTimer(p) \/ Proceeds(p)
  <2>1. UNCHANGED <<queue, track>> /\ \A p \in Tracks : task'[p] = "loading"
          => task[p] = "loading"
    BY <1>8
       DEF Starts, Proceeds, IdleTimer, LoadFails, Announce, Advance, Unwind,
           AfterPlay, Becomes, beyondTask, TypeOK
  <2> QED BY <1>3, <2>1
<1>9. CASE \E p \in Tracks : TimedOut(p) \/ Crash(p)
  <2>1. UNCHANGED <<queue, track>> /\ \A p \in Tracks : task'[p] = "loading"
          => task[p] = "loading"
    BY <1>9 DEF TimedOut, Crash, Finished, Becomes, TypeOK
  <2> QED BY <1>3, <2>1
<1>10. CASE \E s \in Stoppers :
              Stopped(s) \/ \E event \in BOOLEAN : StopPlayer(s, event)
                /\ registered = None
  BY <1>3, <1>10 DEF Stopped, StopPlayer, Leave, playerVars
<1>11. CASE VoiceStep
  <2>1. UNCHANGED <<queue, track>> /\ \A p \in Tracks : task'[p] = "loading"
          => task[p] = "loading"
    BY <1>11 DEF VoiceStep, HungUp, Kicked, TrackEnds, Forgets, playerVars
  <2> QED BY <1>3, <2>1
<1> QED BY <1>4, <1>5, <1>6, <1>7, <1>8, <1>9, <1>10, <1>11
           DEF MusicStep, GivesUp, Stops

(* A task is at work while its player is registered, and cancelled with it. *)
LEMMA PlayersKept ==
  ASSUME TypeOK, Players, MusicStep
  PROVE  Players'
<1>1. ASSUME NEW t \in Tracks, Asks(t)
      PROVE  Players'
  <2>1. /\ \A q \in Tracks : request'[q] \in Early => request[q] \in Early
        /\ UNCHANGED <<task, registered, cancelled>>
    BY <1>1
       DEF Asks, Play, Connect, ResolveFails, TypeOK, Early, playerVars,
           stopperVars
  <2> QED BY <2>1 DEF Players
<1>2. ASSUME NEW t \in Tracks, Resolve(t)
      PROVE  Players'
  <2>1. request \in [Tracks -> RequestStates]
          /\ task \in [Tracks -> TaskStates]
    BY DEF TypeOK, RequestStates, TaskStates
  <2>2. CASE registered = None
    <3>1. /\ request' = [request EXCEPT ![t] = "queued"]
          /\ task' = [task EXCEPT ![t] = "starting"]
          /\ registered' = t /\ cancelled' = cancelled
      BY <1>2, <2>2 DEF Resolve, Enqueue, Becomes, stopperVars
    <3>2. task[t] = "none" /\ t \notin cancelled
      BY <1>2 DEF Resolve, Players, Early
    <3>3. \A q \in Tracks \ {t} : request'[q] = request[q]
            /\ task'[q] = task[q]
      BY <3>1, <2>1
    <3>4. request'[t] = "queued" /\ task'[t] = "starting"
      BY <3>1, <2>1
    <3> QED BY <2>2, <3>1, <3>2, <3>3, <3>4, NoneAssumption
               DEF Players, Early, Active
  <2>3. CASE registered # None
    <3>1. /\ request' = [request EXCEPT ![t] = request'[t]]
               /\ request'[t] \in {"queued", "refused"}
          /\ UNCHANGED <<task, registered, cancelled>>
      BY <1>2, <2>1, <2>3 DEF Resolve, Enqueue, stopperVars
    <3> QED BY <1>2, <2>1, <3>1 DEF Resolve, Players, Early
  <2> QED BY <2>2, <2>3
<1>3. ASSUME NEW p \in Tracks, Fetches(p)
      PROVE  Players'
  <2>1. /\ p = registered /\ p # None /\ p \notin cancelled
        /\ cancelled' = cancelled
             /\ \A q \in Tracks \ {p} : task'[q] = task[q]
    BY <1>3, FetchedBy
  <2>2. CASE UNCHANGED <<registered, request>>
               /\ task'[p] \in {"getting", "loading"}
    BY <2>1, <2>2 DEF Players, Active
  <2>3. CASE Finished(p) /\ task'[p] \in {"hanging", "done"}
    <3>1. left \in BOOLEAN
      BY DEF TypeOK
    <3>2. \A t \in Tracks : request'[t] \in Early => request[t] \in Early
      BY <2>3, <3>1, Disconnected DEF Finished, Early
    <3> QED BY <2>1, <2>3, <3>2, NoneAssumption DEF Finished, Players, Active
  <2> QED BY <1>3, <2>2, <2>3, FetchedBy
<1>4. ASSUME NEW p \in Tracks, Starts(p)
      PROVE  Players'
  <2>1. /\ \A q \in Tracks : request'[q] \in Early => request[q] \in Early
        /\ \A q \in Tracks : \/ task'[q] \in Active /\ task[q] \in Active
                            \/ task'[q] = task[q]
        /\ UNCHANGED <<registered, cancelled>>
    BY <1>4 DEF Starts, Early, Active, Becomes, At, stopperVars
  <2>2. \A q \in Tracks : task[q] = "none" => task'[q] = "none"
    BY <1>4 DEF Starts, Becomes, At
  <2> QED BY <2>1, <2>2 DEF Players
<1>5. ASSUME NEW p \in Tracks, Proceeds(p)
      PROVE  Players'
  <2>1. CASE Unwind(p)
    BY <2>1 DEF Unwind, Players, Becomes, stopperVars, beyondTask
  <2>2. CASE ~Unwind(p)
    <3>1. UNCHANGED <<registered, cancelled>>
            /\ \A q \in Tracks : request'[q] \in Early => request[q] \in Early
      BY <1>5, <2>2
         DEF Proceeds, LoadFails, Announce, Advance, AfterPlay, TypeOK, Early,
             stopperVars, beyondTask
    <3>2. \A q \in Tracks : \/ task'[q] \in Active /\ task[q] \in Active
                           \/ task'[q] = task[q]
      BY <1>5, <2>2
         DEF Proceeds, LoadFails, Announce, Advance, AfterPlay, TypeOK,
             Active, Becomes, At
    <3> QED BY <3>1, <3>2 DEF Players, Active
  <2> QED BY <2>1, <2>2
<1>6. ASSUME NEW p \in Tracks, GivesUp(p)
      PROVE  Players'
  <2>1. \A q \in Tracks \ {p} : task'[q] = task[q]
    BY <1>6 DEF GivesUp, IdleTimer, TimedOut, Crash, Finished, TypeOK, Becomes
  <2>2. p = registered /\ p # None /\ cancelled' = cancelled
    BY <1>6, NoneAssumption
       DEF GivesUp, IdleTimer, TimedOut, Crash, Players, Active, At,
           stopperVars, beyondTask
  <2>3. CASE IdleTimer(p)
    BY <2>1, <2>2, <2>3 DEF IdleTimer, Players, Active, Becomes, beyondTask
  <2>4. CASE TimedOut(p) \/ Crash(p)
    <3>1. Finished(p) /\ left \in BOOLEAN
      BY <2>4 DEF TimedOut, Crash, TypeOK
    <3>2. registered' = None /\ task'[p] \in {"hanging", "done"}
      BY <3>1 DEF Finished, TypeOK, Becomes
    <3>3. \A t \in Tracks : request'[t] \in Early => request[t] \in Early
      BY <3>1, Disconnected DEF Finished, Early
    <3> QED BY <2>1, <2>2, <3>2, <3>3, NoneAssumption DEF Players, Active
  <2> QED BY <1>6, <2>3, <2>4 DEF GivesUp
<1>7. ASSUME NEW s \in Stoppers, NEW event \in BOOLEAN, StopPlayer(s, event)
      PROVE  Players'
  <2>1. task' = task /\ registered' = None
    BY <1>7 DEF StopPlayer
  <2>2. CASE registered # None
    BY <1>7, <2>1, <2>2, NoneAssumption DEF StopPlayer, Players, Active
  <2>3. CASE registered = None
    <3>1. Disconnect(event) /\ cancelled' = cancelled
      BY <1>7, <2>3 DEF StopPlayer, Leave
    <3>2. \A t \in Tracks : request'[t] \in Early => request[t] \in Early
      BY <3>1, Disconnected DEF Early
    <3> QED BY <2>1, <2>3, <3>1, <3>2 DEF Players
  <2> QED BY <2>2, <2>3
<1>8. ASSUME NEW s \in Stoppers, Stopped(s)
      PROVE  Players'
  BY <1>8 DEF Stopped, Leave, Disconnect, Players, Early, playerVars
<1>9. CASE VoiceStep
  BY <1>9
     DEF VoiceStep, HungUp, Kicked, TrackEnds, Forgets, Players, Active,
         playerVars, stopperVars
<1> QED BY <1>1, <1>2, <1>3, <1>4, <1>5, <1>6, <1>7, <1>8, <1>9
           DEF MusicStep, Stops

(* The end of a source is told once: AudioStops tells it where it stops. *)
LEMMA SourcesKept ==
  ASSUME TypeOK, Players, Connecting, Sources, Quiet, MusicStep
  PROVE  Sources'
<1>1. ASSUME NEW t \in Tracks, Asks(t)
      PROVE  Sources'
  BY <1>1
     DEF Asks, Play, Connect, ResolveFails, Connecting, Sources, Told,
         playerVars, voiceVars
<1>2. ASSUME NEW t \in Tracks, Resolve(t)
      PROVE  Sources'
  BY <1>2 DEF Resolve, Enqueue, TypeOK, Sources, Told, Becomes, voiceVars
<1>3. ASSUME NEW p \in Tracks, Fetches(p)
      PROVE  Sources'
  <2>1. advance' = advance \ {p} /\ \A q \in Tracks : task'[q] = "none"
          => task[q] = "none"
    BY <1>3, FetchedBy
  <2>2. CASE UNCHANGED <<voice, audio, callbacks>>
    BY <2>1, <2>2 DEF Sources, Told
  <2>3. CASE Finished(p)
    <3>1. UNCHANGED <<audio, callbacks>>
            \/ (audio' = None
                 /\ callbacks' = callbacks \cup ({audio} \ {None}))
      BY <2>3 DEF Finished, Disconnect, AudioStops
    <3>2. audio' # None => voice' \in {"connected", "closing"}
      BY <2>3 DEF Finished, Disconnect, Sources
    <3> QED BY <2>1, <3>1, <3>2, NoneAssumption DEF Sources, Told
  <2> QED BY <1>3, <2>2, <2>3, FetchedBy
<1>4. ASSUME NEW p \in Tracks, Starts(p)
      PROVE  Sources'
  BY <1>4 DEF Starts, Players, Sources, Quiet, Told, Active, Becomes, At
<1>5. ASSUME NEW p \in Tracks, Proceeds(p)
      PROVE  Sources'
  BY <1>5
     DEF Proceeds, LoadFails, Announce, Advance, Unwind, AfterPlay, TypeOK,
         Sources, Told, Becomes, voiceVars, beyondTask
<1>6. ASSUME NEW p \in Tracks, GivesUp(p)
      PROVE  Sources'
  BY <1>6, NoneAssumption
     DEF GivesUp, IdleTimer, TimedOut, Crash, Finished, Disconnect,
         AudioStops, TypeOK, Sources, Told, Becomes, voiceVars, stopperVars,
         beyondTask
<1>7. ASSUME NEW s \in Stoppers, NEW event \in BOOLEAN, StopPlayer(s, event)
      PROVE  Sources'
  BY <1>7, NoneAssumption
     DEF StopPlayer, Leave, Disconnect, AudioStops, Sources, Told
<1>8. ASSUME NEW s \in Stoppers, Stopped(s)
      PROVE  Sources'
  BY <1>8, NoneAssumption
     DEF Stopped, Leave, Disconnect, AudioStops, Sources, Told, playerVars
<1>9. CASE VoiceStep
  BY <1>9, NoneAssumption
     DEF VoiceStep, HungUp, Kicked, TrackEnds, Forgets, AudioStops, Sources,
         Told, playerVars
<1> QED BY <1>1, <1>2, <1>3, <1>4, <1>5, <1>6, <1>7, <1>8, <1>9
           DEF MusicStep, Stops

(* A player waits with its event cleared until its source is started. *)
LEMMA QuietKept ==
  ASSUME TypeOK, Players, Sources, Quiet, MusicStep
  PROVE  Quiet'
<1>1. ASSUME NEW t \in Tracks, Asks(t)
      PROVE  Quiet'
  BY <1>1 DEF Asks, Play, Connect, ResolveFails, Quiet, playerVars, voiceVars
<1>2. ASSUME NEW t \in Tracks, Resolve(t)
      PROVE  Quiet'
  BY <1>2
     DEF Resolve, Enqueue, Players, Sources, Quiet, Told, Early, voiceVars
<1>3. ASSUME NEW p \in Tracks, Fetches(p)
      PROVE  Quiet'
  <2>1. CASE /\ UNCHANGED <<registered, voice, audio, callbacks, left,
                               request, excused>>
             /\ task'[p] \in {"getting", "loading"}
    BY <1>3, <2>1, FetchedBy DEF Fetches, Quiet
  <2>2. CASE voice # "connected" /\ Finished(p)
               /\ excused' = excused \cup Underway
    BY <1>3, <2>2, FetchedBy DEF Finished, Quiet
  <2> QED BY <1>3, <2>1, <2>2, FetchedBy
<1>4. ASSUME NEW p \in Tracks, Starts(p)
      PROVE  Quiet'
  BY <1>4 DEF Starts, TypeOK, Quiet, Becomes
<1>5. ASSUME NEW p \in Tracks, Proceeds(p)
      PROVE  Quiet'
  BY <1>5
     DEF Proceeds, LoadFails, Announce, Advance, Unwind, AfterPlay, TypeOK,
         Players, Sources, Quiet, Told, Becomes, At, voiceVars, beyondTask
<1>6. ASSUME NEW p \in Tracks, GivesUp(p)
      PROVE  Quiet'
  BY <1>6
     DEF GivesUp, IdleTimer, TimedOut, Crash, Finished, Players, Quiet,
         Active, At, voiceVars, beyondTask
<1>7. ASSUME NEW s \in Stoppers, NEW event \in BOOLEAN, StopPlayer(s, event)
      PROVE  Quiet'
  BY <1>7 DEF StopPlayer, Quiet
<1>8. ASSUME NEW s \in Stoppers, Stopped(s)
      PROVE  Quiet'
  BY <1>8 DEF Stopped, Leave, Disconnect, AudioStops, Quiet, playerVars
<1>9. CASE VoiceStep
  BY <1>9
     DEF VoiceStep, HungUp, Kicked, TrackEnds, Forgets, AudioStops, TypeOK,
         Quiet, playerVars
<1> QED BY <1>1, <1>2, <1>3, <1>4, <1>5, <1>6, <1>7, <1>8, <1>9
           DEF MusicStep, Stops

(* What ends a source also sends its callback. *)
LEMMA AdvanceKept ==
  ASSUME TypeOK, Players, Sources, AdvanceComes, MusicStep
  PROVE  AdvanceComes'
<1>1. ASSUME NEW t \in Tracks, Asks(t)
      PROVE  AdvanceComes'
  BY <1>1
     DEF Asks, Play, Connect, ResolveFails, AdvanceComes, At, playerVars,
         voiceVars, stopperVars
<1>2. ASSUME NEW t \in Tracks, Resolve(t)
      PROVE  AdvanceComes'
  BY <1>2
     DEF Resolve, Enqueue, TypeOK, AdvanceComes, Becomes, At, voiceVars,
         stopperVars
<1>3. ASSUME NEW p \in Tracks, Fetches(p)
      PROVE  AdvanceComes'
  <2>1. CASE /\ UNCHANGED <<registered, voice, audio, callbacks, left,
                               request, excused>>
             /\ task'[p] \in {"getting", "loading"}
    BY <1>3, <2>1, FetchedBy DEF AdvanceComes, At
  <2>2. CASE voice # "connected" /\ Finished(p)
               /\ excused' = excused \cup Underway
    BY <1>3, <2>2, FetchedBy DEF Players, AdvanceComes, Active, At
  <2> QED BY <1>3, <2>1, <2>2, FetchedBy
<1>4. ASSUME NEW p \in Tracks, Starts(p)
      PROVE  AdvanceComes'
  BY <1>4, NoneAssumption DEF Starts, AdvanceComes, Becomes, At, stopperVars
<1>5. ASSUME NEW p \in Tracks, Proceeds(p)
      PROVE  AdvanceComes'
  BY <1>5
     DEF Proceeds, LoadFails, Announce, Advance, Unwind, AfterPlay, TypeOK,
         AdvanceComes, Becomes, At, voiceVars, stopperVars, beyondTask
<1>6. ASSUME NEW p \in Tracks, GivesUp(p)
      PROVE  AdvanceComes'
  BY <1>6, NoneAssumption
     DEF GivesUp, IdleTimer, TimedOut, Crash, Finished, TypeOK, Players,
         AdvanceComes, Active, Becomes, At, Excuse, stopperVars, beyondTask
<1>7. ASSUME NEW s \in Stoppers, NEW event \in BOOLEAN, StopPlayer(s, event)
      PROVE  AdvanceComes'
  BY <1>7, NoneAssumption DEF StopPlayer, Players, AdvanceComes, Active, At
<1>8. ASSUME NEW s \in Stoppers, Stopped(s)
      PROVE  AdvanceComes'
  BY <1>8
     DEF Stopped, Leave, Disconnect, AudioStops, AdvanceComes, At, playerVars
<1>9. CASE VoiceStep
  BY <1>9
     DEF VoiceStep, HungUp, Kicked, TrackEnds, Forgets, AudioStops,
         AdvanceComes, At, playerVars, stopperVars
<1> QED BY <1>1, <1>2, <1>3, <1>4, <1>5, <1>6, <1>7, <1>8, <1>9
           DEF MusicStep, Stops

(* A player is taken out by what ends its source, or is about to. *)
LEMMA AudioKept ==
  ASSUME TypeOK, Players, Sources, Connecting, NoOrphanAudio,
         MusicStep
  PROVE  NoOrphanAudio'
<1>1. ASSUME NEW t \in Tracks, Asks(t)
      PROVE  NoOrphanAudio'
  BY <1>1
     DEF Asks, Play, Connect, ResolveFails, Connecting, NoOrphanAudio,
         voiceVars, stopperVars
<1>2. ASSUME NEW t \in Tracks, Resolve(t)
      PROVE  NoOrphanAudio'
  BY <1>2 DEF Resolve, Enqueue, NoOrphanAudio, voiceVars, stopperVars
<1>3. ASSUME NEW p \in Tracks, Fetches(p)
      PROVE  NoOrphanAudio'
  <2>1. CASE /\ UNCHANGED <<registered, voice, audio, callbacks, left,
                               request, excused>>
             /\ task'[p] \in {"getting", "loading"}
    BY <1>3, <2>1, FetchedBy DEF NoOrphanAudio
  <2>2. CASE voice # "connected" /\ Finished(p)
               /\ excused' = excused \cup Underway
    BY <1>3, <2>2, FetchedBy DEF Finished, Disconnect, Sources, NoOrphanAudio
  <2> QED BY <1>3, <2>1, <2>2, FetchedBy
<1>4. ASSUME NEW p \in Tracks, Starts(p)
      PROVE  NoOrphanAudio'
  BY <1>4 DEF Starts, Players, NoOrphanAudio, Active, At
<1>5. ASSUME NEW p \in Tracks, Proceeds(p)
      PROVE  NoOrphanAudio'
  BY <1>5
     DEF Proceeds, LoadFails, Announce, Advance, Unwind, AfterPlay,
         NoOrphanAudio, voiceVars, stopperVars, beyondTask
<1>6. ASSUME NEW p \in Tracks, GivesUp(p)
      PROVE  NoOrphanAudio'
  BY <1>6
     DEF GivesUp, IdleTimer, TimedOut, Crash, Finished, Disconnect, Sources,
         NoOrphanAudio, voiceVars, stopperVars, beyondTask
<1>7. ASSUME NEW s \in Stoppers, NEW event \in BOOLEAN, StopPlayer(s, event)
      PROVE  NoOrphanAudio'
  <2>1. stopper[s] = "idle"
    BY <1>7 DEF StopPlayer
  <2>2. CASE registered # None
    <3>1. /\ stopper' = [stopper EXCEPT ![s] = "stopping"]
          /\ victim' = [victim EXCEPT ![s] = registered]
          /\ voice' = voice /\ audio' = audio
      BY <1>7, <2>2 DEF StopPlayer
    <3>2. /\ stopper'[s] = "stopping" /\ victim'[s] = registered
          /\ \A q \in Stoppers \ {s} : /\ stopper'[q] = stopper[q]
                                     /\ victim'[q] = victim[q]
      BY <1>7, <3>1 DEF TypeOK
    <3> QED BY <1>7, <2>1, <3>1, <3>2 DEF NoOrphanAudio
  <2>3. CASE registered = None
    <3>1. Disconnect(event)
      BY <1>7, <2>3 DEF StopPlayer, Leave
    <3>2. \/ audio' = None
          \/ audio' = audio /\ voice \in {"none", "connecting"}
      BY <3>1 DEF Disconnect, AudioStops
    <3> QED BY <3>2 DEF Sources, NoOrphanAudio
  <2> QED BY <2>2, <2>3
<1>8. ASSUME NEW s \in Stoppers, Stopped(s)
      PROVE  NoOrphanAudio'
  BY <1>8 DEF Stopped, Leave, Disconnect, Sources, NoOrphanAudio
<1>9. CASE VoiceStep
  BY <1>9
     DEF VoiceStep, HungUp, Kicked, TrackEnds, Forgets, AudioStops,
         NoOrphanAudio, stopperVars
<1> QED BY <1>1, <1>2, <1>3, <1>4, <1>5, <1>6, <1>7, <1>8, <1>9
           DEF MusicStep, Stops

(* The library connects one client at a time. *)
LEMMA ConnectingKept ==
  ASSUME TypeOK, Players, Connecting, MusicStep
  PROVE  Connecting'
<1>1. ASSUME NEW t \in Tracks, Asks(t)
      PROVE  Connecting'
  <2>1. CASE Play(t)
    <3>1. CASE request'[t] = "connecting"
      BY <2>1, <3>1 DEF Play, TypeOK, Connecting
    <3>2. CASE request'[t] # "connecting"
      BY <2>1, <3>2 DEF Play, TypeOK, Connecting
    <3> QED BY <3>1, <3>2
  <2>2. CASE Connect(t)
    BY <2>2 DEF Connect, TypeOK, Connecting
  <2>3. CASE ResolveFails(t)
    BY <2>3 DEF ResolveFails, Connecting, voiceVars
  <2> QED BY <1>1, <2>1, <2>2, <2>3 DEF Asks
<1>2. ASSUME NEW t \in Tracks, Resolve(t)
      PROVE  Connecting'
  <2>1. voice' = voice /\ \A q \in Tracks : request'[q] = "connecting"
          => request[q] = "connecting"
    BY <1>2 DEF Resolve, Enqueue, TypeOK, voiceVars
  <2> QED BY <2>1 DEF Connecting
<1>3. ASSUME NEW p \in Tracks, Fetches(p)
      PROVE  Connecting'
  <2>1. CASE /\ UNCHANGED <<registered, voice, audio, callbacks, left,
                               request, excused>>
             /\ task'[p] \in {"getting", "loading"}
    BY <1>3, <2>1, FetchedBy DEF Connecting
  <2>2. CASE voice # "connected" /\ Finished(p)
               /\ excused' = excused \cup Underway
    BY <1>3, <2>2, FetchedBy DEF Finished, Disconnect, Connecting
  <2> QED BY <1>3, <2>1, <2>2, FetchedBy
<1>4. ASSUME NEW p \in Tracks, Starts(p)
      PROVE  Connecting'
  BY <1>4 DEF Starts, Connecting
<1>5. ASSUME NEW p \in Tracks, Proceeds(p)
      PROVE  Connecting'
  BY <1>5
     DEF Proceeds, LoadFails, Announce, Advance, Unwind, AfterPlay, TypeOK,
         Connecting, voiceVars, beyondTask
<1>6. ASSUME NEW p \in Tracks, GivesUp(p)
      PROVE  Connecting'
  BY <1>6
     DEF GivesUp, IdleTimer, TimedOut, Crash, Finished, Disconnect,
         Connecting, voiceVars, beyondTask
<1>7. ASSUME NEW s \in Stoppers, NEW event \in BOOLEAN, StopPlayer(s, event)
      PROVE  Connecting'
  BY <1>7 DEF StopPlayer, Leave, Disconnect, Connecting
<1>8. ASSUME NEW s \in Stoppers, Stopped(s)
      PROVE  Connecting'
  BY <1>8 DEF Stopped, Leave, Disconnect, Connecting
<1>9. CASE VoiceStep
  BY <1>9 DEF VoiceStep, HungUp, Kicked, TrackEnds, Forgets, Connecting
<1> QED BY <1>1, <1>2, <1>3, <1>4, <1>5, <1>6, <1>7, <1>8, <1>9
           DEF MusicStep, Stops

(* Who makes a connected client leave excuses what is unplayed. *)
LEMMA SettledKept ==
  ASSUME TypeOK, Players, Connecting, Settled, Overtaken,
         AcceptedIsKept, MusicStep
  PROVE  Settled'
<1>1. ASSUME NEW t \in Tracks, Asks(t)
      PROVE  Settled'
  BY <1>1
     DEF Asks, Play, Connect, ResolveFails, TypeOK, Connecting, Settled,
         Unsettled, Excuse, voiceVars
<1>2. ASSUME NEW t \in Tracks, Resolve(t)
      PROVE  Settled'
  BY <1>2 DEF Resolve, Enqueue, TypeOK, Settled, Excuse, voiceVars
<1>3. ASSUME NEW p \in Tracks, Fetches(p)
      PROVE  Settled'
  <2>1. CASE /\ UNCHANGED <<registered, voice, audio, callbacks, left,
                               request, excused>>
             /\ task'[p] \in {"getting", "loading"}
    BY <1>3, <2>1, FetchedBy DEF Settled
  <2>2. CASE voice # "connected" /\ Finished(p)
               /\ excused' = excused \cup Underway
    BY <1>3, <2>2, FetchedBy DEF Underway, Finished, Disconnect, Settled
  <2> QED BY <1>3, <2>1, <2>2, FetchedBy
<1>4. ASSUME NEW p \in Tracks, Starts(p)
      PROVE  Settled'
  BY <1>4 DEF Starts, Settled
<1>5. ASSUME NEW p \in Tracks, Proceeds(p)
      PROVE  Settled'
  BY <1>5
     DEF Proceeds, LoadFails, Announce, Advance, Unwind, AfterPlay, TypeOK,
         Settled, voiceVars, beyondTask
<1>6. ASSUME NEW p \in Tracks, GivesUp(p)
      PROVE  Settled'
  BY <1>6
     DEF GivesUp, IdleTimer, TimedOut, Crash, Finished, Disconnect, Players,
         Settled, AcceptedIsKept, Active, Unplayed, Underway, At, Excuse,
         voiceVars, beyondTask
<1>7. ASSUME NEW s \in Stoppers, NEW event \in BOOLEAN, StopPlayer(s, event)
      PROVE  Settled'
  BY <1>7
     DEF StopPlayer, Leave, Disconnect, Settled, Unplayed, Underway, Excuse
<1>8. ASSUME NEW s \in Stoppers, Stopped(s)
      PROVE  Settled'
  BY <1>8
     DEF Stopped, Leave, Disconnect, Settled, Overtaken, Unplayed, Underway,
         Unsettled
<1>9. CASE VoiceStep
  BY <1>9
     DEF VoiceStep, HungUp, Kicked, TrackEnds, Forgets, Settled, Unplayed,
         Underway, Excuse
<1> QED BY <1>1, <1>2, <1>3, <1>4, <1>5, <1>6, <1>7, <1>8, <1>9
           DEF MusicStep, Stops

(* While the bot is leaving, no track is promised. *)
LEMMA OvertakenKept ==
  ASSUME TypeOK, Players, Connecting, Settled, Overtaken,
         AcceptedIsKept, MusicStep
  PROVE  Overtaken'
<1>1. ASSUME NEW t \in Tracks, Asks(t)
      PROVE  Overtaken'
  BY <1>1
     DEF Asks, Play, Connect, ResolveFails, TypeOK, Overtaken, Unplayed,
         Underway, Unsettled, Excuse, voiceVars, stopperVars
<1>2. ASSUME NEW t \in Tracks, Resolve(t)
      PROVE  Overtaken'
  BY <1>2
     DEF Resolve, Enqueue, TypeOK, Overtaken, Unplayed, Underway, Unsettled,
         Excuse, voiceVars, stopperVars
<1>3. ASSUME NEW p \in Tracks, Fetches(p)
      PROVE  Overtaken'
  <2>1. CASE /\ UNCHANGED <<registered, voice, audio, callbacks, left,
                               request, excused>>
             /\ task'[p] \in {"getting", "loading"}
    BY <1>3, <2>1, FetchedBy DEF Overtaken, Unplayed, Underway, Unsettled
  <2>2. CASE voice # "connected" /\ Finished(p)
               /\ excused' = excused \cup Underway
    BY <1>3, <2>2, FetchedBy
       DEF Underway, Finished, Disconnect, Overtaken, Unplayed, Unsettled
  <2> QED BY <1>3, <2>1, <2>2, FetchedBy
<1>4. ASSUME NEW p \in Tracks, Starts(p)
      PROVE  Overtaken'
  BY <1>4 DEF Starts, Overtaken, Unplayed, Underway, Unsettled, stopperVars
<1>5. ASSUME NEW p \in Tracks, Proceeds(p)
      PROVE  Overtaken'
  BY <1>5
     DEF Proceeds, LoadFails, Announce, Advance, Unwind, AfterPlay, TypeOK,
         Overtaken, Unplayed, Underway, Unsettled, voiceVars, stopperVars,
         beyondTask
<1>6. ASSUME NEW p \in Tracks, GivesUp(p)
      PROVE  Overtaken'
  BY <1>6
     DEF GivesUp, IdleTimer, TimedOut, Crash, Finished, Disconnect, Players,
         Overtaken, AcceptedIsKept, Active, Unplayed, Underway, Unsettled, At,
         Excuse, voiceVars, stopperVars, beyondTask
<1>7. ASSUME NEW s \in Stoppers, NEW event \in BOOLEAN, StopPlayer(s, event)
      PROVE  Overtaken'
  BY <1>7
     DEF StopPlayer, Leave, Disconnect, Overtaken, Unplayed, Underway, Excuse
<1>8. ASSUME NEW s \in Stoppers, Stopped(s)
      PROVE  Overtaken'
  BY <1>8
     DEF Stopped, Leave, Disconnect, Overtaken, Unplayed, Underway, Unsettled
<1>9. CASE VoiceStep
  BY <1>9
     DEF VoiceStep, HungUp, Kicked, TrackEnds, Forgets, Overtaken, Unplayed,
         Underway, Unsettled, Excuse, stopperVars
<1> QED BY <1>1, <1>2, <1>3, <1>4, <1>5, <1>6, <1>7, <1>8, <1>9
           DEF MusicStep, Stops

(* A track whose loading was overtaken stays excused. *)
LEMMA OutdatedKept ==
  ASSUME TypeOK, Players, Connecting, Settled, Overtaken,
         Handed, Outdated, MusicStep
  PROVE  Outdated'
<1>1. ASSUME NEW t \in Tracks, Asks(t)
      PROVE  Outdated'
  BY <1>1
     DEF Asks, Play, Connect, ResolveFails, TypeOK, Handed, Outdated, Excuse,
         playerVars
<1>2. ASSUME NEW t \in Tracks, Resolve(t)
      PROVE  Outdated'
  BY <1>2
     DEF Resolve, Enqueue, TypeOK, Handed, Outdated, Early, Becomes, Excuse
<1>3. ASSUME NEW p \in Tracks, Fetches(p)
      PROVE  Outdated'
  <2>1. \A q \in Tracks \ {p} : task'[q] = task[q] /\ track'[q] = track[q]
    BY <1>3, FetchedTyped, FetchedBy
  <2>2. stale' \subseteq stale
    BY <1>3, FetchedTyped
  <2>3. stale \subseteq Tracks
    BY DEF TypeOK
  <2>4. CASE UNCHANGED <<request, excused>>
               /\ (task'[p] = "loading" => p \notin stale')
    BY <2>1, <2>2, <2>3, <2>4 DEF Outdated
  <2>5. CASE Finished(p) /\ excused' = excused \cup Underway
    <3>1. \A t \in Tracks : request'[t] = "queued" => request[t] = "queued"
      BY <2>5, Disconnected DEF Finished, TypeOK
    <3>2. task'[p] # "loading"
      BY <2>5 DEF Finished, Becomes, TypeOK
    <3>3. \A q \in Tracks : task[q] = "loading" => track[q] \in Tracks
      BY DEF Handed
    <3> QED BY <2>1, <2>2, <2>3, <2>5, <3>1, <3>2, <3>3 DEF Outdated
  <2>6. task'[p] = "loading" /\ p \in stale' => Finished(p)
    BY <1>3, Fetched DEF TypeOK
  <2>7. Finished(p) => task'[p] # "loading"
    BY DEF Finished, Becomes, TypeOK
  <2> QED BY <1>3, <2>4, <2>5, <2>6, <2>7, FetchedBy
<1>4. ASSUME NEW p \in Tracks, Starts(p)
      PROVE  Outdated'
  BY <1>4 DEF Starts, Outdated, Becomes
<1>5. ASSUME NEW p \in Tracks, Proceeds(p)
      PROVE  Outdated'
  BY <1>5
     DEF Proceeds, LoadFails, Announce, Advance, Unwind, AfterPlay, TypeOK,
         Overtaken, Handed, Outdated, Becomes, beyondTask
<1>6. ASSUME NEW p \in Tracks, GivesUp(p)
      PROVE  Outdated'
  BY <1>6
     DEF GivesUp, IdleTimer, TimedOut, Crash, Finished, Disconnect,
         AudioStops, TypeOK, Handed, Outdated, Becomes, Excuse, beyondTask
<1>7. ASSUME NEW s \in Stoppers, NEW event \in BOOLEAN, StopPlayer(s, event)
      PROVE  Outdated'
  BY <1>7 DEF StopPlayer, Leave, Disconnect, TypeOK, Handed, Outdated, Excuse
<1>8. ASSUME NEW s \in Stoppers, Stopped(s)
      PROVE  Outdated'
  BY <1>8 DEF Stopped, Leave, Disconnect, TypeOK, Handed, Outdated, playerVars
<1>9. CASE VoiceStep
  BY <1>9
     DEF VoiceStep, HungUp, Kicked, TrackEnds, Forgets, TypeOK, Settled,
         Handed, Outdated, Excuse, playerVars
<1> QED BY <1>1, <1>2, <1>3, <1>4, <1>5, <1>6, <1>7, <1>8, <1>9
           DEF MusicStep, Stops

(* What was accepted is in the registered player's queue, or is being loaded. *)
LEMMA AcceptedKept ==
  ASSUME TypeOK, Players, Sources, Quiet, NoOrphanAudio,
         Connecting, Settled, Overtaken, Handed, Outdated, AcceptedIsKept,
         MusicStep
  PROVE  AcceptedIsKept'
<1>1. ASSUME NEW t \in Tracks, Asks(t)
      PROVE  AcceptedIsKept'
  BY <1>1
     DEF Asks, Play, Connect, ResolveFails, TypeOK, AcceptedIsKept, Waits,
         Unsettled, Excuse, playerVars, stopperVars
<1>2. ASSUME NEW t \in Tracks, Resolve(t)
      PROVE  AcceptedIsKept'
  <2>1. request \in [Tracks -> RequestStates]
          /\ task \in [Tracks -> TaskStates]
        /\ queue \in [Tracks -> Seq(Tracks)]
    BY DEF TypeOK, RequestStates, TaskStates
  <2>2. CASE registered = None
    <3>1. /\ registered' = t /\ task'[t] = "starting" /\ queue'[t] = <<t>>
          /\ request' = [request EXCEPT ![t] = "queued"]
          /\ excused' = excused /\ cancelled' = cancelled
      BY <1>2, <2>1, <2>2 DEF Resolve, Enqueue, Becomes, stopperVars
    <3>2. \A u \in Tracks \ excused : request[u] # "queued"
      BY <2>2 DEF AcceptedIsKept
    <3>3. t \notin cancelled
      BY <1>2 DEF Resolve, Players, Early
    <3>4. Waits(t, t)'
      BY <3>1, Enqueued DEF Waits
    <3>5. t # None
      BY NoneAssumption
    <3> QED BY <2>1, <3>1, <3>2, <3>3, <3>4, <3>5 DEF AcceptedIsKept
  <2>3. CASE registered # None /\ ~Full(registered)
    <3>1. /\ queue' = [queue EXCEPT ![registered] = Append(queue[registered], t)]
          /\ request' = [request EXCEPT ![t] = "queued"]
          /\ UNCHANGED <<registered, task, track, cancelled>>
          /\ excused' = excused \cup (IF task[registered] = "timedout"
                                   THEN {t} ELSE {})
      BY <1>2, <2>3 DEF Resolve, Enqueue, Excuse, stopperVars
    <3>2. registered \in Tracks /\ queue[registered] \in Seq(Tracks)
      BY <2>1, <2>3 DEF TypeOK
    <3>3. queue'[registered] = Append(queue[registered], t)
      BY <2>1, <3>1, <3>2
    <3>4. task[registered] \in Active /\ registered \notin cancelled
      BY <3>2 DEF Players
    <3>5. t \notin excused'
            => task[registered] \notin {"none", "timedout", "hanging", "done"}
      BY <3>1, <3>4 DEF Active
    <3>6. Waits(t, registered)'
      BY <3>1, <3>2, <3>3, Enqueued DEF Waits
    <3>7. ASSUME NEW u \in Tracks, Waits(u, registered)
          PROVE  Waits(u, registered)'
      BY <3>1, <3>2, <3>3, <3>7, Enqueued DEF Waits
    <3> QED BY <2>1, <2>3, <3>1, <3>4, <3>5, <3>6, <3>7 DEF AcceptedIsKept
  <2>4. CASE registered # None /\ Full(registered)
    BY <1>2, <2>1, <2>4
       DEF Resolve, Enqueue, AcceptedIsKept, Waits, stopperVars
  <2> QED BY <2>2, <2>3, <2>4
<1>3. ASSUME NEW p \in Tracks, Fetches(p)
      PROVE  AcceptedIsKept'
  <2>1. /\ p = registered /\ p # None /\ p \notin cancelled
        /\ cancelled' = cancelled /\ queue[p] \in Seq(Tracks)
    BY <1>3, FetchedBy DEF TypeOK
  <2>2. ASSUME NEW t \in Tracks \ excused, request[t] = "queued"
        PROVE  voice = "connected"
                 /\ \E i \in DOMAIN queue[p] : queue[p][i] = t
    <3>1. voice = "connected"
      BY <2>2 DEF Settled
    <3>2. Waits(t, p)
      BY <2>1, <2>2 DEF AcceptedIsKept
    <3>3. CASE task[p] = "loading" /\ track[p] = t
      <4>1. p \notin stale
        BY <2>2, <3>3 DEF Outdated
      <4>2. audio # None
        BY <1>3, <3>1, <3>3, <4>1 DEF Fetches
      <4>3. audio # p
        BY <2>1, <3>3 DEF Quiet
      <4>4. Unsettled
        BY <2>1, <3>1, <4>2, <4>3 DEF NoOrphanAudio, Unsettled
      <4>5. t \in excused
        BY <2>2, <4>4 DEF Overtaken, Unplayed
      <4> QED BY <2>2, <4>5
    <3> QED BY <3>1, <3>2, <3>3 DEF Waits
  <2>3. CASE queue[p] = <<>>
    <3>1. UNCHANGED <<request, excused>>
      BY <1>3, <2>3, Fetched
    <3>2. \A t \in Tracks \ excused : request[t] # "queued"
      <4>1. DOMAIN queue[p] = {}
        BY <2>3
      <4> QED BY <2>2, <4>1
    <3> QED BY <3>1, <3>2 DEF AcceptedIsKept
  <2>4. CASE queue[p] # <<>> /\ UNCHANGED <<request, registered, excused>>
               /\ task'[p] = "loading"
    <3>1. queue'[p] = Tail(queue[p]) /\ track'[p] = Head(queue[p])
      <4>1. Finished(p) => task'[p] # "loading"
        BY DEF Finished, Becomes, TypeOK
      <4> QED BY <1>3, <2>4, <4>1, Fetched DEF TypeOK
    <3>2. ASSUME NEW t \in Tracks \ excused, request[t] = "queued"
          PROVE  Waits(t, p)'
      <4>1. PICK i \in DOMAIN queue[p] : queue[p][i] = t
        BY <2>2, <3>2
      <4>2. CASE i = 1
        BY <2>1, <2>4, <3>1, <4>1, <4>2, Dequeued DEF Waits
      <4>3. CASE i # 1
        <5>1. i - 1 \in DOMAIN queue'[p] /\ queue'[p][i - 1] = t
          BY <2>1, <2>4, <3>1, <4>1, <4>3, Dequeued
        <5> QED BY <5>1 DEF Waits
      <4> QED BY <4>2, <4>3
    <3> QED BY <2>1, <2>4, <3>2 DEF AcceptedIsKept
  <2>5. CASE voice # "connected" /\ Finished(p)
               /\ excused' = excused \cup Underway
    <3>1. \A t \in Tracks : request'[t] = "queued" => request[t] = "queued"
      BY <2>5, Disconnected DEF Finished, TypeOK
    <3> QED BY <2>2, <2>5, <3>1 DEF AcceptedIsKept
  <2>6. UNCHANGED <<registered, request, excused>> /\ task'[p] # "loading"
          => queue[p] = <<>>
    <3>1. Finished(p) => registered' = None
      BY DEF Finished
    <3> QED BY <1>3, <2>1, <3>1, Fetched DEF TypeOK
  <2> QED BY <1>3, <2>3, <2>4, <2>5, <2>6, FetchedBy
<1>4. ASSUME NEW p \in Tracks, Starts(p)
      PROVE  AcceptedIsKept'
  BY <1>4 DEF Starts, TypeOK, AcceptedIsKept, Waits, Becomes, stopperVars
<1>5. ASSUME NEW p \in Tracks, Proceeds(p)
      PROVE  AcceptedIsKept'
  BY <1>5
     DEF Proceeds, LoadFails, Announce, Advance, Unwind, AfterPlay, TypeOK,
         AcceptedIsKept, Waits, Becomes, At, stopperVars, beyondTask
<1>6. ASSUME NEW p \in Tracks, GivesUp(p)
      PROVE  AcceptedIsKept'
  BY <1>6
     DEF GivesUp, IdleTimer, TimedOut, Crash, Finished, Disconnect, Players,
         AcceptedIsKept, Waits, Active, Unplayed, At, Excuse
<1>7. ASSUME NEW s \in Stoppers, NEW event \in BOOLEAN, StopPlayer(s, event)
      PROVE  AcceptedIsKept'
  BY <1>7 DEF StopPlayer, Leave, Disconnect, AcceptedIsKept, Unplayed, Excuse
<1>8. ASSUME NEW s \in Stoppers, Stopped(s)
      PROVE  AcceptedIsKept'
  BY <1>8 DEF Stopped, Leave, Disconnect, AcceptedIsKept, Waits, playerVars
<1>9. CASE VoiceStep
  BY <1>9
     DEF VoiceStep, HungUp, Kicked, TrackEnds, Forgets, TypeOK,
         AcceptedIsKept, Waits, Excuse, playerVars, stopperVars
<1> QED BY <1>1, <1>2, <1>3, <1>4, <1>5, <1>6, <1>7, <1>8, <1>9
           DEF MusicStep, Stops

-----------------------------------------------------------------------------
(* The theorems. *)

LEMMA MusicInitially ==
  ASSUME MusicInit
  PROVE  MusicInv
<1>1. TypeOK
  <2>1. <<>> \in Seq(Tracks) /\ Len(<<>>) <= MaxQueue
    BY QueueAssumption
  <2> QED BY <2>1 DEF MusicInit, TypeOK
<1>2. Players /\ Sources /\ Quiet /\ AdvanceComes /\ NoOrphanAudio
  BY NoneAssumption
     DEF MusicInit, Players, Active, Sources, Told, Quiet, AdvanceComes, At,
         NoOrphanAudio
<1>3. Connecting /\ Settled /\ Overtaken /\ Handed /\ Outdated
        /\ AcceptedIsKept
  BY DEF MusicInit, Connecting, Settled, Overtaken, Unplayed, Underway,
         Handed, Outdated, AcceptedIsKept
<1> QED BY <1>1, <1>2, <1>3 DEF MusicInv

LEMMA MusicInductive ==
  ASSUME MusicInv, [MusicNext]_musicVars
  PROVE  MusicInv'
<1>1. /\ TypeOK /\ Players /\ Sources /\ Quiet /\ AdvanceComes
           /\ NoOrphanAudio
      /\ Connecting /\ Settled /\ Overtaken /\ Handed /\ Outdated
           /\ AcceptedIsKept
  BY DEF MusicInv
<1>2. MusicStep
  BY <1>1, MusicSteps
<1>3. TypeOK' /\ Players'
  BY <1>1, <1>2, TypeKept, PlayersKept
<1>4. Sources' /\ Quiet' /\ AdvanceComes' /\ NoOrphanAudio'
  BY <1>1, <1>2, SourcesKept, QuietKept, AdvanceKept, AudioKept
<1>5. Connecting' /\ Settled' /\ Overtaken'
  BY <1>1, <1>2, ConnectingKept, SettledKept, OvertakenKept
<1>6. Handed' /\ Outdated' /\ AcceptedIsKept'
  BY <1>1, <1>2, HandedKept, OutdatedKept, AcceptedKept
<1> QED BY <1>3, <1>4, <1>5, <1>6 DEF MusicInv

(* The inductive invariant of music holds in every reachable state, for    *)
(* any tracks, any stoppers and any size of the queue.                     *)
THEOREM MusicInvariance == MusicSpec => []MusicInv
<1>1. MusicInit => MusicInv
  BY MusicInitially
<1>2. MusicInv /\ [MusicNext]_musicVars => MusicInv'
  BY MusicInductive
<1> QED BY <1>1, <1>2, PTL DEF MusicSpec

(* "Added to the queue" is kept: a track that /play accepted waits for a   *)
(* registered player that will take it, or is being loaded by it, until it *)
(* is played or its failure is told, unless the session ended meanwhile.   *)
THEOREM AcceptedTracksKept == MusicSpec => []AcceptedIsKept
<1>1. MusicInv => AcceptedIsKept
  BY DEF MusicInv
<1> QED BY <1>1, MusicInvariance, PTL

(* A player that waits for its track to end hears of it, whatever kicks,   *)
(* skips and late callbacks of the audio thread do: its source plays, or   *)
(* _after_play is on its way, or the event _advance is set.                *)
THEOREM TrackEndHeard == MusicSpec => []AdvanceComes
<1>1. MusicInv => AdvanceComes
  BY DEF MusicInv
<1> QED BY <1>1, MusicInvariance, PTL

(* What plays can be stopped: no source plays on that /queue and /stop do  *)
(* not know of, unless a teardown is about to make the bot leave.          *)
THEOREM AudioCanBeStopped == MusicSpec => []NoOrphanAudio
<1>1. MusicInv => NoOrphanAudio
  BY DEF MusicInv
<1> QED BY <1>1, MusicInvariance, PTL

-----------------------------------------------------------------------------
(* Music serves one line.  A step of MusicPlayer is a step of PlayQueue:   *)
(* Resolve accepts or refuses, the registered player serves the head, and  *)
(* whatever else takes tracks out of the line (the end of a player, a      *)
(* teardown, a fetch that drops what was being loaded) takes them off its  *)
(* head; by AcceptedIsKept they were overtaken (Shortened).                *)

(* The line of the tracks that wait, as sequences go. *)
LEMMA Behind ==
  ASSUME NEW x \in Tracks, NEW q \in Seq(Tracks)
  PROVE  /\ <<x>> \o q \in Seq(Tracks) /\ <<x>> \o q # <<>>
         /\ Len(<<x>> \o q) = Len(q) + 1
         /\ Head(<<x>> \o q) = x /\ Tail(<<x>> \o q) = q
         /\ \A t \in Tracks : <<x>> \o Append(q, t) = Append(<<x>> \o q, t)
<1>1. /\ <<x>> \o q \in Seq(Tracks) /\ <<x>> \o q # <<>>
      /\ Len(<<x>> \o q) = Len(q) + 1
      /\ Head(<<x>> \o q) = x
  OBVIOUS
<1>2. Tail(<<x>> \o q) = q
  OBVIOUS
<1>3. \A t \in Tracks : <<x>> \o Append(q, t) = Append(<<x>> \o q, t)
  OBVIOUS
<1> QED BY <1>1, <1>2, <1>3

LEMMA Whole ==
  ASSUME NEW q \in Seq(Tracks)
  PROVE  /\ SubSeq(q, 1, Len(q)) = q
         /\ SubSeq(q, Len(q) + 1, Len(q)) = <<>>
         /\ <<>> \o q = q
         /\ q # <<>> => /\ <<Head(q)>> \o Tail(q) = q
                        /\ SubSeq(q, 2, Len(q)) = Tail(q)
<1>1. SubSeq(q, 1, Len(q)) = q
  OBVIOUS
<1>2. SubSeq(q, Len(q) + 1, Len(q)) = <<>>
  OBVIOUS
<1>3. <<>> \o q = q
  OBVIOUS
<1>4. q # <<>> => <<Head(q)>> \o Tail(q) = q
  OBVIOUS
<1>5. q # <<>> => SubSeq(q, 2, Len(q)) = Tail(q)
  OBVIOUS
<1> QED BY <1>1, <1>2, <1>3, <1>4, <1>5

LEMMA Rest ==
  ASSUME NEW q \in Seq(Tracks), NEW n \in 0..Len(q)
  PROVE  /\ SubSeq(q, n + 1, Len(q)) \in Seq(Tracks)
         /\ Len(SubSeq(q, n + 1, Len(q))) = Len(q) - n
         /\ \A i \in 1..(Len(q) - n) :
              SubSeq(q, n + 1, Len(q))[i] = q[i + n]
<1>1. SubSeq(q, n + 1, Len(q)) \in Seq(Tracks)
  OBVIOUS
<1>2. Len(SubSeq(q, n + 1, Len(q))) = Len(q) - n
  OBVIOUS
<1>3. \A i \in 1..(Len(q) - n) : SubSeq(q, n + 1, Len(q))[i] = q[i + n]
  OBVIOUS
<1> QED BY <1>1, <1>2, <1>3

(* The line is that of the registered player, behind what it loads. *)
LEMMA LineIs ==
  ASSUME TypeOK, Handed
  PROVE  /\ Line \in Seq(Tracks)
         /\ registered = None => Line = <<>>
         /\ \A p \in Tracks : p = registered =>
              /\ task[p] = "loading" => /\ track[p] \in Tracks
                                        /\ Line = <<track[p]>> \o queue[p]
              /\ task[p] # "loading" => Line = queue[p]
<1>1. CASE registered = None
  BY <1>1, NoneAssumption DEF Line
<1>2. CASE registered # None
  <2>1. registered \in Tracks /\ queue[registered] \in Seq(Tracks)
    BY <1>2 DEF TypeOK
  <2>2. CASE task[registered] = "loading"
    <3>1. track[registered] \in Tracks
      BY <2>1, <2>2 DEF Handed
    <3>2. Line = <<track[registered]>> \o queue[registered]
      BY <1>2, <2>2 DEF Line
    <3> QED BY <1>2, <2>1, <2>2, <3>1, <3>2, Behind
  <2>3. CASE task[registered] # "loading"
    <3>1. Line = queue[registered]
      BY <1>2, <2>1, <2>3, Whole DEF Line
    <3> QED BY <1>2, <2>1, <2>3, <3>1
  <2> QED BY <2>2, <2>3
<1> QED BY <1>1, <1>2

(* No track waits twice, and each that waits was accepted. *)
Lined ==
  /\ \A i \in DOMAIN Line : Fate[Line[i]] = "accepted"
  /\ \A i, j \in DOMAIN Line : Line[i] = Line[j] => i = j

LEMMA FateTyped ==
  ASSUME TypeOK, NEW t \in Tracks
  PROVE  /\ Fate[t] = "asked"
              <=> request[t] \in {"new", "connecting", "resolving"}
         /\ Fate[t] = "accepted" <=> request[t] = "queued"
<1>1. request[t] \in RequestStates
  BY DEF TypeOK, RequestStates
<1> QED BY <1>1 DEF Fate, RequestStates

(* A step of the promise keeps the line in order. *)
LEMMA LinedKept ==
  ASSUME Line \in Seq(Tracks), Line' \in Seq(Tracks), Lined, Promise!QueueNext
  PROVE  Lined'
<1> DEFINE f == Fate
           g == Fate'
           l == Line
           m == Line'
<1>0. /\ l \in Seq(Tracks) /\ m \in Seq(Tracks)
      /\ \A i \in DOMAIN l : f[l[i]] = "accepted"
      /\ \A i, j \in DOMAIN l : l[i] = l[j] => i = j
      /\ DOMAIN f = Tracks
  BY DEF Lined, Fate
<1>1. SUFFICES /\ \A i \in DOMAIN m : g[m[i]] = "accepted"
               /\ \A i, j \in DOMAIN m : m[i] = m[j] => i = j
  BY DEF Lined
<1>2. ASSUME NEW t \in Tracks, Promise!Accept(t)
      PROVE  /\ \A i \in DOMAIN m : g[m[i]] = "accepted"
             /\ \A i, j \in DOMAIN m : m[i] = m[j] => i = j
  <2>1. f[t] = "asked" /\ g = [f EXCEPT ![t] = "accepted"] /\ m = Append(l, t)
    BY <1>2 DEF Promise!Accept
  <2> HIDE DEF f, g, l, m
  <2>2. \A i \in DOMAIN l : l[i] \in Tracks /\ l[i] # t
    BY <1>0, <2>1
  <2>3. \A i \in DOMAIN m : \/ i = Len(l) + 1 /\ m[i] = t
                            \/ i \in DOMAIN l /\ m[i] = l[i]
    BY <1>0, <2>1
  <2> QED BY <1>0, <2>1, <2>2, <2>3
<1>3. ASSUME NEW t \in Tracks, Promise!Refuse(t)
      PROVE  /\ \A i \in DOMAIN m : g[m[i]] = "accepted"
             /\ \A i, j \in DOMAIN m : m[i] = m[j] => i = j
  <2>1. f[t] = "asked" /\ g = [f EXCEPT ![t] = "refused"] /\ m = l
    BY <1>3 DEF Promise!Refuse
  <2> HIDE DEF f, g, l, m
  <2>2. \A i \in DOMAIN l : l[i] \in Tracks /\ l[i] # t
    BY <1>0, <2>1
  <2> QED BY <1>0, <2>1, <2>2
<1>4. ASSUME Promise!Serve
      PROVE  /\ \A i \in DOMAIN m : g[m[i]] = "accepted"
             /\ \A i, j \in DOMAIN m : m[i] = m[j] => i = j
  <2>1. /\ l # <<>> /\ m = Tail(l)
        /\ \E result \in {"played", "failed"} :
             g = [f EXCEPT ![Head(l)] = result]
    BY <1>4 DEF Promise!Serve
  <2> HIDE DEF f, g, l, m
  <2>2. \A i \in DOMAIN m : i + 1 \in DOMAIN l /\ m[i] = l[i + 1]
    BY <1>0, <2>1
  <2>3. 1 \in DOMAIN l /\ Head(l) = l[1]
    BY <1>0, <2>1
  <2>4. \A i \in DOMAIN m : i \in Nat \ {0}
    BY <1>0
  <2>5. \A i \in DOMAIN m : m[i] # Head(l) /\ m[i] \in Tracks
    BY <1>0, <2>2, <2>3, <2>4
  <2>6. \A i \in DOMAIN m : g[m[i]] = f[m[i]]
    BY <1>0, <2>1, <2>5
  <2>7. \A i, j \in DOMAIN m : m[i] = m[j] => i = j
    BY <1>0, <2>2, <2>4
  <2> QED BY <1>0, <2>2, <2>6, <2>7
<1>5. ASSUME Promise!Lose
      PROVE  /\ \A i \in DOMAIN m : g[m[i]] = "accepted"
             /\ \A i, j \in DOMAIN m : m[i] = m[j] => i = j
  <2>1. PICK n \in 0..Len(l) : m = SubSeq(l, n + 1, Len(l))
    BY <1>5 DEF Promise!Lose
  <2>2. g = f
    BY <1>5 DEF Promise!Lose
  <2> HIDE DEF f, g, l, m
  <2>3. \A i \in DOMAIN m : /\ i \in Nat /\ i + n \in DOMAIN l
                            /\ m[i] = l[i + n]
    BY <1>0, <2>1, Rest
  <2> QED BY <1>0, <2>2, <2>3
<1> QED BY <1>2, <1>3, <1>4, <1>5 DEF Promise!QueueNext
LEMMA FateMoves ==
  ASSUME TypeOK, NEW t \in Tracks, NEW state \in RequestStates,
         request' = [request EXCEPT ![t] = state]
  PROVE  /\ state = "queued" => Fate' = [Fate EXCEPT ![t] = "accepted"]
         /\ state \in {"refused", "played", "failed"}
              => Fate' = [Fate EXCEPT ![t] = state]
<1>1. request \in [Tracks -> RequestStates]
  BY DEF TypeOK, RequestStates
<1>2. /\ Fate = [u \in Tracks |-> Fate[u]]
      /\ Fate' = [u \in Tracks |-> Fate'[u]]
      /\ DOMAIN Fate = Tracks
  BY DEF Fate
<1>3. \A u \in Tracks \ {t} : Fate'[u] = Fate[u]
  BY <1>1 DEF Fate
<1>4. /\ state = "queued" => Fate'[t] = "accepted"
      /\ state \in {"refused", "played", "failed"} => Fate'[t] = state
  BY <1>1 DEF Fate
<1> HIDE DEF Fate
<1> QED BY <1>2, <1>3, <1>4

LEMMA FateRests ==
  ASSUME \A t \in Tracks :
           \/ request'[t] = request[t]
           \/ {request[t], request'[t]}
                \subseteq {"new", "connecting", "resolving"}
  PROVE  Fate' = Fate
<1>1. \A t \in Tracks : Fate'[t] = Fate[t]
  BY DEF Fate
<1>2. Fate = [u \in Tracks |-> Fate[u]] /\ Fate' = [u \in Tracks |-> Fate'[u]]
  BY DEF Fate
<1> QED BY <1>1, <1>2

LEMMA LineRests ==
  ASSUME registered' = registered,
         registered # None =>
           /\ task'[registered] = "loading" <=> task[registered] = "loading"
           /\ task[registered] = "loading"
                => track'[registered] = track[registered]
           /\ queue'[registered] = queue[registered]
  PROVE  Line' = Line
BY DEF Line

(* Whoever waits for a player is in the line. *)
LEMMA InLine ==
  ASSUME TypeOK, Handed, NEW t \in Tracks, registered # None,
         Waits(t, registered)
  PROVE  \E i \in DOMAIN Line : Line[i] = t
<1>1. registered \in Tracks /\ queue[registered] \in Seq(Tracks)
  BY DEF TypeOK
<1>2. CASE task[registered] = "loading"
  <2>1. /\ track[registered] \in Tracks
        /\ Line = <<track[registered]>> \o queue[registered]
    BY <1>1, <1>2, LineIs
  <2>2. /\ 1 \in DOMAIN Line /\ Line[1] = track[registered]
        /\ \A i \in DOMAIN queue[registered] :
             i + 1 \in DOMAIN Line /\ Line[i + 1] = queue[registered][i]
    BY <1>1, <2>1
  <2> QED BY <2>2 DEF Waits
<1>3. CASE task[registered] # "loading"
  BY <1>1, <1>3, LineIs DEF Waits
<1> QED BY <1>2, <1>3

(* An accepted track that does not wait was overtaken: were it not, it     *)
(* would be in the line.  So too after a step.                             *)
Waiting ==
  /\ Line \in Seq(Tracks)
  /\ \A t \in Tracks : Fate[t] = "accepted" =>
       t \in excused \/ \E i \in DOMAIN Line : Line[i] = t

LEMMA LineHolds ==
  TypeOK /\ Handed /\ AcceptedIsKept => Waiting
<1> SUFFICES ASSUME TypeOK, Handed, AcceptedIsKept
             PROVE  Waiting
  OBVIOUS
<1>1. ASSUME NEW t \in Tracks, Fate[t] = "accepted"
      PROVE  t \in excused \/ \E i \in DOMAIN Line : Line[i] = t
  <2>1. request[t] = "queued"
    BY <1>1, FateTyped
  <2>2. t \notin excused => registered # None /\ Waits(t, registered)
    BY <2>1 DEF AcceptedIsKept
  <2> QED BY <2>2, InLine
<1> QED BY <1>1, LineIs DEF Waiting

LEMMA LineStillHolds ==
  TypeOK' /\ Handed' /\ AcceptedIsKept' => Waiting'
<1>1. TypeOK /\ Handed /\ AcceptedIsKept => Waiting
  BY LineHolds
<1> QED BY <1>1, PTL

(* The line is shorter by its head, or by more of it, or as it was. *)
LEMMA Shortened ==
  ASSUME Waiting', Line \in Seq(Tracks), Lined,
         Fate' = Fate, excused \subseteq excused',
         NEW n \in 0..Len(Line), Line' = SubSeq(Line, n + 1, Len(Line))
  PROVE  Promise!QueueNext
<1>1. ASSUME NEW i \in 1..n
      PROVE  Line[i] \in excused'
  <2> DEFINE l == Line
             m == Line'
             t == l[i]
  <2>1. i \in DOMAIN l /\ t \in Tracks
    OBVIOUS
  <2>2. Fate'[t] = "accepted"
    BY <2>1 DEF Lined
  <2>3. /\ l \in Seq(Tracks) /\ m = SubSeq(l, n + 1, Len(l))
        /\ \A j, k \in DOMAIN l : l[j] = l[k] => j = k
    BY DEF Lined
  <2>4. ASSUME NEW j \in DOMAIN m, m[j] = t
        PROVE  FALSE
    <3>0. n \in 0..Len(l) /\ n \in Nat /\ i \in Nat /\ i <= n
      OBVIOUS
    <3> HIDE DEF l, m
    <3>1. j \in Nat \ {0} /\ j + n \in DOMAIN l /\ m[j] = l[j + n]
      BY <2>3, <2>4, <3>0, Rest
    <3>2. j + n # i
      BY <3>0, <3>1
    <3> QED BY <2>1, <2>3, <2>4, <3>1, <3>2
  <2> QED BY <2>1, <2>2, <2>4 DEF Waiting
<1>2. Promise!Lose
  BY <1>1 DEF Promise!Lose
<1> QED BY <1>2 DEF Promise!QueueNext

LEMMA Unchanged ==
  ASSUME Waiting', Line \in Seq(Tracks), Lined,
         Fate' = Fate, excused \subseteq excused', Line' = Line
  PROVE  Promise!QueueNext
<1>1. 0 \in 0..Len(Line) /\ Line' = SubSeq(Line, 0 + 1, Len(Line))
  BY Whole
<1> QED BY <1>1, Shortened

LEMMA Emptied ==
  ASSUME Waiting', Line \in Seq(Tracks), Lined,
         Fate' = Fate, excused \subseteq excused', Line' = <<>>
  PROVE  Promise!QueueNext
<1>1. /\ Len(Line) \in 0..Len(Line)
      /\ Line' = SubSeq(Line, Len(Line) + 1, Len(Line))
  BY Whole
<1> QED BY <1>1, Shortened

(* The end of a player is the end of its line. *)
LEMMA FinishedEmpties ==
  ASSUME TypeOK, Waiting', Line \in Seq(Tracks), Lined,
         NEW p \in Tracks, Finished(p), excused \subseteq excused'
  PROVE  Promise!QueueNext
<1>1. registered' = None
  BY DEF Finished
<1>2. Line' = <<>>
  BY <1>1 DEF Line
<1>3. left \in BOOLEAN /\ Disconnect(left)
  BY DEF Finished, TypeOK
<1>4. Fate' = Fate
  BY <1>3, Disconnected, FateRests
<1> QED BY <1>2, <1>4, Emptied

LEMMA AsksPromise ==
  ASSUME TypeOK, Waiting', Line \in Seq(Tracks), Lined,
         NEW t \in Tracks, Asks(t)
  PROVE  Promise!QueueNext
<1>1. Line' = Line /\ excused \subseteq excused'
  BY LineRests DEF Asks, Play, Connect, ResolveFails, Excuse, playerVars
<1>2. /\ request \in [Tracks -> RequestStates]
      /\ request[t] \in {"new", "connecting", "resolving"}
      /\ \E state \in {"connecting", "resolving", "refused"} :
           request' = [request EXCEPT ![t] = state]
  BY DEF Asks, Play, Connect, ResolveFails, TypeOK, RequestStates
<1>3. CASE request' = [request EXCEPT ![t] = "refused"]
  <2>1. Fate' = [Fate EXCEPT ![t] = "refused"] /\ Fate[t] = "asked"
    BY <1>2, <1>3, FateMoves, FateTyped DEF RequestStates
  <2>2. Promise!Refuse(t)
    BY <1>1, <2>1 DEF Promise!Refuse
  <2> QED BY <1>1, <2>2 DEF Promise!QueueNext
<1>4. ASSUME NEW state \in {"connecting", "resolving"},
             request' = [request EXCEPT ![t] = state]
      PROVE  Promise!QueueNext
  <2>1. Fate' = Fate
    BY <1>2, <1>4, FateRests
  <2> QED BY <1>1, <2>1, Unchanged
<1> QED BY <1>2, <1>3, <1>4

LEMMA ResolvePromise ==
  ASSUME TypeOK, Handed, Players, Waiting', Line \in Seq(Tracks), Lined,
         NEW t \in Tracks, Resolve(t)
  PROVE  Promise!QueueNext
<1>1. /\ request[t] = "resolving" /\ Fate[t] = "asked"
      /\ request \in [Tracks -> RequestStates]
      /\ queue \in [Tracks -> Seq(Tracks)]
      /\ task \in [Tracks -> TaskStates]
  BY FateTyped DEF Resolve, TypeOK, RequestStates, TaskStates
<1>2. excused \subseteq excused' /\ track' = track
  BY DEF Resolve, Enqueue, Excuse
<1>3. CASE registered = None
  <2>1. /\ registered' = t /\ task'[t] = "starting" /\ queue'[t] = <<t>>
        /\ request' = [request EXCEPT ![t] = "queued"]
    BY <1>1, <1>3 DEF Resolve, Enqueue, Becomes
  <2>2. Fate' = [Fate EXCEPT ![t] = "accepted"]
    BY <2>1, FateMoves DEF RequestStates
  <2>3. Line' = <<>> \o <<t>> /\ Line = <<>>
    BY <1>3, <2>1, NoneAssumption DEF Line
  <2>4. Line' = Append(Line, t)
    BY <2>3
  <2>5. Promise!Accept(t)
    BY <1>1, <2>2, <2>4 DEF Promise!Accept
  <2> QED BY <1>2, <2>5 DEF Promise!QueueNext
<1>4. CASE registered # None /\ ~Full(registered)
  <2>1. /\ queue' = [queue EXCEPT ![registered] = Append(queue[registered], t)]
        /\ request' = [request EXCEPT ![t] = "queued"]
        /\ UNCHANGED <<registered, task>>
    BY <1>4 DEF Resolve, Enqueue
  <2>2. registered \in Tracks /\ queue[registered] \in Seq(Tracks)
    BY <1>1, <1>4 DEF TypeOK
  <2>3. queue'[registered] = Append(queue[registered], t)
    BY <1>1, <2>1, <2>2
  <2>4. Fate' = [Fate EXCEPT ![t] = "accepted"]
    BY <2>1, FateMoves DEF RequestStates
  <2>5. CASE task[registered] = "loading"
    <3>1. /\ Line = <<track[registered]>> \o queue[registered]
          /\ Line' = <<track[registered]>> \o Append(queue[registered], t)
      BY <1>2, <1>4, <2>1, <2>3, <2>5 DEF Line
    <3>2. track[registered] \in Tracks
      BY <2>2, <2>5 DEF Handed
    <3>3. Line' = Append(Line, t)
      BY <2>2, <3>1, <3>2, Behind
    <3>4. Promise!Accept(t)
      BY <1>1, <2>4, <3>3 DEF Promise!Accept
    <3> QED BY <1>2, <3>4 DEF Promise!QueueNext
  <2>6. CASE task[registered] # "loading"
    <3>1. Line = queue[registered]
      BY <2>2, <2>6, LineIs
    <3>2. Line' = <<>> \o queue'[registered]
      BY <1>4, <2>1, <2>6 DEF Line
    <3>3. queue'[registered] \in Seq(Tracks)
      BY <2>2, <2>3
    <3>4. Line' = Append(Line, t)
      BY <2>3, <3>1, <3>2, <3>3, Whole
    <3>5. Promise!Accept(t)
      BY <1>1, <2>4, <3>4 DEF Promise!Accept
    <3> QED BY <1>2, <3>5 DEF Promise!QueueNext
  <2> QED BY <2>5, <2>6
<1>5. CASE registered # None /\ Full(registered)
  <2>1. /\ request' = [request EXCEPT ![t] = "refused"]
        /\ UNCHANGED <<registered, task, queue>>
    BY <1>5 DEF Resolve, Enqueue
  <2>2. Fate' = [Fate EXCEPT ![t] = "refused"]
    BY <2>1, FateMoves DEF RequestStates
  <2>3. Line' = Line
    BY <1>2, <2>1, LineRests
  <2>4. Promise!Refuse(t)
    BY <1>1, <2>2, <2>3 DEF Promise!Refuse
  <2> QED BY <1>2, <2>4 DEF Promise!QueueNext
<1> QED BY <1>3, <1>4, <1>5

(* A fetch: the track that was being loaded, if there was one, is lost. *)
LEMMA FetchPromise ==
  ASSUME TypeOK, Handed, Players, Waiting', Line \in Seq(Tracks), Lined,
         NEW p \in Tracks, Fetches(p)
  PROVE  Promise!QueueNext
<1>1. /\ p = registered /\ p # None /\ queue[p] \in Seq(Tracks)
      /\ excused \subseteq excused'
  BY FetchedBy DEF TypeOK
<1>2. /\ task \in [Tracks -> TaskStates]
      /\ track \in [Tracks -> Tracks \cup {None}]
      /\ queue \in [Tracks -> Seq(Tracks)]
  BY DEF TypeOK, TaskStates
<1>3. CASE /\ queue[p] = <<>> /\ queue' = queue
           /\ task' = [task EXCEPT ![p] = "getting"]
           /\ UNCHANGED <<registered, request, excused>>
  <2>1. Line' = <<>> \o <<>>
    BY <1>1, <1>2, <1>3 DEF Line
  <2>2. Line' = <<>> /\ Fate' = Fate
    BY <1>3, <2>1, FateRests
  <2> QED BY <1>1, <2>2, Emptied
<1>4. CASE /\ queue[p] # <<>> /\ queue' = [queue EXCEPT ![p] = Tail(queue[p])]
           /\ task' = [task EXCEPT ![p] = "loading"]
           /\ track' = [track EXCEPT ![p] = Head(queue[p])]
           /\ UNCHANGED <<registered, request, excused>>
  <2>1. Line' = <<Head(queue[p])>> \o Tail(queue[p])
    BY <1>1, <1>2, <1>4 DEF Line
  <2>2. Line' = queue[p] /\ Fate' = Fate
    BY <1>1, <1>4, <2>1, Whole, FateRests
  <2>3. CASE task[p] = "loading"
    <3>1. track[p] \in Tracks /\ Line = <<track[p]>> \o queue[p]
      BY <1>1, <2>3, LineIs
    <3>2. Line # <<>> /\ Line' = Tail(Line) /\ Len(Line) >= 1
      BY <1>1, <2>2, <3>1, Behind
    <3>3. 1 \in 0..Len(Line) /\ Line' = SubSeq(Line, 1 + 1, Len(Line))
      BY <3>2, Whole
    <3> QED BY <1>1, <2>2, <3>3, Shortened
  <2>4. CASE task[p] # "loading"
    BY <1>1, <2>2, <2>4, LineIs, Unchanged
  <2> QED BY <2>3, <2>4
<1>5. CASE Finished(p)
  BY <1>1, <1>5, FinishedEmpties
<1>6. \/ /\ queue[p] = <<>> /\ queue' = queue
         /\ task' = [task EXCEPT ![p] = "getting"]
         /\ UNCHANGED <<registered, request, excused>>
      \/ /\ queue[p] # <<>> /\ queue' = [queue EXCEPT ![p] = Tail(queue[p])]
         /\ task' = [task EXCEPT ![p] = "loading"]
         /\ track' = [track EXCEPT ![p] = Head(queue[p])]
         /\ UNCHANGED <<registered, request, excused>>
      \/ Finished(p)
  BY Fetched
<1> QED BY <1>3, <1>4, <1>5, <1>6

(* The first of the line is served: played, or its failure told. *)
LEMMA ServedPromise ==
  ASSUME TypeOK, Handed, Players, Line \in Seq(Tracks), Lined,
         NEW p \in Tracks, At(p, "loading"),
         NEW result \in {"played", "failed"},
         request' = [request EXCEPT ![track[p]] = result],
         task'[p] # "loading",
         UNCHANGED <<registered, queue, excused>>
  PROVE  Promise!QueueNext
<1>1. /\ p = registered /\ p # None /\ queue[p] \in Seq(Tracks)
      /\ track[p] \in Tracks /\ Line = <<track[p]>> \o queue[p]
  BY NoneAssumption, LineIs DEF At, Players, Active, TypeOK
<1>2. Line # <<>> /\ Head(Line) = track[p] /\ Tail(Line) = queue[p]
        /\ 1 \in DOMAIN Line /\ Line[1] = track[p]
  BY <1>1, Behind
<1>3. Line' = <<>> \o queue[p]
  BY <1>1 DEF Line
<1>4. Line' = Tail(Line)
  BY <1>1, <1>2, <1>3, Whole
<1>5. Fate[Head(Line)] = "accepted"
  BY <1>2 DEF Lined
<1>6. Fate' = [Fate EXCEPT ![Head(Line)] = result]
  BY <1>1, <1>2, FateMoves DEF RequestStates
<1>7. Promise!Serve
  BY <1>2, <1>4, <1>5, <1>6 DEF Promise!Serve
<1> QED BY <1>7 DEF Promise!QueueNext

LEMMA ProceedPromise ==
  ASSUME TypeOK, Handed, Players, Waiting', Line \in Seq(Tracks), Lined,
         NEW p \in Tracks, Proceeds(p)
  PROVE  Promise!QueueNext
<1>1. CASE LoadFails(p)
  <2>1. /\ At(p, "loading") /\ task'[p] # "loading"
        /\ request' = [request EXCEPT ![track[p]] = "failed"]
        /\ UNCHANGED <<registered, queue, excused>>
    BY <1>1 DEF LoadFails, Becomes, TypeOK, beyondTask
  <2> QED BY <2>1, ServedPromise
<1>2. CASE Announce(p) \/ Advance(p) \/ Unwind(p) \/ AfterPlay(p)
  <2>1. UNCHANGED <<request, registered, track, queue, excused>>
    BY <1>2 DEF Announce, Advance, Unwind, AfterPlay, beyondTask
  <2>2. registered # None => /\ registered \in Tracks
                             /\ registered \notin cancelled
    BY DEF TypeOK, Players
  <2>3. registered # None =>
          (task'[registered] = "loading" <=> task[registered] = "loading")
    BY <1>2, <2>2
       DEF Announce, Advance, Unwind, AfterPlay, Becomes, At, TypeOK
  <2>4. Line' = Line /\ Fate' = Fate
    BY <2>1, <2>3, LineRests, FateRests
  <2> QED BY <2>1, <2>4, Unchanged
<1> QED BY <1>1, <1>2 DEF Proceeds

LEMMA GiveUpPromise ==
  ASSUME TypeOK, Handed, Players, Waiting', Line \in Seq(Tracks), Lined,
         NEW p \in Tracks, GivesUp(p)
  PROVE  Promise!QueueNext
<1>1. excused \subseteq excused'
  BY DEF GivesUp, IdleTimer, TimedOut, Crash, Excuse
<1>2. CASE IdleTimer(p)
  <2>1. UNCHANGED <<request, registered, track, queue>>
    BY <1>2 DEF IdleTimer, beyondTask
  <2>2. \A r \in Tracks : task'[r] = "loading" <=> task[r] = "loading"
    BY <1>2 DEF IdleTimer, Becomes, At, TypeOK
  <2>3. Line' = Line /\ Fate' = Fate
    BY <2>1, <2>2, LineRests, FateRests DEF TypeOK
  <2> QED BY <1>1, <2>3, Unchanged
<1>3. CASE TimedOut(p) \/ Crash(p)
  BY <1>1, <1>3, FinishedEmpties DEF TimedOut, Crash
<1> QED BY <1>2, <1>3 DEF GivesUp

LEMMA StopPromise ==
  ASSUME TypeOK, Waiting', Line \in Seq(Tracks), Lined,
         NEW s \in Stoppers, Stops(s)
  PROVE  Promise!QueueNext
<1>1. ASSUME NEW event \in BOOLEAN, StopPlayer(s, event)
      PROVE  Promise!QueueNext
  <2>1. registered' = None /\ excused \subseteq excused'
    BY <1>1 DEF StopPlayer, Excuse
  <2>2. Line' = <<>>
    BY <2>1 DEF Line
  <2>3. request' = request \/ Disconnect(event)
    BY <1>1 DEF StopPlayer, Leave
  <2>4. Fate' = Fate
    BY <2>3, Disconnected, FateRests
  <2> QED BY <2>1, <2>2, <2>4, Emptied
<1>2. ASSUME Stopped(s)
      PROVE  Promise!QueueNext
  <2>1. /\ UNCHANGED <<registered, task, track, queue, excused>>
        /\ left \in BOOLEAN /\ Disconnect(left)
    BY <1>2 DEF Stopped, Leave, playerVars, TypeOK
  <2>2. Line' = Line /\ Fate' = Fate
    BY <2>1, LineRests, Disconnected, FateRests
  <2> QED BY <2>1, <2>2, Unchanged
<1> QED BY <1>1, <1>2 DEF Stops

LEMMA VoicePromise ==
  ASSUME TypeOK, Players, Waiting', Line \in Seq(Tracks), Lined, VoiceStep
  PROVE  Promise!QueueNext
<1>1. /\ UNCHANGED <<request, registered, track, queue>>
      /\ excused \subseteq excused'
  BY DEF VoiceStep, HungUp, Kicked, TrackEnds, Forgets, Excuse, playerVars
<1>2. \A r \in Tracks : task'[r] = "loading" <=> task[r] = "loading"
  BY DEF VoiceStep, HungUp, Kicked, TrackEnds, Forgets, playerVars, TypeOK
<1>3. Line' = Line /\ Fate' = Fate
  BY <1>1, <1>2, LineRests, FateRests DEF TypeOK
<1> QED BY <1>1, <1>3, Unchanged

-----------------------------------------------------------------------------
(* Music's invariant, and that of its line. *)
Served == MusicInv /\ Lined

LEMMA ServedInitially ==
  ASSUME MusicInit
  PROVE  Served /\ Promise!QueueInit
<1>1. MusicInv
  BY MusicInitially
<1>2. Line = <<>>
  BY DEF MusicInit, Line
<1>3. Fate = [t \in Tracks |-> "asked"]
  BY DEF MusicInit, Fate
<1>4. excused = {}
  BY DEF MusicInit
<1> QED BY <1>1, <1>2, <1>3, <1>4 DEF Served, Lined, Promise!QueueInit

LEMMA ServedStep ==
  ASSUME Served, [MusicNext]_musicVars
  PROVE  Served' /\ Promise!QueueNext
<1>1. /\ MusicInv /\ Lined /\ TypeOK /\ Players /\ Quiet /\ Handed
      /\ AcceptedIsKept
  BY DEF Served, MusicInv
<1>2. MusicInv' /\ MusicStep
  BY <1>1, MusicInductive, MusicSteps
<1>3. Waiting /\ Waiting'
  <2>1. TypeOK' /\ Handed' /\ AcceptedIsKept'
    BY <1>2 DEF MusicInv
  <2> QED BY <1>1, <2>1, LineHolds, LineStillHolds
<1>4. Line \in Seq(Tracks) /\ Line' \in Seq(Tracks)
  BY <1>3 DEF Waiting
<1>5. ASSUME NEW p \in Tracks, Starts(p)
      PROVE  Promise!QueueNext
  <2>1. /\ At(p, "loading") /\ task'[p] # "loading"
        /\ request' = [request EXCEPT ![track[p]] = "played"]
        /\ UNCHANGED <<registered, queue, excused>>
    BY <1>1, <1>5 DEF Starts, Becomes, TypeOK
  <2> QED BY <1>1, <1>4, <2>1, ServedPromise
<1>6. Promise!QueueNext
  BY <1>1, <1>2, <1>3, <1>4, <1>5, AsksPromise, ResolvePromise, FetchPromise,
     ProceedPromise, GiveUpPromise, StopPromise, VoicePromise DEF MusicStep
<1>7. Lined'
  BY <1>1, <1>4, <1>6, LinedKept
<1> QED BY <1>2, <1>6, <1>7 DEF Served

(* First come, first served: the players of a guild, their tasks and every *)
(* teardown together keep the promise of /play (PlayQueue).                *)
THEOREM MusicKeepsOrder == MusicSpec => KeepsOrder
<1>1. MusicInit => Served /\ Promise!QueueInit
  BY ServedInitially
<1>2. Served /\ [MusicNext]_musicVars
        => Served' /\ [Promise!QueueNext]_Promise!lineVars
  BY ServedStep
<1> QED BY <1>1, <1>2, PTL DEF MusicSpec, KeepsOrder, Promise!QueueSpec

-----------------------------------------------------------------------------
(* The language filter.  Every pass of normalize makes of a text another   *)
(* one, with fewer characters in the same order; what a pass keeps is      *)
(* numbered by the places it had before (Sifts, Renumbered), so that the   *)
(* four together are a list of places of the message (Aligned): a letter   *)
(* of what the pattern is given stands for a character that is read, its   *)
(* spaces for gaps.  A run of letters is then what is read of a stretch    *)
(* from gap to gap (SameReading), and both are searched from the left.     *)

(* p numbers the elements of S, m of them, in ascending order. *)
Numbers(p, m, S) ==
  /\ m \in Nat /\ p \in [1..m -> S]
  /\ \A k, l \in 1..m : k < l => p[k] < p[l]
  /\ \A i \in S : \E k \in 1..m : p[k] = i

(* A set is numbered in one way. *)
LEMMA SameNumbers ==
  ASSUME NEW S \in SUBSET Nat, NEW p, NEW m, NEW q, NEW n,
         Numbers(p, m, S), Numbers(q, n, S)
  PROVE  m = n /\ p = q
<1>1. ASSUME NEW f, NEW a, NEW g, NEW b, Numbers(f, a, S), Numbers(g, b, S)
      PROVE  \A k \in 1..a : k <= b /\ f[k] = g[k]
  <2> DEFINE B == {k \in 1..a : ~(k <= b /\ f[k] = g[k])}
  <2>0. /\ a \in Nat /\ b \in Nat /\ f \in [1..a -> S] /\ g \in [1..b -> S]
        /\ \A k, l \in 1..a : k < l => f[k] < f[l]
        /\ \A k, l \in 1..b : k < l => g[k] < g[l]
        /\ \A i \in S : \E k \in 1..a : f[k] = i
        /\ \A i \in S : \E k \in 1..b : g[k] = i
        /\ \A i \in S : i \in Nat
    BY <1>1 DEF Numbers
  <2>1. SUFFICES ASSUME B # {} PROVE FALSE
    OBVIOUS
  <2>2. PICK k \in B : \A l \in B : k <= l
    <3>1. B \in SUBSET Nat
      BY <2>0
    <3> HIDE DEF B
    <3> QED BY <2>1, <3>1, Smallest
  <2>3. k \in 1..a /\ \A l \in 1..a : l < k => l <= b /\ f[l] = g[l]
    BY <2>0, <2>2
  <2>4. PICK j \in 1..b : g[j] = f[k]
    BY <2>0, <2>3
  <2>5. ~(j < k)
    <3> SUFFICES ASSUME j < k PROVE FALSE
      OBVIOUS
    <3>1. j \in 1..a
      BY <2>0, <2>3
    <3>2. f[j] = g[j] /\ f[j] < f[k] /\ f[j] \in Nat
      BY <2>0, <2>3, <3>1
    <3> QED BY <2>4, <3>2
  <2>6. j # k
    BY <2>0, <2>2, <2>3, <2>4
  <2>7. k < j /\ k \in 1..b
    BY <2>0, <2>3, <2>5, <2>6
  <2>8. g[k] < f[k] /\ g[k] \in S
    BY <2>0, <2>4, <2>7
  <2>9. PICK l \in 1..a : f[l] = g[k]
    BY <2>0, <2>8
  <2>10. l < k
    <3> SUFFICES ASSUME ~(l < k) PROVE FALSE
      OBVIOUS
    <3>1. l = k \/ k < l
      BY <2>0, <2>3
    <3>2. f[k] \in Nat /\ f[l] \in Nat
      BY <2>0, <2>3, <2>9
    <3>3. f[l] = f[k] \/ f[k] < f[l]
      BY <2>0, <2>3, <3>1
    <3> QED BY <2>8, <2>9, <3>2, <3>3
  <2>11. l \in 1..b /\ g[l] = g[k] /\ g[k] \in Nat
    <3>1. l <= b /\ f[l] = g[l]
      BY <2>3, <2>10
    <3>2. l \in 1..b
      BY <2>0, <3>1
    <3>3. g[k] \in Nat
      BY <2>0, <2>8
    <3> QED BY <2>9, <3>1, <3>2, <3>3
  <2>12. g[l] < g[k]
    BY <2>0, <2>7, <2>10, <2>11
  <2> QED BY <2>11, <2>12
<1>2. \A k \in 1..m : k <= n /\ p[k] = q[k]
  BY <1>1
<1>3. \A k \in 1..n : k <= m
  BY <1>1
<1>4. m \in Nat /\ n \in Nat /\ p \in [1..m -> S] /\ q \in [1..n -> S]
  BY DEF Numbers
<1>5. m = n
  <2>1. m = 0 \/ m \in 1..m
    BY <1>4
  <2>2. n = 0 \/ n \in 1..n
    BY <1>4
  <2> QED BY <1>2, <1>3, <1>4, <2>1, <2>2
<1> QED BY <1>2, <1>4, <1>5

(* A selection from a selection. *)
LEMMA Renumbered ==
  ASSUME NEW S \in SUBSET Nat, NEW p, NEW m, Numbers(p, m, S),
         NEW Y \in SUBSET (1..m), NEW q, NEW n, Numbers(q, n, Y)
  PROVE  Numbers([k \in 1..n |-> p[q[k]]], n, {p[j] : j \in Y})
<1>1. /\ m \in Nat /\ n \in Nat /\ p \in [1..m -> S] /\ q \in [1..n -> Y]
      /\ \A k, l \in 1..m : k < l => p[k] < p[l]
      /\ \A k, l \in 1..n : k < l => q[k] < q[l]
      /\ \A i \in Y : \E k \in 1..n : q[k] = i
  BY DEF Numbers
<1> DEFINE r == [k \in 1..n |-> p[q[k]]]
<1>2. r \in [1..n -> {p[j] : j \in Y}]
  BY <1>1
<1>3. \A k, l \in 1..n : k < l => r[k] < r[l]
  BY <1>1
<1>4. \A i \in {p[j] : j \in Y} : \E k \in 1..n : r[k] = i
  BY <1>1
<1> HIDE DEF r
<1>5. Numbers(r, n, {p[j] : j \in Y})
  BY <1>1, <1>2, <1>3, <1>4 DEF Numbers
<1> QED BY <1>5 DEF r

(* Parts of one element or none. *)
Bits(ps, T) ==
  ps \in Seq(Seq(T)) /\ \A i \in DOMAIN ps : \/ ps[i] = <<>>
                                               \/ \E b \in T : ps[i] = <<b>>

Filled(ps, n) == {i \in 1..n : ps[i] # <<>>}

(* out is made of the bits of ps up to n, p says where each comes from. *)
Sifts(p, out, ps, n) ==
  /\ Numbers(p, Len(out), Filled(ps, n))
  /\ \A k \in 1..Len(out) : ps[p[k]] = <<out[k]>>

LEMMA SiftStep ==
  ASSUME NEW T, NEW ps, Bits(ps, T), NEW n \in 1..Len(ps),
         NEW out \in Seq(T), NEW p, Sifts(p, out, ps, n - 1)
  PROVE  /\ out \o ps[n] \in Seq(T)
         /\ \E q : Sifts(q, out \o ps[n], ps, n)
<1>0. n \in Nat /\ n >= 1
  BY DEF Bits
<1>1. CASE ps[n] = <<>>
  <2>1. out \o ps[n] = out
    BY <1>1
  <2>2. Filled(ps, n) = Filled(ps, n - 1)
    BY <1>0, <1>1 DEF Filled
  <2> QED BY <2>1, <2>2 DEF Sifts
<1>2. CASE ps[n] # <<>>
  <2>1. PICK b \in T : ps[n] = <<b>>
    BY <1>2 DEF Bits
  <2> DEFINE m == Len(out)
             new == out \o ps[n]
             q == [k \in 1..(m + 1) |-> IF k = m + 1 THEN n ELSE p[k]]
             S == Filled(ps, n - 1)
  <2>2. /\ new \in Seq(T) /\ Len(new) = m + 1 /\ new[m + 1] = b /\ m \in Nat
        /\ \A k \in 1..m : new[k] = out[k]
    BY <2>1
  <2>3. Filled(ps, n) = S \cup {n} /\ \A i \in S : i \in Nat /\ i < n
    BY <1>0, <1>2 DEF Filled
  <2>4. /\ p \in [1..m -> S] /\ \A k, l \in 1..m : k < l => p[k] < p[l]
        /\ \A i \in S : \E k \in 1..m : p[k] = i
        /\ \A k \in 1..m : ps[p[k]] = <<out[k]>>
    BY DEF Sifts, Numbers
  <2> HIDE DEF m, new, S
  <2>5. /\ \A k \in 1..m : q[k] = p[k] /\ k \in 1..(m + 1)
        /\ q[m + 1] = n /\ m + 1 \in 1..(m + 1)
        /\ \A k \in 1..(m + 1) : k \in 1..m \/ k = m + 1
    BY <2>2
  <2>6. q \in [1..(m + 1) -> S \cup {n}]
    BY <2>4, <2>5
  <2> HIDE DEF q
  <2>7. \A k, l \in 1..(m + 1) : k < l => q[k] < q[l]
    <3> SUFFICES ASSUME NEW k \in 1..(m + 1), NEW l \in 1..(m + 1), k < l
                 PROVE  q[k] < q[l]
      OBVIOUS
    <3>1. k \in 1..m
      BY <2>2
    <3>2. CASE l \in 1..m
      BY <2>4, <2>5, <3>1, <3>2
    <3>3. CASE l = m + 1
      BY <2>3, <2>4, <2>5, <3>1, <3>3
    <3> QED BY <2>5, <3>2, <3>3
  <2>8. \A i \in S \cup {n} : \E k \in 1..(m + 1) : q[k] = i
    BY <2>4, <2>5
  <2>9. \A k \in 1..(m + 1) : ps[q[k]] = <<new[k]>>
    BY <2>1, <2>2, <2>4, <2>5
  <2>10. Numbers(q, m + 1, S \cup {n})
    BY <2>2, <2>6, <2>7, <2>8 DEF Numbers
  <2>11. Sifts(q, new, ps, n)
    BY <2>2, <2>3, <2>9, <2>10 DEF Sifts
  <2> QED BY <2>2, <2>11 DEF new
<1> QED BY <1>1, <1>2

(* What bits are flattened to, and where it comes from. *)
LEMMA Sifted ==
  ASSUME NEW T, NEW ps, Bits(ps, T)
  PROVE  /\ FlattenSeq(ps) \in Seq(T)
         /\ \E p : Sifts(p, FlattenSeq(ps), ps, Len(ps))
<1>0. ps \in Seq(Seq(T)) /\ Len(ps) \in Nat
  BY DEF Bits
<1>1. FlattenSeq(ps) = Listing!FlattenSeq(ps)
  BY DEF FlattenSeq, Listing!FlattenSeq
<1>2. \E p : Sifts(p, <<>>, ps, 0)
  <2>1. Len(<<>>) = 0 /\ 1..0 = {} /\ Filled(ps, 0) = {}
    BY DEF Filled
  <2> DEFINE p == [k \in {} |-> 0]
  <2>2. p \in [{} -> {}]
    OBVIOUS
  <2> HIDE DEF p
  <2>3. Numbers(p, 0, {})
    BY <2>1, <2>2 DEF Numbers
  <2>4. Sifts(p, <<>>, ps, 0)
    BY <2>1, <2>3 DEF Sifts
  <2> QED BY <2>4
<1>3. CASE ps = <<>>
  <2>1. Len(ps) = 0 /\ <<>> \in Seq(T)
    BY <1>3
  <2>2. FlattenSeq(ps) = <<>>
    BY <1>3, <2>1 DEF FlattenSeq
  <2> QED BY <1>2, <2>1, <2>2
<1>4. CASE ps # <<>>
  <2>1. PICK f : Flattens(f, ps, T)
    BY <1>0, <1>4, FlattenSteps
  <2> DEFINE N == Len(ps)
             F == [k \in 0..N |-> IF k = 0 THEN <<>> ELSE f[k]]
             R == {k \in 0..N : F[k] \in Seq(T) /\ \E p : Sifts(p, F[k], ps, k)}
  <2>2. N \in Nat /\ N # 0
    BY <1>0, <1>4
  <2>3. F[0] = <<>> /\ F[N] = FlattenSeq(ps)
    BY <1>1, <2>1, <2>2 DEF Flattens
  <2>4. \A k \in 1..N : F[k] = F[k - 1] \o ps[k]
    <3> SUFFICES ASSUME NEW k \in 1..N PROVE F[k] = F[k - 1] \o ps[k]
      OBVIOUS
    <3>1. CASE k = 1
      <4>1. F[1] = ps[1] /\ F[0] = <<>> /\ ps[1] \in Seq(T)
        BY <1>0, <2>1, <2>2 DEF Flattens
      <4> HIDE DEF F
      <4>2. <<>> \o ps[1] = ps[1] /\ k - 1 = 0
        BY <3>1, <4>1
      <4> QED BY <3>1, <4>1, <4>2
    <3>2. CASE k # 1
      <4>1. k \in 2..N /\ F[k] = f[k] /\ F[k - 1] = f[k - 1]
        BY <2>2, <3>2
      <4> QED BY <2>1, <4>1 DEF Flattens
    <3> QED BY <3>1, <3>2
  <2>5. 0 \in R
    BY <1>2, <2>2, <2>3
  <2>6. ASSUME NEW k \in 1..N, k - 1 \in R PROVE k \in R
    <3>1. PICK p : Sifts(p, F[k - 1], ps, k - 1)
      BY <2>6
    <3>2. F[k - 1] \in Seq(T) /\ F[k] = F[k - 1] \o ps[k]
      BY <2>4, <2>6
    <3> HIDE DEF F
    <3>3. F[k] \in Seq(T) /\ \E q : Sifts(q, F[k], ps, k)
      BY <3>1, <3>2, SiftStep
    <3> QED BY <2>2, <3>3
  <2>7. N \in R
    <3> HIDE DEF R, F
    <3>1. 0..N \subseteq R
      BY <2>2, <2>5, <2>6, Upto
    <3> QED BY <2>2, <3>1
  <2> HIDE DEF F
  <2> QED BY <2>3, <2>7
<1> QED BY <1>3, <1>4

(* Bits one by one. *)
LEMMA BitByBit ==
  ASSUME NEW T, NEW n \in Nat, NEW ps, ps = [i \in 1..n |-> ps[i]],
         \A i \in 1..n : ps[i] = <<>> \/ \E b \in T : ps[i] = <<b>>
  PROVE  Bits(ps, T) /\ Len(ps) = n /\ DOMAIN ps = 1..n
<1>1. ASSUME NEW U, \A i \in 1..n : ps[i] \in U
      PROVE  ps \in Seq(U) /\ Len(ps) = n
  <2>1. ps \in [1..n -> U]
    BY <1>1
  <2> QED BY <2>1
<1>2. \A i \in 1..n : ps[i] \in Seq(T)
  BY <<>> \in Seq(T), \A b \in T : <<b>> \in Seq(T)
<1>3. ps \in Seq(Seq(T)) /\ Len(ps) = n
  BY <1>1, <1>2
<1> QED BY <1>3 DEF Bits

(* A whole stretch without an element of G, around i. *)
Around(G, n, i, a, b) ==
  /\ a \in 1..i /\ b \in i..n
  /\ \A z \in a..b : z \notin G
  /\ a > 1 => a - 1 \in G
  /\ b < n => b + 1 \in G

LEMMA StretchAround ==
  ASSUME NEW n \in Nat, NEW i \in 1..n, NEW G, i \notin G
  PROVE  \E a, b : Around(G, n, i, a, b)
<1> DEFINE A == {x \in 1..i : \A z \in x..i : z \notin G}
           B == {y \in i..n : y = n \/ y + 1 \in G}
<1>1. PICK a \in A : \A x \in A : a <= x
  <2>1. A \in SUBSET Nat /\ i \in A
    OBVIOUS
  <2> HIDE DEF A
  <2> QED BY <2>1, Smallest
<1>2. PICK b \in B : \A y \in B : b <= y
  <2>1. B \in SUBSET Nat /\ n \in B
    OBVIOUS
  <2> HIDE DEF B
  <2> QED BY <2>1, Smallest
<1>3. a > 1 => a - 1 \in G
  <2> SUFFICES ASSUME a > 1, a - 1 \notin G PROVE FALSE
    OBVIOUS
  <2>1. a \in Nat /\ i \in Nat /\ a <= i /\ \A z \in a..i : z \notin G
    BY <1>1
  <2>2. a - 1 \in 1..i /\ \A z \in (a - 1)..i : z = a - 1 \/ z \in a..i
    BY <2>1
  <2>3. a - 1 \in A
    BY <2>1, <2>2
  <2> QED BY <1>1, <2>1, <2>3
<1>4. ASSUME NEW z \in i..b PROVE z \notin G
  <2> SUFFICES ASSUME z \in G PROVE FALSE
    OBVIOUS
  <2>1. b \in Nat /\ i <= b /\ b <= n /\ z \in Nat /\ z # i
    BY <1>2
  <2>2. z - 1 \in i..n /\ z - 1 + 1 = z
    BY <2>1
  <2>3. z - 1 \in B
    BY <2>2
  <2> QED BY <1>2, <2>1, <2>3
<1>5. \A z \in a..b : z \notin G
  <2>1. \A z \in a..b : z \in a..i \/ z \in i..b
    BY <1>1, <1>2
  <2> QED BY <1>1, <1>4, <2>1
<1>6. a \in 1..i /\ b \in i..n /\ (b < n => b + 1 \in G)
  BY <1>1, <1>2
<1>7. Around(G, n, i, a, b)
  BY <1>3, <1>5, <1>6 DEF Around
<1> QED BY <1>7

-----------------------------------------------------------------------------
(* The passes of normalize.                                                *)

(* The classes, one by one. *)
LEMMA Classes ==
  ASSUME NEW c \in Characters
  PROVE  /\ \/ c \in Letters \/ c \in DOMAIN Lower \/ c \in Leet \/ c \in Marks
            \/ c = Space \/ c = ZeroWidth
         /\ c \in Letters => c \notin DOMAIN Lower
         /\ IsLetter(c) => c \notin Leet \cup Marks \cup {Space, ZeroWidth}
         /\ c \in Leet => c \notin Marks \cup {Space, ZeroWidth}
         /\ c \in Marks => c \notin {Space, ZeroWidth}
         /\ c = Space => c # ZeroWidth
         /\ c \in DOMAIN Lower => Lower[c] \in Letters
         /\ c \in Leet => LeetLookup[c] \in Letters
BY ClassesAssumption, TablesAssumption DEF Characters, IsLetter

(* What is read of each class. *)
LEMMA Reads ==
  ASSUME NEW c \in Characters
  PROVE  /\ c \in Letters => Read(c) = <<c>>
         /\ c \in DOMAIN Lower => Read(c) = <<Lower[c]>>
         /\ c \in Leet => Read(c) = <<LeetLookup[c]>>
         /\ c \in Marks \cup {Space, ZeroWidth} => Read(c) = <<>>
         /\ Read(c) = <<>> \/ \E l \in Letters : Read(c) = <<l>>
<1>1. c \in Leet => ~IsLetter(c)
  BY Classes
<1>2. c \in Marks \cup {Space, ZeroWidth} => ~IsLetter(c) /\ c \notin Leet
  BY Classes
<1> QED BY <1>1, <1>2, Classes DEF Read, IsLetter

(* out is s at the places S, which p numbers. *)
Picks(p, out, s, S) ==
  Numbers(p, Len(out), S) /\ \A k \in 1..Len(out) : out[k] = s[p[k]]

LEMMA OnlyIs ==
  ASSUME NEW T, NEW s \in Seq(T), NEW kept
  PROVE  /\ Only(s, kept) \in Seq(T)
         /\ \E p : Picks(p, Only(s, kept), s, {i \in DOMAIN s : s[i] \in kept})
<1> DEFINE ps == [i \in DOMAIN s |-> IF s[i] \in kept THEN <<s[i]>> ELSE <<>>]
           out == FlattenSeq(ps)
<1>1. DOMAIN s = 1..Len(s) /\ Len(s) \in Nat
  OBVIOUS
<1>2. /\ ps = [i \in 1..Len(s) |-> ps[i]]
      /\ \A i \in 1..Len(s) : ps[i] = <<>> \/ \E b \in T : ps[i] = <<b>>
  OBVIOUS
<1>3. Bits(ps, T) /\ Len(ps) = Len(s)
  <2> HIDE DEF ps
  <2> QED BY <1>1, <1>2, BitByBit
<1>4. Filled(ps, Len(s)) = {i \in DOMAIN s : s[i] \in kept}
  BY <1>1 DEF Filled
<1>5. \A i \in DOMAIN s : s[i] \in kept => ps[i] = <<s[i]>>
  OBVIOUS
<1>6. Only(s, kept) = out
  BY DEF Only
<1> HIDE DEF ps
<1>7. out \in Seq(T)
  BY <1>3, Sifted
<1>8. PICK p : Sifts(p, out, ps, Len(s))
  BY <1>1, <1>3, Sifted
<1> HIDE DEF out
<1>9. /\ Numbers(p, Len(out), {i \in DOMAIN s : s[i] \in kept})
      /\ \A k \in 1..Len(out) : ps[p[k]] = <<out[k]>>
  BY <1>4, <1>8 DEF Sifts
<1>10. \A k \in 1..Len(out) : out[k] = s[p[k]]
  <2> SUFFICES ASSUME NEW k \in 1..Len(out) PROVE out[k] = s[p[k]]
    OBVIOUS
  <2>1. p[k] \in DOMAIN s /\ s[p[k]] \in kept
    BY <1>9 DEF Numbers
  <2>2. <<out[k]>> = <<s[p[k]]>>
    BY <1>5, <1>9, <2>1
  <2> QED BY <2>2
<1> QED BY <1>6, <1>7, <1>9, <1>10 DEF Picks

Visible(s) == {i \in DOMAIN s : s[i] # ZeroWidth}

(* Between letters are the neighbours among the visible characters. *)
LEMMA Neighbours ==
  ASSUME NEW s \in Seq(Characters), NEW p, NEW n, Numbers(p, n, Visible(s)),
         NEW k \in 1..n
  PROVE  BetweenLetters(s, p[k])
           <=> k > 1 /\ k < n /\ IsLetter(s[p[k - 1]]) /\ IsLetter(s[p[k + 1]])
<1>1. /\ n \in Nat /\ \A l \in 1..n : p[l] \in 1..Len(s) /\ s[p[l]] # ZeroWidth
      /\ \A l, m \in 1..n : l < m => p[l] < p[m]
      /\ \A i \in 1..Len(s) : s[i] # ZeroWidth => \E l \in 1..n : p[l] = i
      /\ \A i \in 1..Len(s) : s[i] \in Characters
      /\ Len(s) \in Nat
  BY DEF Numbers, Visible
<1>1a. \A l, m \in 1..n : p[l] < p[m] => l < m
  <2> SUFFICES ASSUME NEW l \in 1..n, NEW m \in 1..n, p[l] < p[m], ~(l < m)
               PROVE  FALSE
    OBVIOUS
  <2>1. l = m \/ m < l
    BY <1>1
  <2>2. p[m] <= p[l] /\ p[m] \in Nat /\ p[l] \in Nat
    BY <1>1, <2>1
  <2> QED BY <2>2
<1>2. ASSUME BetweenLetters(s, p[k])
      PROVE  k > 1 /\ k < n /\ IsLetter(s[p[k - 1]]) /\ IsLetter(s[p[k + 1]])
  <2>1. PICK h \in 1..(p[k] - 1), j \in (p[k] + 1)..Len(s) :
          /\ IsLetter(s[h]) /\ IsLetter(s[j])
          /\ \A z \in (h + 1)..(j - 1) : z = p[k] \/ s[z] = ZeroWidth
    BY <1>2 DEF BetweenLetters
  <2>2. /\ h \in 1..Len(s) /\ j \in 1..Len(s) /\ h < p[k] /\ p[k] < j
        /\ p[k] \in Nat
    BY <1>1
  <2>3. s[h] # ZeroWidth /\ s[j] # ZeroWidth
    BY <1>1, <2>1, <2>2, Classes
  <2>4. PICK l \in 1..n, m \in 1..n : p[l] = h /\ p[m] = j
    BY <1>1, <2>2, <2>3
  <2>5. l < k /\ k < m
    BY <1>1a, <2>2, <2>4
  <2>6. l = k - 1
    <3> SUFFICES ASSUME l # k - 1 PROVE FALSE
      OBVIOUS
    <3>1. k - 1 \in 1..n /\ l < k - 1 /\ k - 1 < k
      BY <1>1, <2>5
    <3>2. p[l] < p[k - 1] /\ p[k - 1] < p[k] /\ p[k - 1] \in 1..Len(s)
      BY <1>1, <3>1
    <3>3. p[k - 1] \in (h + 1)..(j - 1) /\ p[k - 1] # p[k]
      BY <2>2, <2>4, <3>2
    <3> QED BY <1>1, <2>1, <3>1, <3>3
  <2>7. m = k + 1
    <3> SUFFICES ASSUME m # k + 1 PROVE FALSE
      OBVIOUS
    <3>1. k + 1 \in 1..n /\ k + 1 < m /\ k < k + 1
      BY <1>1, <2>5
    <3>2. p[k + 1] < p[m] /\ p[k] < p[k + 1] /\ p[k + 1] \in 1..Len(s)
      BY <1>1, <3>1
    <3>3. p[k + 1] \in (h + 1)..(j - 1) /\ p[k + 1] # p[k]
      BY <2>2, <2>4, <3>2
    <3> QED BY <1>1, <2>1, <3>1, <3>3
  <2> QED BY <1>1, <2>1, <2>4, <2>5, <2>6, <2>7
<1>3. ASSUME k > 1, k < n, IsLetter(s[p[k - 1]]), IsLetter(s[p[k + 1]])
      PROVE  BetweenLetters(s, p[k])
  <2>1. /\ k - 1 \in 1..n /\ k + 1 \in 1..n /\ k - 1 < k /\ k < k + 1
    BY <1>1, <1>3
  <2>2. /\ p[k - 1] \in 1..(p[k] - 1) /\ p[k + 1] \in (p[k] + 1)..Len(s)
        /\ p[k] \in Nat /\ p[k - 1] \in Nat /\ p[k + 1] \in 1..Len(s)
    BY <1>1, <2>1
  <2>3. ASSUME NEW z \in (p[k - 1] + 1)..(p[k + 1] - 1), s[z] # ZeroWidth
        PROVE  z = p[k]
    <3>1. z \in 1..Len(s) /\ p[k - 1] < z /\ z < p[k + 1]
      <4> DEFINE x == p[k - 1]
                 y == p[k + 1]
                 m == Len(s)
      <4>1. x \in Nat /\ y \in 1..m /\ z \in (x + 1)..(y - 1) /\ m \in Nat
        BY <1>1, <2>2
      <4> HIDE DEF x, y, m
      <4>2. z \in 1..m /\ x < z /\ z < y
        BY <4>1
      <4> QED BY <4>2 DEF x, y, m
    <3>2. PICK l \in 1..n : p[l] = z
      BY <1>1, <2>3, <3>1
    <3>3. k - 1 < l /\ l < k + 1
      BY <1>1a, <2>1, <3>1, <3>2
    <3>4. l = k
      BY <1>1, <3>3
    <3> QED BY <3>2, <3>4
  <2> QED BY <1>3, <2>2, <2>3 DEF BetweenLetters
<1> QED BY <1>2, <1>3

(* LowerCase and ReplaceLeet read each letter, and nothing else. *)
LEMMA Translated ==
  ASSUME NEW s \in Seq(Characters), NEW a \in Seq(Characters), NEW p,
         Numbers(p, Len(a), Visible(s)), \A k \in 1..Len(a) : a[k] = s[p[k]],
         NEW c, c = ReplaceLeet(LowerCase(a))
  PROVE  /\ c \in Seq(Characters) /\ Len(c) = Len(a)
         /\ \A k \in 1..Len(a) :
              /\ Gap(s, p[k]) => c[k] \notin Letters
              /\ ~Gap(s, p[k]) /\ Read(a[k]) # <<>>
                   => c[k] \in Letters /\ Read(a[k]) = <<c[k]>>
              /\ Inner(c, k) /\ ~Kept(c)[k] <=> ~Gap(s, p[k]) /\ Read(a[k]) = <<>>
<1> DEFINE n == Len(a)
           b == LowerCase(a)
<1>1. n \in Nat /\ DOMAIN a = 1..n /\ \A k \in 1..n : a[k] \in Characters
  OBVIOUS
<1>2. /\ DOMAIN b = 1..n
      /\ \A k \in 1..n : b[k] = IF a[k] \in DOMAIN Lower THEN Lower[a[k]] ELSE a[k]
  BY <1>1 DEF LowerCase
<1>3. b \in Seq(Characters) /\ Len(b) = n
  <2>1. \A k \in 1..n : b[k] \in Characters
    BY <1>1, <1>2, Classes DEF Characters
  <2>2. b = [k \in 1..n |-> b[k]]
    BY <1>1 DEF LowerCase
  <2> HIDE DEF b
  <2>3. b \in [1..n -> Characters]
    BY <2>1, <2>2
  <2> QED BY <1>1, <2>3
<1>4. \A k \in 1..n : /\ b[k] \in Letters <=> IsLetter(a[k])
                      /\ b[k] \notin Letters => b[k] = a[k]
  BY <1>1, <1>2, Classes DEF IsLetter
<1>5. /\ DOMAIN c = 1..n
      /\ \A k \in 1..n : c[k] = IF b[k] \in Leet /\ Inner(b, k)
                                THEN LeetLookup[b[k]] ELSE b[k]
  BY <1>1, <1>2 DEF ReplaceLeet
<1>6. c = [k \in 1..n |-> c[k]]
  BY <1>1, <1>2 DEF ReplaceLeet
<1> HIDE DEF b, n
<1>7. c \in Seq(Characters) /\ Len(c) = n
  <2>1. \A k \in 1..n : b[k] \in Characters
    BY <1>3
  <2>2. \A k \in 1..n : c[k] \in Characters
    BY <1>5, <2>1, Classes DEF Characters
  <2>3. c \in [1..n -> Characters]
    BY <1>6, <2>2
  <2> QED BY <1>1, <2>3
<1>8. \A k \in 1..n : BetweenLetters(s, p[k]) <=> Inner(b, k)
  <2> SUFFICES ASSUME NEW k \in 1..n
               PROVE  BetweenLetters(s, p[k]) <=> Inner(b, k)
    OBVIOUS
  <2>1. BetweenLetters(s, p[k])
          <=> k > 1 /\ k < n /\ IsLetter(s[p[k - 1]]) /\ IsLetter(s[p[k + 1]])
    BY Neighbours DEF n
  <2>2. k > 1 => k - 1 \in 1..n
    BY <1>1
  <2>3. k < n => k + 1 \in 1..n
    BY <1>1
  <2>4. \A l \in 1..n : IsLetter(s[p[l]]) <=> b[l] \in Letters
    BY <1>4 DEF n
  <2> QED BY <1>3, <2>1, <2>2, <2>3, <2>4 DEF Inner
<1>9. \A k \in 1..n : Gap(s, p[k]) <=> \/ a[k] = Space
                                       \/ ~IsLetter(a[k]) /\ ~Inner(b, k)
  <2>1. \A k \in 1..n : a[k] = s[p[k]] /\ a[k] # ZeroWidth
    BY DEF Numbers, Visible, n
  <2> QED BY <1>8, <2>1 DEF Gap
<1>9a. \A k \in 1..n : a[k] # ZeroWidth
  BY DEF Numbers, Visible, n
(* A letter among the neighbours of what is none was one before. *)
<1>10. ASSUME NEW k \in 1..n, b[k] \notin Letters
       PROVE  Inner(c, k) <=> Inner(b, k)
  <2>1. \A l \in 1..n : c[l] \in Letters /\ b[l] \notin Letters => Inner(b, l)
    BY <1>5
  <2>2. k > 1 => k - 1 \in 1..n /\ ~Inner(b, k - 1)
    <3>1. k - 1 + 1 = k
      BY <1>1
    <3> QED BY <1>1, <1>10, <3>1 DEF Inner
  <2>3. k < n => k + 1 \in 1..n /\ ~Inner(b, k + 1)
    <3>1. k + 1 - 1 = k
      BY <1>1
    <3> QED BY <1>1, <1>10, <3>1 DEF Inner
  <2>4. \A l \in 1..n : b[l] \in Letters => c[l] \in Letters
    <3>1. \A l \in 1..n : b[l] \in Letters => b[l] \notin Leet
      BY <1>3, Classes DEF IsLetter
    <3> QED BY <1>5, <3>1
  <2> QED BY <1>3, <1>7, <2>1, <2>2, <2>3, <2>4 DEF Inner
<1>11. ASSUME NEW k \in 1..n
       PROVE  /\ Gap(s, p[k]) => c[k] \notin Letters
              /\ ~Gap(s, p[k]) /\ Read(a[k]) # <<>>
                   => c[k] \in Letters /\ Read(a[k]) = <<c[k]>>
              /\ Inner(c, k) /\ ~Kept(c)[k] <=> ~Gap(s, p[k]) /\ Read(a[k]) = <<>>
  <2>0. /\ a[k] \in Characters /\ a[k] # ZeroWidth
        /\ Kept(c)[k] <=> c[k] \in Letters \cup {Space}
        /\ Gap(s, p[k]) <=> a[k] = Space \/ (~IsLetter(a[k]) /\ ~Inner(b, k))
        /\ c[k] = IF b[k] \in Leet /\ Inner(b, k) THEN LeetLookup[b[k]] ELSE b[k]
        /\ b[k] \in Letters <=> IsLetter(a[k])
        /\ b[k] \notin Letters => b[k] = a[k] /\ (Inner(c, k) <=> Inner(b, k))
        /\ b[k] = IF a[k] \in DOMAIN Lower THEN Lower[a[k]] ELSE a[k]
    BY <1>1, <1>2, <1>4, <1>5, <1>9, <1>9a, <1>10 DEF Kept
  <2>1. CASE IsLetter(a[k])
    <3>1. b[k] \in Letters /\ b[k] \notin Leet
      BY <1>3, <2>0, <2>1, Classes DEF IsLetter
    <3>2. c[k] = b[k] /\ a[k] # Space /\ Read(a[k]) = <<b[k]>>
      BY <2>0, <2>1, <3>1, Classes, Reads DEF IsLetter
    <3> QED BY <2>0, <2>1, <3>1, <3>2
  <2>2. CASE a[k] \in Leet
    <3>1. ~IsLetter(a[k]) /\ a[k] # Space /\ a[k] \notin Letters
            /\ LeetLookup[a[k]] \in Letters /\ Read(a[k]) = <<LeetLookup[a[k]]>>
      BY <2>0, <2>2, Classes, Reads DEF IsLetter
    <3> QED BY <2>0, <2>2, <3>1
  <2>3. CASE a[k] \in Marks \cup {Space}
    <3>1. /\ ~IsLetter(a[k]) /\ a[k] \notin Letters /\ a[k] \notin Leet
          /\ Read(a[k]) = <<>>
      BY <2>0, <2>3, Classes, Reads DEF IsLetter
    <3> QED BY <2>0, <2>3, <3>1
  <2> QED BY <2>0, <2>1, <2>2, <2>3, Classes DEF IsLetter
<1> QED BY <1>7, <1>11 DEF n

(* Where a character of s leaves a trace: a letter, or a gap. *)
Solid(s) == {i \in DOMAIN s : Gap(s, i) \/ Read(s[i]) # <<>>}

(* The text d has a letter for each that is read in s, and one of another  *)
(* class for each gap.                                                     *)
Squashed(s, d, p) ==
  /\ d \in Seq(Characters) /\ Numbers(p, Len(d), Solid(s))
  /\ \A j \in 1..Len(d) :
       /\ Gap(s, p[j]) => d[j] \notin Letters
       /\ ~Gap(s, p[j]) => d[j] \in Letters /\ Read(s[p[j]]) = <<d[j]>>

LEMMA SquashInnerIs ==
  ASSUME NEW c \in Seq(Characters)
  PROVE  /\ SquashInner(c) \in Seq(Characters)
         /\ \E q : Picks(q, SquashInner(c), c,
                         {k \in 1..Len(c) : ~(Inner(c, k) /\ ~Kept(c)[k])})
<1> DEFINE n == Len(c)
           ps == [i \in DOMAIN c |-> IF Inner(c, i) /\ ~Kept(c)[i]
                                     THEN <<>> ELSE <<c[i]>>]
           out == FlattenSeq(ps)
           S == {k \in 1..n : ~(Inner(c, k) /\ ~Kept(c)[k])}
<1>1. DOMAIN c = 1..n /\ n \in Nat /\ \A i \in 1..n : c[i] \in Characters
  OBVIOUS
<1>2. /\ ps = [i \in 1..n |-> ps[i]]
      /\ \A i \in 1..n : ps[i] = IF i \in S THEN <<c[i]>> ELSE <<>>
  BY <1>1
<1>3. SquashInner(c) = out
  BY DEF SquashInner
<1> HIDE DEF n, ps, S
<1>4. Bits(ps, Characters) /\ Len(ps) = n
  BY <1>1, <1>2, BitByBit
<1>5. Filled(ps, n) = S
  BY <1>1, <1>2 DEF Filled, S
<1>6. out \in Seq(Characters)
  BY <1>4, Sifted
<1>7. PICK q : Sifts(q, out, ps, n)
  BY <1>4, Sifted
<1> HIDE DEF out
<1>8. /\ Numbers(q, Len(out), S)
      /\ \A k \in 1..Len(out) : ps[q[k]] = <<out[k]>>
  BY <1>5, <1>7 DEF Sifts
<1>9. \A k \in 1..Len(out) : out[k] = c[q[k]]
  <2> SUFFICES ASSUME NEW k \in 1..Len(out) PROVE out[k] = c[q[k]]
    OBVIOUS
  <2>1. q[k] \in S /\ q[k] \in 1..n
    BY <1>8 DEF Numbers, S
  <2>2. <<out[k]>> = <<c[q[k]]>>
    BY <1>2, <1>8, <2>1
  <2> QED BY <2>2
<1> QED BY <1>3, <1>6, <1>8, <1>9 DEF S, n, Picks

LEMMA SquashedIs ==
  ASSUME NEW s \in Seq(Characters)
  PROVE  \E p : Squashed(s, SquashInner(ReplaceLeet(LowerCase(StripZeroWidth(s)))), p)
<1> DEFINE a == StripZeroWidth(s)
           c == ReplaceLeet(LowerCase(a))
           d == SquashInner(c)
<1>1. a \in Seq(Characters)
  BY OnlyIs DEF StripZeroWidth
<1>2. PICK p : Picks(p, a, s, Visible(s))
  <2> DEFINE kept == Characters \ {ZeroWidth}
  <2>1. {i \in DOMAIN s : s[i] \in kept} = Visible(s)
    BY DEF Visible
  <2>2. a = Only(s, kept)
    BY DEF StripZeroWidth
  <2> HIDE DEF kept, a
  <2>3. \E p : Picks(p, Only(s, kept), s, {i \in DOMAIN s : s[i] \in kept})
    BY OnlyIs
  <2> QED BY <2>1, <2>2, <2>3
<1> HIDE DEF a
<1>2a. Numbers(p, Len(a), Visible(s)) /\ \A k \in 1..Len(a) : a[k] = s[p[k]]
  BY <1>2 DEF Picks
<1>3. /\ c \in Seq(Characters) /\ Len(c) = Len(a)
      /\ \A k \in 1..Len(a) :
           /\ Gap(s, p[k]) => c[k] \notin Letters
           /\ ~Gap(s, p[k]) /\ Read(a[k]) # <<>>
                => c[k] \in Letters /\ Read(a[k]) = <<c[k]>>
           /\ Inner(c, k) /\ ~Kept(c)[k] <=> ~Gap(s, p[k]) /\ Read(a[k]) = <<>>
  BY <1>1, <1>2a, Translated
<1> DEFINE Y == {k \in 1..Len(c) : ~(Inner(c, k) /\ ~Kept(c)[k])}
<1> HIDE DEF c
<1>4. d \in Seq(Characters)
  BY <1>3, SquashInnerIs
<1>4a. PICK q : Picks(q, d, c, Y)
  BY <1>3, SquashInnerIs
<1> HIDE DEF d
<1>5. Numbers(q, Len(d), Y) /\ \A j \in 1..Len(d) : d[j] = c[q[j]]
  BY <1>4a DEF Picks
<1>6. Y \in SUBSET (1..Len(a))
  BY <1>3
<1>7. \A k \in 1..Len(a) : k \in Y <=> Gap(s, p[k]) \/ Read(a[k]) # <<>>
  BY <1>3
<1> HIDE DEF Y
<1> DEFINE r == [k \in 1..Len(d) |-> p[q[k]]]
<1>8. Numbers(r, Len(d), {p[j] : j \in Y})
  <2> DEFINE S == Visible(s)
             m == Len(a)
             n == Len(d)
  <2>1. S \in SUBSET Nat
    BY DEF Visible
  <2>2. Numbers(p, m, S) /\ Y \in SUBSET (1..m) /\ Numbers(q, n, Y)
    BY <1>2a, <1>5, <1>6
  <2>3. r = [k \in 1..n |-> p[q[k]]]
    OBVIOUS
  <2> HIDE DEF S, m, n, r
  <2>4. Numbers([k \in 1..n |-> p[q[k]]], n, {p[j] : j \in Y})
    BY <2>1, <2>2, Renumbered
  <2> QED BY <2>3, <2>4 DEF n
<1>9. {p[j] : j \in Y} = Solid(s)
  <2>1. \A k \in 1..Len(a) : p[k] \in Visible(s) /\ a[k] = s[p[k]]
    BY <1>2a DEF Numbers
  <2>2. ASSUME NEW k \in Y PROVE p[k] \in Solid(s)
    BY <1>6, <1>7, <2>1 DEF Solid, Visible
  <2>3. ASSUME NEW i \in Solid(s) PROVE \E k \in Y : p[k] = i
    <3>1. ZeroWidth \in Characters /\ Space # ZeroWidth
      BY ClassesAssumption DEF Characters
    <3>2. s[i] # ZeroWidth
      BY <2>3, <3>1, Reads DEF Solid, Gap
    <3>3. i \in Visible(s)
      BY <2>3, <3>2 DEF Solid, Visible
    <3>4. PICK k \in 1..Len(a) : p[k] = i
      BY <1>2a, <3>3 DEF Numbers
    <3>5. k \in Y
      BY <1>7, <2>1, <2>3, <3>4 DEF Solid
    <3> QED BY <3>4, <3>5
  <2> QED BY <2>2, <2>3
<1>10. ASSUME NEW j \in 1..Len(d)
       PROVE  /\ Gap(s, r[j]) => d[j] \notin Letters
              /\ ~Gap(s, r[j]) => d[j] \in Letters /\ Read(s[r[j]]) = <<d[j]>>
  <2>1. r[j] = p[q[j]] /\ q[j] \in Y /\ q[j] \in 1..Len(a) /\ d[j] = c[q[j]]
    BY <1>5, <1>6 DEF Numbers
  <2>2. a[q[j]] = s[r[j]]
    BY <1>2a, <2>1
  <2> HIDE DEF r
  <2> QED BY <1>3, <1>7, <2>1, <2>2
<1> HIDE DEF r
<1>11. Squashed(s, d, r)
  BY <1>4, <1>8, <1>9, <1>10 DEF Squashed
<1> QED BY <1>11 DEF d, c, a

(* Each blank in the place of the first it stands for. *)
LEMMA BlankRunsIs ==
  ASSUME NEW d \in Seq(Characters)
  PROVE  /\ BlankRuns(d) \in Seq(Letters \cup {Space})
         /\ \E u : /\ Numbers(u, Len(BlankRuns(d)),
                              {i \in 1..Len(d) : Kept(d)[i] \/ i = 1 \/ Kept(d)[i - 1]})
                   /\ \A l \in 1..Len(BlankRuns(d)) :
                        BlankRuns(d)[l] = IF Kept(d)[u[l]] THEN d[u[l]] ELSE Space
<1> DEFINE n == Len(d)
           T == Letters \cup {Space}
           Blanked(i) == IF Kept(d)[i] THEN d[i] ELSE Space
           ps == [i \in DOMAIN d |-> IF Kept(d)[i] THEN <<d[i]>>
                                     ELSE IF i > 1 /\ ~Kept(d)[i - 1] THEN <<>>
                                     ELSE <<Space>>]
           out == FlattenSeq(ps)
           S == {i \in 1..n : Kept(d)[i] \/ i = 1 \/ Kept(d)[i - 1]}
<1>0. DOMAIN d = 1..n /\ n \in Nat
  OBVIOUS
<1>0a. \A i \in 1..n : Kept(d)[i] <=> d[i] \in Letters \cup {Space}
  BY <1>0 DEF Kept
<1>1. /\ DOMAIN d = 1..n /\ n \in Nat
      /\ \A i \in 1..n : Kept(d)[i] <=> d[i] \in T
  BY <1>0, <1>0a
<1>2. BlankRuns(d) = out
  BY DEF BlankRuns
<1>3. \A i \in 1..n : Blanked(i) \in T
  BY <1>1
<1>4. /\ ps = [i \in 1..n |-> ps[i]]
      /\ \A i \in 1..n : ps[i] = IF i \in S THEN <<Blanked(i)>> ELSE <<>>
  BY <1>1
<1>5. \A i \in S : i \in 1..n
  OBVIOUS
<1>6. /\ \A i \in 1..n : ps[i] = <<>> \/ \E b \in T : ps[i] = <<b>>
      /\ \A i \in 1..n : ps[i] # <<>> <=> i \in S
      /\ \A i \in S : ps[i] = <<Blanked(i)>>
  <2> HIDE DEF ps, S, T, Blanked
  <2>1. ASSUME NEW i \in 1..n
        PROVE  /\ ps[i] = <<>> \/ \E b \in T : ps[i] = <<b>>
               /\ ps[i] # <<>> <=> i \in S
    <3>1. CASE i \in S
      <4>1. ps[i] = <<Blanked(i)>> /\ Blanked(i) \in T
        BY <1>3, <1>4, <3>1
      <4> QED BY <3>1, <4>1
    <3>2. CASE i \notin S
      BY <1>4, <3>2
    <3> QED BY <3>1, <3>2
  <2>2. \A i \in S : ps[i] = <<Blanked(i)>>
    BY <1>4, <1>5
  <2> QED BY <2>1, <2>2
<1> HIDE DEF n, ps, S, T, Blanked
<1>7. Bits(ps, T) /\ Len(ps) = n
  BY <1>1, <1>4, <1>6, BitByBit
<1>8. Filled(ps, n) = S
  BY <1>5, <1>6 DEF Filled
<1>9. out \in Seq(T)
  BY <1>7, Sifted
<1>10. PICK u : Sifts(u, out, ps, n)
  BY <1>7, Sifted
<1> HIDE DEF out
<1>11. /\ Numbers(u, Len(out), S)
       /\ \A k \in 1..Len(out) : ps[u[k]] = <<out[k]>>
  BY <1>8, <1>10 DEF Sifts
<1>12. \A k \in 1..Len(out) : out[k] = Blanked(u[k])
  <2> SUFFICES ASSUME NEW k \in 1..Len(out) PROVE out[k] = Blanked(u[k])
    OBVIOUS
  <2>1. u[k] \in S
    BY <1>11 DEF Numbers
  <2>2. <<out[k]>> = <<Blanked(u[k])>>
    BY <1>6, <1>11, <2>1
  <2> QED BY <2>2
<1>13. /\ \A k \in 1..Len(out) : out[k] = IF Kept(d)[u[k]] THEN d[u[k]] ELSE Space
       /\ Numbers(u, Len(out), {i \in 1..Len(d) : Kept(d)[i] \/ i = 1 \/ Kept(d)[i - 1]})
  BY <1>11, <1>12 DEF Blanked, S, n
<1> QED BY <1>2, <1>9, <1>13 DEF T

(* The text e has every letter that is read in s, in its order, and in     *)
(* between another character for the gaps, if there is one.                *)
Aligned(P, e, s) ==
  /\ e \in Seq(Letters \cup {Space}) /\ P \in [1..Len(e) -> DOMAIN s]
  /\ \A l, m \in 1..Len(e) : l < m => P[l] < P[m]
  /\ \A l \in 1..Len(e) :
       IF e[l] \in Letters THEN ~Gap(s, P[l]) /\ Read(s[P[l]]) = <<e[l]>>
                           ELSE Gap(s, P[l])
  /\ \A i \in DOMAIN s : ~Gap(s, i) /\ Read(s[i]) # <<>>
                           => \E l \in 1..Len(e) : P[l] = i
  /\ \A l, m \in 1..Len(e) : \A g \in P[l]..P[m] :
       e[l] \in Letters /\ e[m] \in Letters /\ Gap(s, g)
         => \E x \in l..m : e[x] \notin Letters

LEMMA SpaceIsNone == Space \notin Letters
BY ClassesAssumption

LEMMA BlanksAligned ==
  ASSUME NEW s \in Seq(Characters), NEW d, NEW p, Squashed(s, d, p)
  PROVE  \E P : Aligned(P, BlankRuns(d), s)
<1> DEFINE e == BlankRuns(d)
           n == Len(d)
           N == Len(e)
           Y == {i \in 1..n : Kept(d)[i] \/ i = 1 \/ Kept(d)[i - 1]}
<1>1. d \in Seq(Characters) /\ n \in Nat /\ DOMAIN d = 1..n
  BY DEF Squashed
<1>2. e \in Seq(Letters \cup {Space}) /\ N \in Nat
  BY <1>1, BlankRunsIs
<1>3. PICK u : /\ Numbers(u, N, Y)
               /\ \A l \in 1..N : e[l] = IF Kept(d)[u[l]] THEN d[u[l]] ELSE Space
  BY <1>1, BlankRunsIs
<1>4. \A i \in 1..n : Kept(d)[i] <=> d[i] \in Letters \cup {Space}
  BY <1>1 DEF Kept
<1>5. /\ \A j \in 1..n : p[j] \in DOMAIN s /\ p[j] \in Nat
      /\ \A i, j \in 1..n : i < j => p[i] < p[j]
      /\ \A i \in Solid(s) : \E j \in 1..n : p[j] = i
      /\ \A j \in 1..n : /\ Gap(s, p[j]) => d[j] \notin Letters
                         /\ ~Gap(s, p[j]) => d[j] \in Letters /\ Read(s[p[j]]) = <<d[j]>>
  <2>1. /\ p \in [1..n -> Solid(s)]
        /\ \A i, j \in 1..n : i < j => p[i] < p[j]
        /\ \A i \in Solid(s) : \E j \in 1..n : p[j] = i
    BY DEF Squashed, Numbers
  <2>2. \A i \in Solid(s) : i \in DOMAIN s /\ i \in Nat
    BY DEF Solid
  <2>3. \A j \in 1..n : /\ Gap(s, p[j]) => d[j] \notin Letters
                        /\ ~Gap(s, p[j]) => d[j] \in Letters /\ Read(s[p[j]]) = <<d[j]>>
    BY DEF Squashed
  <2> QED BY <2>1, <2>2, <2>3
<1>5a. \A i, j \in 1..n : p[i] < p[j] => i < j
  <2> SUFFICES ASSUME NEW i \in 1..n, NEW j \in 1..n, p[i] < p[j], ~(i < j)
               PROVE  FALSE
    OBVIOUS
  <2>1. i = j \/ j < i
    BY <1>1
  <2>2. p[j] <= p[i] /\ p[i] \in Nat /\ p[j] \in Nat
    BY <1>5, <2>1
  <2> QED BY <2>2
<1>6. /\ \A l \in 1..N : u[l] \in Y /\ u[l] \in 1..n
      /\ \A l, m \in 1..N : l < m => u[l] < u[m]
      /\ \A i \in Y : \E l \in 1..N : u[l] = i
  BY <1>3 DEF Numbers
<1>6a. \A l, m \in 1..N : u[l] < u[m] => l < m
  <2> SUFFICES ASSUME NEW l \in 1..N, NEW m \in 1..N, u[l] < u[m], ~(l < m)
               PROVE  FALSE
    OBVIOUS
  <2>1. l = m \/ m < l
    BY <1>2
  <2>2. u[m] <= u[l] /\ u[l] \in 1..n /\ u[m] \in 1..n
    BY <1>6, <2>1
  <2> QED BY <1>1, <2>2
<1> DEFINE P == [l \in 1..N |-> p[u[l]]]
<1> HIDE DEF e
<1>7. /\ P \in [1..N -> DOMAIN s] /\ \A l \in 1..N : P[l] = p[u[l]]
      /\ \A l, m \in 1..N : l < m => P[l] < P[m]
  <2>1. \A l \in 1..N : p[u[l]] \in DOMAIN s
    BY <1>5, <1>6
  <2>2. \A l, m \in 1..N : l < m => p[u[l]] < p[u[m]]
    BY <1>5, <1>6
  <2> QED BY <2>1, <2>2
<1> HIDE DEF P, N, n
<1>8. \A l \in 1..N : e[l] \in Letters <=> d[u[l]] \in Letters
  BY <1>3, <1>4, <1>6, SpaceIsNone
<1>9. ASSUME NEW l \in 1..N
      PROVE  IF e[l] \in Letters THEN ~Gap(s, P[l]) /\ Read(s[P[l]]) = <<e[l]>>
                                 ELSE Gap(s, P[l])
  <2>1. u[l] \in 1..n /\ P[l] = p[u[l]]
    BY <1>6, <1>7
  <2>2. CASE e[l] \in Letters
    <3>1. d[u[l]] \in Letters /\ e[l] = d[u[l]]
      BY <1>3, <1>4, <1>8, <2>1, <2>2
    <3> QED BY <1>5, <2>1, <2>2, <3>1
  <2>3. CASE e[l] \notin Letters
    BY <1>5, <1>8, <2>1, <2>3
  <2> QED BY <2>2, <2>3
<1>10. ASSUME NEW i \in DOMAIN s, ~Gap(s, i), Read(s[i]) # <<>>
       PROVE  \E l \in 1..N : P[l] = i
  <2>1. PICK j \in 1..n : p[j] = i
    BY <1>5, <1>10 DEF Solid
  <2>2. d[j] \in Letters
    BY <1>5, <1>10, <2>1
  <2>3. j \in Y
    BY <1>4, <2>2 DEF n
  <2>4. PICK l \in 1..N : u[l] = j
    BY <1>6, <2>3
  <2> QED BY <1>7, <2>1, <2>4
<1>11. ASSUME NEW l \in 1..N, NEW m \in 1..N, NEW g \in P[l]..P[m],
              e[l] \in Letters, e[m] \in Letters, Gap(s, g)
       PROVE  \E x \in l..m : e[x] \notin Letters
  <2>0. /\ u[l] \in 1..n /\ u[m] \in 1..n /\ P[l] = p[u[l]] /\ P[m] = p[u[m]]
        /\ P[l] \in Nat /\ P[m] \in Nat /\ P[l] \in DOMAIN s /\ P[m] \in DOMAIN s
    BY <1>5, <1>6, <1>7
  <2>1. g # P[l] /\ g # P[m]
    BY <1>9, <1>11
  <2>2. g \in Nat /\ P[l] < g /\ g < P[m]
    BY <2>0, <2>1
  <2>3. g \in Solid(s)
    <3>1. DOMAIN s = 1..Len(s) /\ Len(s) \in Nat
      OBVIOUS
    <3> QED BY <1>11, <2>0, <2>2, <3>1 DEF Solid
  <2>4. PICK j \in 1..n : p[j] = g
    BY <1>5, <2>3
  <2>5. u[l] < j /\ j < u[m] /\ d[j] \notin Letters
    BY <1>5, <1>5a, <1>11, <2>0, <2>2, <2>4
  <2> DEFINE B == {z \in 1..n : u[l] < z /\ d[z] \notin Letters}
  <2>6. PICK z \in B : \A y \in B : z <= y
    <3>1. B \in SUBSET Nat /\ j \in B
      BY <2>5
    <3> HIDE DEF B
    <3> QED BY <3>1, Smallest
  <2>7. z \in 1..n /\ u[l] < z /\ d[z] \notin Letters /\ z <= j
    BY <2>5, <2>6
  <2>8. z - 1 \in 1..n /\ d[z - 1] \in Letters
    <3>1. z - 1 \in 1..n /\ ~(z <= z - 1)
      BY <1>1, <2>0, <2>7 DEF n
    <3>2. z - 1 = u[l] \/ u[l] < z - 1
      BY <1>1, <2>0, <2>7 DEF n
    <3>3. CASE z - 1 = u[l]
      BY <1>8, <1>11, <3>1, <3>3
    <3>4. CASE u[l] < z - 1
      <4>1. z - 1 \notin B
        BY <2>6, <3>1
      <4> QED BY <3>1, <3>4, <4>1
    <3> QED BY <3>2, <3>3, <3>4
  <2>9. z \in Y
    BY <1>4, <2>7, <2>8 DEF n
  <2>10. PICK x \in 1..N : u[x] = z
    BY <1>6, <2>9
  <2>11. u[l] < u[x] /\ u[x] < u[m]
    <3>1. j \in Nat /\ z \in Nat /\ u[m] \in Nat
      BY <1>1, <2>0, <2>7 DEF n
    <3> QED BY <2>5, <2>7, <2>10, <3>1
  <2>12. l < x /\ x < m
    BY <1>6a, <2>11
  <2>13. x \in l..m
    BY <1>2, <2>12 DEF N
  <2>14. e[x] \notin Letters
    BY <1>8, <2>7, <2>10
  <2> QED BY <2>13, <2>14
<1>12. Aligned(P, e, s)
  BY <1>2, <1>7, <1>9, <1>10, <1>11 DEF Aligned, N
<1> QED BY <1>12 DEF e

(* What normalize makes of a message. *)
LEMMA NormalizeAligned ==
  ASSUME NEW s \in Seq(Characters)
  PROVE  \E P : Aligned(P, Normalize(s), s)
<1> DEFINE d == SquashInner(ReplaceLeet(LowerCase(StripZeroWidth(s))))
<1>1. PICK p : Squashed(s, d, p)
  BY SquashedIs
<1>2. Normalize(s) = BlankRuns(d)
  BY DEF Normalize
<1> HIDE DEF d
<1> QED BY <1>1, <1>2, BlanksAligned

(* The runs and the stretches, by their ends. *)
LEMMA RunIs ==
  ASSUME NEW e, NEW q
  PROVE  q \in LetterRuns(e)
           <=> /\ q \in (1..Len(e)) \X (1..Len(e))
               /\ q[1] <= q[2]
               /\ \A i \in q[1]..q[2] : e[i] \in Letters
               /\ q[1] > 1 => e[q[1] - 1] \notin Letters
               /\ q[2] < Len(e) => e[q[2] + 1] \notin Letters
BY DEF LetterRuns

LEMMA StretchIs ==
  ASSUME NEW s, NEW r
  PROVE  r \in Stretches(s)
           <=> /\ r \in (1..Len(s)) \X (1..Len(s))
               /\ r[1] <= r[2]
               /\ \A i \in r[1]..r[2] : ~Gap(s, i)
               /\ r[1] > 1 => Gap(s, r[1] - 1)
               /\ r[2] < Len(s) => Gap(s, r[2] + 1)
BY DEF Stretches

(* A pair of numbers, the smaller first. *)
LEMMA Ends ==
  ASSUME NEW n \in Nat, NEW q, q \in (1..n) \X (1..n)
  PROVE  q[1] \in 1..n /\ q[2] \in 1..n
OBVIOUS

(* What Aligned says of the places. *)
LEMMA InOrder ==
  ASSUME NEW s \in Seq(Characters), NEW e, NEW P, Aligned(P, e, s)
  PROVE  /\ Len(e) \in Nat /\ Len(s) \in Nat
         /\ \A l \in 1..Len(e) : P[l] \in 1..Len(s)
         /\ \A l, m \in 1..Len(e) : l < m <=> P[l] < P[m]
         /\ \A l \in 1..Len(e) : e[l] \in Letters <=> ~Gap(s, P[l])
<1>1. e \in Seq(Letters \cup {Space}) /\ P \in [1..Len(e) -> DOMAIN s]
  BY DEF Aligned
<1>2. Len(e) \in Nat /\ Len(s) \in Nat /\ DOMAIN s = 1..Len(s)
  BY <1>1
<1>3. \A l, m \in 1..Len(e) : l < m => P[l] < P[m]
  BY DEF Aligned
<1>4. \A l \in 1..Len(e) : P[l] \in 1..Len(s)
  BY <1>1, <1>2
<1>5. ASSUME NEW l \in 1..Len(e), NEW m \in 1..Len(e), P[l] < P[m] PROVE l < m
  <2> SUFFICES ASSUME ~(l < m) PROVE FALSE
    OBVIOUS
  <2>1. l = m \/ m < l
    BY <1>2
  <2>2. P[m] <= P[l] /\ P[l] \in Nat /\ P[m] \in Nat
    BY <1>3, <1>4, <2>1
  <2> QED BY <1>5, <2>2
<1>6. \A l \in 1..Len(e) : e[l] \in Letters <=> ~Gap(s, P[l])
  BY DEF Aligned
<1> QED BY <1>2, <1>3, <1>4, <1>5, <1>6

(* Letters with none but letters between them are of one stretch. *)
LEMMA WithinStretch ==
  ASSUME NEW s \in Seq(Characters), NEW e, NEW P, Aligned(P, e, s),
         NEW r \in Stretches(s), NEW q \in LetterRuns(e),
         NEW l \in q[1]..q[2], P[l] \in r[1]..r[2],
         NEW m \in q[1]..q[2]
  PROVE  P[m] \in r[1]..r[2]
<1>1. /\ q[1] \in 1..Len(e) /\ q[2] \in 1..Len(e)
      /\ \A i \in q[1]..q[2] : e[i] \in Letters
  BY RunIs, InOrder, Ends
<1>2. /\ r[1] \in 1..Len(s) /\ r[2] \in 1..Len(s)
      /\ r[1] > 1 => Gap(s, r[1] - 1)
      /\ r[2] < Len(s) => Gap(s, r[2] + 1)
  BY StretchIs, InOrder, Ends
<1>3. l \in 1..Len(e) /\ m \in 1..Len(e) /\ e[l] \in Letters /\ e[m] \in Letters
  BY <1>1, InOrder
<1>4. P[l] \in 1..Len(s) /\ P[m] \in 1..Len(s) /\ Len(s) \in Nat
  BY <1>3, InOrder
<1>5. \A x, y \in q[1]..q[2] : \A g \in P[x]..P[y] : ~Gap(s, g)
  <2> SUFFICES ASSUME NEW x \in q[1]..q[2], NEW y \in q[1]..q[2],
                      NEW g \in P[x]..P[y], Gap(s, g)
               PROVE  FALSE
    OBVIOUS
  <2>1. x \in 1..Len(e) /\ y \in 1..Len(e) /\ e[x] \in Letters /\ e[y] \in Letters
    BY <1>1, InOrder
  <2>2. PICK z \in x..y : e[z] \notin Letters
    BY <2>1 DEF Aligned
  <2>3. z \in q[1]..q[2]
    BY <1>1, InOrder
  <2> QED BY <1>1, <2>2, <2>3
<1>6. ~(P[m] < r[1])
  <2> SUFFICES ASSUME P[m] < r[1] PROVE FALSE
    OBVIOUS
  <2>1. r[1] > 1 /\ r[1] - 1 \in P[m]..P[l]
    BY <1>2, <1>4
  <2> QED BY <1>2, <1>5, <2>1
<1>7. ~(P[m] > r[2])
  <2> SUFFICES ASSUME P[m] > r[2] PROVE FALSE
    OBVIOUS
  <2>1. r[2] < Len(s) /\ r[2] + 1 \in P[l]..P[m]
    BY <1>2, <1>4
  <2> QED BY <1>2, <1>5, <2>1
<1> QED BY <1>2, <1>4, <1>6, <1>7

(* What is read from end to end is the run. *)
LEMMA SameReading ==
  ASSUME NEW s \in Seq(Characters), NEW e, NEW P, Aligned(P, e, s),
         NEW r \in Stretches(s), NEW q \in LetterRuns(e),
         NEW l \in q[1]..q[2], P[l] \in r[1]..r[2]
  PROVE  Reading(s, r[1], r[2]) = SubSeq(e, q[1], q[2])
<1> DEFINE a == r[1]
           n == r[2] - r[1] + 1
           N == q[2] - q[1] + 1
           ps == [k \in 1..n |-> Read(s[a + k - 1])]
           f == [k \in 1..N |-> P[q[1] + k - 1] - a + 1]
           out == FlattenSeq(ps)
<1>1. /\ q[1] \in 1..Len(e) /\ q[2] \in 1..Len(e) /\ q[1] <= q[2]
      /\ \A i \in q[1]..q[2] : e[i] \in Letters
      /\ q[1] > 1 => e[q[1] - 1] \notin Letters
      /\ q[2] < Len(e) => e[q[2] + 1] \notin Letters
  BY RunIs, InOrder, Ends
<1>2. /\ a \in 1..Len(s) /\ r[2] \in 1..Len(s) /\ a <= r[2]
      /\ \A i \in a..r[2] : ~Gap(s, i)
  BY StretchIs, InOrder, Ends
<1>3. Len(e) \in Nat /\ Len(s) \in Nat /\ DOMAIN s = 1..Len(s)
  BY InOrder
<1>4. n \in Nat /\ N \in Nat
  BY <1>1, <1>2, <1>3
<1>5. /\ \A k \in 1..n : a + k - 1 \in a..r[2] /\ a + k - 1 \in 1..Len(s)
      /\ \A i \in a..r[2] : i - a + 1 \in 1..n
      /\ \A k \in 1..N : q[1] + k - 1 \in q[1]..q[2] /\ q[1] + k - 1 \in 1..Len(e)
      /\ \A x \in q[1]..q[2] : x - q[1] + 1 \in 1..N
  <2>1. /\ \A k \in 1..n : a + k - 1 \in a..r[2] /\ a + k - 1 \in 1..Len(s)
        /\ \A i \in a..r[2] : i - a + 1 \in 1..n
    <3> DEFINE z == r[2]
    <3>1. a \in 1..Len(s) /\ z \in 1..Len(s) /\ a <= z /\ n = z - a + 1
      BY <1>2
    <3> HIDE DEF a, z, n
    <3>2. /\ \A k \in 1..n : a + k - 1 \in a..z /\ a + k - 1 \in 1..Len(s)
          /\ \A i \in a..z : i - a + 1 \in 1..n
      BY <1>3, <3>1
    <3> QED BY <3>2 DEF z
  <2>2. /\ \A k \in 1..N : q[1] + k - 1 \in q[1]..q[2] /\ q[1] + k - 1 \in 1..Len(e)
        /\ \A x \in q[1]..q[2] : x - q[1] + 1 \in 1..N
    <3> DEFINE y == q[1]
               z == q[2]
    <3>1. y \in 1..Len(e) /\ z \in 1..Len(e) /\ y <= z /\ N = z - y + 1
      BY <1>1
    <3> HIDE DEF y, z, N
    <3>2. /\ \A k \in 1..N : y + k - 1 \in y..z /\ y + k - 1 \in 1..Len(e)
          /\ \A x \in y..z : x - y + 1 \in 1..N
      BY <1>3, <3>1
    <3> QED BY <3>2 DEF y, z
  <2> HIDE DEF a, n, N
  <2> QED BY <2>1, <2>2
<1>6. \A x \in q[1]..q[2] : P[x] \in a..r[2]
  BY WithinStretch
<1>7. \A i \in 1..Len(s) : s[i] \in Characters
  BY <1>3
<1>8. ps = [i \in 1..n |-> ps[i]] /\ \A k \in 1..n : ps[k] = Read(s[a + k - 1])
  OBVIOUS
<1>9. Reading(s, r[1], r[2]) = out
  BY DEF Reading
<1>10. f = [k \in 1..N |-> f[k]] /\ \A k \in 1..N : f[k] = P[q[1] + k - 1] - a + 1
  OBVIOUS
<1> HIDE DEF a, n, N, ps, f
<1>11. Bits(ps, Letters) /\ Len(ps) = n
  <2>1. \A i \in 1..n : ps[i] = <<>> \/ \E b \in Letters : ps[i] = <<b>>
    <3> SUFFICES ASSUME NEW i \in 1..n
                 PROVE  ps[i] = <<>> \/ \E b \in Letters : ps[i] = <<b>>
      OBVIOUS
    <3> DEFINE c == s[a + i - 1]
    <3>1. c \in Characters /\ ps[i] = Read(c)
      BY <1>5, <1>7, <1>8
    <3> HIDE DEF c
    <3> QED BY <3>1, Reads
  <2> QED BY <1>4, <1>8, <2>1, BitByBit
<1>12. out \in Seq(Letters)
  BY <1>11, Sifted
<1>13. PICK t : Sifts(t, out, ps, n)
  BY <1>11, Sifted
<1> HIDE DEF out
<1>14. /\ Numbers(t, Len(out), Filled(ps, n))
       /\ \A k \in 1..Len(out) : ps[t[k]] = <<out[k]>>
  BY <1>13 DEF Sifts
<1>15. \A x \in q[1]..q[2] : Read(s[P[x]]) = <<e[x]>> /\ P[x] \in 1..Len(s)
  <2>1. \A x \in q[1]..q[2] : x \in 1..Len(e)
    BY <1>1, <1>3
  <2> QED BY <1>1, <2>1, InOrder DEF Aligned
<1>16. \A k \in 1..N : /\ f[k] \in 1..n
                       /\ ps[f[k]] = <<e[q[1] + k - 1]>>
  <2> SUFFICES ASSUME NEW k \in 1..N
               PROVE  f[k] \in 1..n /\ ps[f[k]] = <<e[q[1] + k - 1]>>
    OBVIOUS
  <2> DEFINE x == q[1] + k - 1
  <2>1. x \in q[1]..q[2] /\ P[x] \in a..r[2] /\ f[k] = P[x] - a + 1
    BY <1>5, <1>6, <1>10
  <2>2. Read(s[P[x]]) = <<e[x]>> /\ P[x] \in 1..Len(s)
    BY <1>15, <2>1
  <2> HIDE DEF x
  <2>3. f[k] \in 1..n /\ a + f[k] - 1 = P[x]
    <3>1. f[k] \in 1..n
      BY <1>5, <2>1
    <3>2. P[x] \in Nat /\ a \in Nat
      BY <1>2, <2>2
    <3> QED BY <2>1, <3>1, <3>2
  <2> QED BY <1>8, <2>2, <2>3 DEF x
<1>17. \A k, j \in 1..N : k < j => f[k] < f[j]
  <2> SUFFICES ASSUME NEW k \in 1..N, NEW j \in 1..N, k < j PROVE f[k] < f[j]
    OBVIOUS
  <2>1. /\ q[1] + k - 1 \in 1..Len(e) /\ q[1] + j - 1 \in 1..Len(e)
        /\ q[1] + k - 1 < q[1] + j - 1
    BY <1>1, <1>5
  <2>2. /\ P[q[1] + k - 1] < P[q[1] + j - 1]
        /\ P[q[1] + k - 1] \in 1..Len(s) /\ P[q[1] + j - 1] \in 1..Len(s)
    BY <2>1, InOrder
  <2> QED BY <1>2, <1>10, <2>2
<1>18. ASSUME NEW i \in Filled(ps, n) PROVE \E k \in 1..N : f[k] = i
  <2> DEFINE j == a + i - 1
  <2>1. /\ i \in 1..n /\ ps[i] # <<>> /\ j \in a..r[2] /\ j \in 1..Len(s)
        /\ Read(s[j]) # <<>> /\ j - a + 1 = i
    BY <1>2, <1>5, <1>8 DEF Filled
  <2> HIDE DEF j
  <2>2. ~Gap(s, j)
    BY <1>2, <2>1
  <2>3. PICK x \in 1..Len(e) : P[x] = j
    BY <1>3, <2>1, <2>2 DEF Aligned
  <2>4. ~(x < q[1])
    <3> SUFFICES ASSUME x < q[1] PROVE FALSE
      OBVIOUS
    <3>1. q[1] > 1 /\ q[1] - 1 \in 1..Len(e) /\ q[1] - 1 < q[1] /\ x <= q[1] - 1
      BY <1>1, <1>3
    <3>2. Gap(s, P[q[1] - 1])
      BY <1>1, <3>1, InOrder
    <3>3. x < q[1] - 1
      BY <2>2, <2>3, <3>1, <3>2, <1>3
    <3>4. P[x] < P[q[1] - 1] /\ P[q[1] - 1] < P[q[1]]
      BY <1>1, <3>1, <3>3, InOrder
    <3>5. P[q[1]] \in a..r[2] /\ P[x] \in a..r[2] /\ P[q[1] - 1] \in 1..Len(s)
      BY <1>1, <1>6, <2>1, <2>3, <3>1, InOrder
    <3>6. P[q[1] - 1] \in a..r[2]
      BY <1>2, <3>4, <3>5
    <3> QED BY <1>2, <3>2, <3>6
  <2>5. ~(x > q[2])
    <3> SUFFICES ASSUME x > q[2] PROVE FALSE
      OBVIOUS
    <3>1. q[2] < Len(e) /\ q[2] + 1 \in 1..Len(e) /\ q[2] < q[2] + 1 /\ q[2] + 1 <= x
      BY <1>1, <1>3
    <3>2. Gap(s, P[q[2] + 1])
      BY <1>1, <3>1, InOrder
    <3>3. q[2] + 1 < x
      BY <2>2, <2>3, <3>1, <3>2, <1>3
    <3>4. P[q[2]] < P[q[2] + 1] /\ P[q[2] + 1] < P[x]
      BY <1>1, <3>1, <3>3, InOrder
    <3>5. P[q[2]] \in a..r[2] /\ P[x] \in a..r[2] /\ P[q[2] + 1] \in 1..Len(s)
      BY <1>1, <1>6, <2>1, <2>3, <3>1, InOrder
    <3>6. P[q[2] + 1] \in a..r[2]
      BY <1>2, <3>4, <3>5
    <3> QED BY <1>2, <3>2, <3>6
  <2>6. x \in q[1]..q[2]
    BY <1>1, <1>3, <2>4, <2>5
  <2>7. x - q[1] + 1 \in 1..N /\ q[1] + (x - q[1] + 1) - 1 = x
    <3>1. x - q[1] + 1 \in 1..N
      BY <1>5, <2>6
    <3>2. q[1] \in Nat /\ x \in Nat
      BY <1>1
    <3> QED BY <3>1, <3>2
  <2> QED BY <1>10, <2>1, <2>3, <2>7
<1>19. Numbers(f, N, Filled(ps, n))
  <2>1. \A k \in 1..N : f[k] \in Filled(ps, n)
    <3>1. \A b \in Letters : <<b>> # <<>>
      OBVIOUS
    <3> QED BY <1>1, <1>5, <1>16, <3>1 DEF Filled
  <2>2. f \in [1..N -> Filled(ps, n)]
    BY <1>10, <2>1
  <2> QED BY <1>4, <1>17, <1>18, <2>2 DEF Numbers
<1>20. Len(out) = N /\ t = f
  <2>1. Filled(ps, n) \in SUBSET Nat
    BY DEF Filled
  <2> QED BY <1>14, <1>19, <2>1, SameNumbers
<1>21. \A k \in 1..N : out[k] = e[q[1] + k - 1]
  <2> SUFFICES ASSUME NEW k \in 1..N PROVE out[k] = e[q[1] + k - 1]
    OBVIOUS
  <2>1. <<out[k]>> = <<e[q[1] + k - 1]>>
    BY <1>14, <1>16, <1>20
  <2> QED BY <2>1
<1>22. out = SubSeq(e, q[1], q[2])
  <2>1. out = [k \in 1..N |-> e[q[1] + k - 1]]
    BY <1>4, <1>12, <1>20, <1>21
  <2>2. SubSeq(e, q[1], q[2]) = [k \in 1..N |-> e[q[1] + k - 1]]
    <3> DEFINE y == q[1]
               z == q[2]
    <3>1. e \in Seq(Letters \cup {Space}) /\ y \in 1..Len(e) /\ z \in 1..Len(e)
      BY <1>1 DEF Aligned
    <3>2. N = z - y + 1
      BY DEF N
    <3> HIDE DEF y, z
    <3>3. SubSeq(e, y, z) = [k \in 1..N |-> e[y + k - 1]]
      BY <3>1, <3>2
    <3> QED BY <3>3 DEF y, z
  <2> QED BY <2>1, <2>2
<1> QED BY <1>9, <1>22

(* Where something is read, there is a run. *)
LEMMA RunOf ==
  ASSUME NEW s \in Seq(Characters), NEW e, NEW P, Aligned(P, e, s),
         NEW r \in Stretches(s), Reading(s, r[1], r[2]) # <<>>
  PROVE  \E q \in LetterRuns(e) : \E l \in q[1]..q[2] : P[l] \in r[1]..r[2]
<1> DEFINE a == r[1]
           n == r[2] - r[1] + 1
           ps == [k \in 1..n |-> Read(s[a + k - 1])]
<1>1. /\ a \in 1..Len(s) /\ r[2] \in 1..Len(s) /\ a <= r[2]
      /\ \A i \in a..r[2] : ~Gap(s, i)
      /\ a > 1 => Gap(s, a - 1)
      /\ r[2] < Len(s) => Gap(s, r[2] + 1)
  BY StretchIs, InOrder, Ends
<1>2. Len(e) \in Nat /\ Len(s) \in Nat /\ DOMAIN s = 1..Len(s)
  BY InOrder
<1>3. \A i \in 1..Len(s) : s[i] \in Characters
  BY <1>2
<1>4. PICK i \in a..r[2] : Read(s[i]) # <<>>
  <2> SUFFICES ASSUME \A i \in a..r[2] : Read(s[i]) = <<>> PROVE FALSE
    OBVIOUS
  <2>1. n \in Nat /\ \A k \in 1..n : a + k - 1 \in a..r[2]
    <3> DEFINE z == r[2]
    <3>1. a \in 1..Len(s) /\ z \in 1..Len(s) /\ a <= z /\ n = z - a + 1
      BY <1>1
    <3> HIDE DEF a, z, n
    <3>2. n \in Nat /\ \A k \in 1..n : a + k - 1 \in a..z
      BY <1>2, <3>1
    <3> QED BY <3>2 DEF z
  <2>2. ps = [k \in 1..n |-> ps[k]] /\ \A k \in 1..n : ps[k] = Read(s[a + k - 1])
    OBVIOUS
  <2>3. Reading(s, r[1], r[2]) = FlattenSeq(ps)
    BY DEF Reading
  <2> HIDE DEF ps, n, a
  <2>4. \A k \in 1..n : ps[k] = <<>>
    BY <2>1, <2>2
  <2>5. Bits(ps, Letters) /\ Len(ps) = n
    BY <2>1, <2>2, <2>4, BitByBit
  <2>6. FlattenSeq(ps) \in Seq(Letters)
    BY <2>5, Sifted
  <2>7. PICK t : Sifts(t, FlattenSeq(ps), ps, n)
    BY <2>5, Sifted
  <2>8. Filled(ps, n) = {}
    BY <2>4 DEF Filled
  <2>9. t \in [1..Len(FlattenSeq(ps)) -> {}]
    BY <2>7, <2>8 DEF Sifts, Numbers
  <2>10. Len(FlattenSeq(ps)) = 0
    <3> DEFINE m == Len(FlattenSeq(ps))
    <3>1. m \in Nat /\ t \in [1..m -> {}]
      BY <2>6, <2>9
    <3> HIDE DEF m
    <3>2. m # 0 => 1 \in 1..m
      BY <3>1
    <3>3. \A k \in 1..m : t[k] \in {}
      BY <3>1
    <3>4. m = 0
      BY <3>2, <3>3
    <3> QED BY <3>4 DEF m
  <2> QED BY <2>3, <2>6, <2>10
<1> HIDE DEF a
<1>5. i \in 1..Len(s) /\ ~Gap(s, i)
  BY <1>1, <1>2
<1>6. PICK l \in 1..Len(e) : P[l] = i
  BY <1>2, <1>4, <1>5 DEF Aligned
<1>7. e[l] \in Letters
  BY <1>5, <1>6, InOrder
<1> DEFINE G == {x \in 1..Len(e) : e[x] \notin Letters}
<1>8. PICK b, c : Around(G, Len(e), l, b, c)
  <2>1. l \notin G
    BY <1>7
  <2> HIDE DEF G
  <2> QED BY <1>2, <2>1, StretchAround
<1>9. /\ b \in 1..l /\ c \in l..Len(e) /\ b \in 1..Len(e) /\ c \in 1..Len(e)
      /\ \A x \in b..c : e[x] \in Letters
      /\ b > 1 => e[b - 1] \notin Letters
      /\ c < Len(e) => e[c + 1] \notin Letters
  BY <1>2, <1>8 DEF Around
<1> DEFINE q == <<b, c>>
<1>10. q[1] = b /\ q[2] = c
  OBVIOUS
<1>11. q \in LetterRuns(e) /\ l \in q[1]..q[2]
  <2>1. q \in (1..Len(e)) \X (1..Len(e)) /\ b <= c /\ l \in b..c
    BY <1>2, <1>9
  <2> HIDE DEF q
  <2> QED BY <1>9, <1>10, <2>1, RunIs
<1> QED BY <1>4, <1>6, <1>11 DEF a

(* A run stands in a stretch. *)
LEMMA StretchOf ==
  ASSUME NEW s \in Seq(Characters), NEW e, NEW P, Aligned(P, e, s),
         NEW q \in LetterRuns(e)
  PROVE  \E r \in Stretches(s) : P[q[1]] \in r[1]..r[2] /\ q[1] \in q[1]..q[2]
<1>1. /\ q[1] \in 1..Len(e) /\ q[2] \in 1..Len(e) /\ q[1] <= q[2]
      /\ \A i \in q[1]..q[2] : e[i] \in Letters
  BY RunIs, InOrder, Ends
<1>2. Len(e) \in Nat /\ Len(s) \in Nat
  BY InOrder
<1>3. q[1] \in q[1]..q[2]
  BY <1>1, <1>2
<1> DEFINE i == P[q[1]]
           G == {x \in 1..Len(s) : Gap(s, x)}
<1>4. i \in 1..Len(s) /\ i \notin G
  BY <1>1, <1>3, InOrder
<1> HIDE DEF i
<1>5. PICK b, c : Around(G, Len(s), i, b, c)
  <2> HIDE DEF G
  <2> QED BY <1>2, <1>4, StretchAround
<1>6. /\ b \in 1..i /\ c \in i..Len(s) /\ b \in 1..Len(s) /\ c \in 1..Len(s)
      /\ b > 1 => Gap(s, b - 1)
      /\ c < Len(s) => Gap(s, c + 1)
  BY <1>2, <1>4, <1>5 DEF Around
<1>7. \A x \in b..c : ~Gap(s, x)
  <2>1. \A x \in b..c : x \in 1..Len(s) /\ x \notin G
    BY <1>2, <1>5, <1>6 DEF Around
  <2> QED BY <2>1
<1> DEFINE r == <<b, c>>
<1>8. r[1] = b /\ r[2] = c
  OBVIOUS
<1>9. r \in Stretches(s) /\ i \in r[1]..r[2]
  <2>1. r \in (1..Len(s)) \X (1..Len(s)) /\ b <= c /\ i \in b..c
    BY <1>2, <1>4, <1>6
  <2> HIDE DEF r
  <2> QED BY <1>6, <1>7, <1>8, <2>1, StretchIs
<1> QED BY <1>3, <1>9 DEF i

-----------------------------------------------------------------------------
(* The pattern of a word. *)

(* The states after one more letter. *)
StepOver(word, states, c) ==
  {k \in DOMAIN word : word[k] = c /\ {k, k - 1} \cap states # {}}

LEMMA AcceptSteps ==
  ASSUME NEW word \in Seq(Letters), NEW run \in Seq(Letters)
  PROVE  \E f : /\ f[0] = {0}
                /\ \A k \in 1..Len(run) : f[k] = StepOver(word, f[k - 1], run[k])
                /\ Accepts(word, run) <=> Len(word) \in f[Len(run)]
<1> DEFINE N == Len(run)
           D == SUBSET Nat
           Eq(g) == g = [x \in SUBSET (1..N) |->
                          IF x = {} THEN {0}
                          ELSE StepOver(word, g[x \ {Max(x)}], run[Max(x)])]
           F == [x \in D \X (1..N) |-> StepOver(word, x[1], run[x[2]])]
<1>0. N \in Nat /\ DOMAIN run = 1..N /\ \A i \in 1..N : run[i] \in Letters
  OBVIOUS
<1>0a. \A x : Max(x) = Listing!Max(x)
  BY DEF Max, Listing!Max
<1>1. Accepts(word, run) <=> Len(word) \in (CHOOSE g : Eq(g))[1..N]
  <2>1. DOMAIN run = 1..Len(run)
    BY <1>0
  <2> QED
    BY <2>1 DEF Accepts, FoldLeft, MapThenFoldSet, StepOver
<1>2. \E g : Eq(g)
  <2>1. F \in [D \X (1..N) -> D] /\ {0} \in D
    <3>1. ASSUME NEW x \in D \X (1..N) PROVE StepOver(word, x[1], run[x[2]]) \in D
      BY DEF StepOver
    <3> QED BY <3>1
  <2>2. PICK g : FoldsTo(g, N, D, {0}, F)
    <3> HIDE DEF F, N, D
    <3> QED BY <1>0, <2>1, FoldOver
  <2>3. ASSUME NEW x \in SUBSET (1..N), x # {}
        PROVE  F[g[x \ {Max(x)}], Max(x)]
                 = StepOver(word, g[x \ {Max(x)}], run[Max(x)])
    <3>1. Max(x) \in 1..N /\ g[x \ {Max(x)}] \in D
      <4> HIDE DEF F, N, D
      <4> QED BY <1>0, <1>0a, <2>2, <2>3, Highest DEF FoldsTo
    <3> QED BY <3>1
  <2>4. g = [x \in SUBSET (1..N) |->
               IF x = {} THEN {0} ELSE F[g[x \ {Max(x)}], Max(x)]]
    <3>1. g = [x \in SUBSET (1..N) |->
                 IF x = {} THEN {0} ELSE F[g[x \ {Listing!Max(x)}], Listing!Max(x)]]
      BY <2>2 DEF FoldsTo
    <3> HIDE DEF F, N, D
    <3> QED BY <1>0a, <3>1
  <2> HIDE DEF F, N, D
  <2>5. Eq(g)
    BY <2>3, <2>4
  <2> QED BY <2>5
<1> DEFINE h == CHOOSE g : Eq(g)
           f == [k \in 0..N |-> h[1..k]]
<1>3. Eq(h)
  <2> HIDE DEF Eq
  <2> QED BY <1>2
<1> HIDE DEF h
<1>4. f[0] = {0}
  <2>1. 1..0 = {} /\ {} \in SUBSET (1..N) /\ f[0] = h[1..0]
    BY <1>0
  <2>2. h[{}] = {0}
    BY <1>3, <2>1
  <2> QED BY <2>1, <2>2
<1>5. ASSUME NEW k \in 1..N PROVE f[k] = StepOver(word, f[k - 1], run[k])
  <2>1. f[k] = h[1..k] /\ f[k - 1] = h[1..(k - 1)]
    BY <1>0
  <2>2. /\ Max(1..k) = k /\ (1..k) \ {k} = 1..(k - 1) /\ 1..k # {}
        /\ 1..k \in SUBSET (1..N)
    BY <1>0, <1>0a, PrefixSets
  <2> HIDE DEF f, N
  <2>3. h[1..k] = StepOver(word, h[(1..k) \ {Max(1..k)}], run[Max(1..k)])
    BY <1>3, <2>2
  <2> QED BY <2>1, <2>2, <2>3
<1>6. Accepts(word, run) <=> Len(word) \in f[N]
  BY <1>0, <1>1 DEF h
<1> HIDE DEF f
<1> QED BY <1>4, <1>5, <1>6

(* The first k letters of the run are drawn out of the word, up to its j. *)
Draws(f, word, run, k, j) ==
  /\ f \in [1..k -> DOMAIN word] /\ f[1] = 1 /\ f[k] = j
  /\ \A i \in 1..k : run[i] = word[f[i]]
  /\ \A i \in 2..k : f[i] - f[i - 1] \in {0, 1}

(* The pattern finds a word drawn out, and nothing else. *)
LEMMA AcceptsDrawnOut ==
  ASSUME NEW word \in Seq(Letters), NEW run \in Seq(Letters), run # <<>>
  PROVE  Accepts(word, run) <=> DrawnOut(word, run)
<1> DEFINE N == Len(run)
<1>0. /\ N \in Nat /\ N >= 1 /\ DOMAIN run = 1..N
      /\ DOMAIN word = 1..Len(word) /\ Len(word) \in Nat
  OBVIOUS
<1>1. PICK g : /\ g[0] = {0}
               /\ \A k \in 1..N : g[k] = StepOver(word, g[k - 1], run[k])
               /\ Accepts(word, run) <=> Len(word) \in g[N]
  BY AcceptSteps
<1> HIDE DEF N
<1>2. DrawnOut(word, run) <=> \E f : Draws(f, word, run, N, Len(word))
  BY <1>0 DEF DrawnOut, Draws, N
<1>3. ASSUME NEW f, Draws(f, word, run, N, Len(word)) PROVE Len(word) \in g[N]
  <2> DEFINE S == {k \in 0..N : k # 0 => f[k] \in g[k]}
  <2>0. /\ \A k \in 1..N : f[k] \in 1..Len(word) /\ run[k] = word[f[k]]
        /\ f[1] = 1 /\ f[N] = Len(word)
        /\ \A k \in 2..N : f[k] - f[k - 1] \in {0, 1}
    BY <1>0, <1>3 DEF Draws
  <2>1. 0 \in S
    BY <1>0
  <2>2. ASSUME NEW k \in 1..N, k - 1 \in S PROVE k \in S
    <3>1. f[k] \in 1..Len(word) /\ run[k] = word[f[k]]
      BY <2>0
    <3>2. {f[k], f[k] - 1} \cap g[k - 1] # {}
      <4>1. CASE k = 1
        <5>1. f[k] - 1 = 0 /\ 0 \in g[k - 1]
          BY <1>1, <2>0, <4>1
        <5> QED BY <5>1
      <4>2. CASE k # 1
        <5>1. k \in 2..N /\ k - 1 # 0 /\ k - 1 \in 1..N
          BY <1>0, <4>2
        <5>2. f[k - 1] \in g[k - 1]
          BY <2>2, <5>1
        <5>3. f[k - 1] = f[k] \/ f[k - 1] = f[k] - 1
          <6>1. f[k - 1] \in Nat /\ f[k] \in Nat
            BY <1>0, <2>0, <5>1
          <6> QED BY <2>0, <5>1, <6>1
        <5> QED BY <5>2, <5>3
      <4> QED BY <4>1, <4>2
    <3>3. f[k] \in g[k]
      BY <1>0, <1>1, <3>1, <3>2 DEF StepOver
    <3> QED BY <1>0, <3>3
  <2> HIDE DEF S
  <2>3. 0..N \subseteq S
    BY <1>0, <2>1, <2>2, Upto
  <2> QED BY <1>0, <2>0, <2>3 DEF S
<1>4. ASSUME Len(word) \in g[N] PROVE \E f : Draws(f, word, run, N, Len(word))
  <2> DEFINE S == {k \in 0..N : k # 0 => \A j \in g[k] : \E f : Draws(f, word, run, k, j)}
  <2>1. 0 \in S
    BY <1>0
  <2>2. ASSUME NEW k \in 1..N, k - 1 \in S PROVE k \in S
    <3>1. ASSUME NEW j \in g[k] PROVE \E f : Draws(f, word, run, k, j)
      <4>1. /\ j \in 1..Len(word) /\ word[j] = run[k]
            /\ j \in g[k - 1] \/ j - 1 \in g[k - 1]
        BY <1>0, <1>1, <3>1 DEF StepOver
      <4>2. CASE k = 1
        <5>1. j = 1
          BY <1>0, <1>1, <4>1, <4>2
        <5> DEFINE f == [i \in 1..1 |-> 1]
        <5>2. Draws(f, word, run, 1, 1)
          BY <1>0, <4>1, <4>2, <5>1 DEF Draws
        <5> QED BY <4>2, <5>1, <5>2
      <4>3. CASE k # 1
        <5>1. k - 1 \in 1..N /\ k - 1 # 0 /\ k \in Nat
          BY <1>0, <4>3
        <5>2. PICK m \in g[k - 1] : m = j \/ m = j - 1
          BY <4>1
        <5>3. PICK f : Draws(f, word, run, k - 1, m)
          BY <2>2, <5>1
        <5> DEFINE h == [i \in 1..k |-> IF i = k THEN j ELSE f[i]]
        <5>4. /\ f \in [1..(k - 1) -> DOMAIN word] /\ f[1] = 1 /\ f[k - 1] = m
              /\ \A i \in 1..(k - 1) : run[i] = word[f[i]]
              /\ \A i \in 2..(k - 1) : f[i] - f[i - 1] \in {0, 1}
          BY <5>3 DEF Draws
        <5>5. /\ h[k] = j /\ \A i \in 1..(k - 1) : h[i] = f[i]
              /\ h[1] = 1
          BY <5>1, <5>4
        <5>6. h \in [1..k -> DOMAIN word]
          <6>1. \A i \in 1..k : i = k \/ i \in 1..(k - 1)
            BY <5>1
          <6> QED BY <1>0, <4>1, <5>4, <6>1
        <5> HIDE DEF h
        <5>7. \A i \in 1..k : run[i] = word[h[i]]
          <6>1. \A i \in 1..k : i = k \/ i \in 1..(k - 1)
            BY <5>1
          <6> QED BY <4>1, <5>4, <5>5, <6>1
        <5>8. \A i \in 2..k : h[i] - h[i - 1] \in {0, 1}
          <6> SUFFICES ASSUME NEW i \in 2..k PROVE h[i] - h[i - 1] \in {0, 1}
            OBVIOUS
          <6>1. CASE i = k
            <7>1. h[i] = j /\ h[i - 1] = m /\ j \in Nat
              BY <5>1, <5>4, <5>5, <4>1, <1>0, <6>1
            <7> QED BY <5>2, <7>1
          <6>2. CASE i # k
            <7>1. i \in 2..(k - 1) /\ i \in 1..(k - 1) /\ i - 1 \in 1..(k - 1)
              BY <5>1, <6>2
            <7> QED BY <5>4, <5>5, <7>1
          <6> QED BY <6>1, <6>2
        <5>9. Draws(h, word, run, k, j)
          BY <5>5, <5>6, <5>7, <5>8 DEF Draws
        <5> QED BY <5>9
      <4> QED BY <4>2, <4>3
    <3> QED BY <1>0, <3>1
  <2> HIDE DEF S
  <2>3. 0..N \subseteq S
    BY <1>0, <2>1, <2>2, Upto
  <2>4. N \in S /\ N # 0
    BY <1>0, <2>3
  <2> QED BY <1>4, <2>4 DEF S
<1> QED BY <1>1, <1>2, <1>3, <1>4

(* The words of a list, reduced to their letters. *)
LEMMA PatternWords ==
  ASSUME NEW entries, entries \subseteq Seq(Characters), NEW w \in Pattern(entries)
  PROVE  w \in Seq(Letters) /\ w # <<>>
<1>1. PICK entry \in entries : w = Cleaned(entry) /\ w # <<>>
  BY DEF Pattern
<1> DEFINE a == LowerCase(entry)
<1>2. a \in Seq(Characters)
  <2>1. \A i \in DOMAIN entry : entry[i] \in Characters
    BY <1>1
  <2>2. \A i \in DOMAIN entry :
          (IF entry[i] \in DOMAIN Lower THEN Lower[entry[i]] ELSE entry[i]) \in Characters
    BY <2>1, Classes DEF Characters
  <2>3. entry \in Seq(Characters) /\ DOMAIN entry = 1..Len(entry) /\ Len(entry) \in Nat
    BY <1>1
  <2>4. a \in [1..Len(entry) -> Characters]
    BY <2>2, <2>3 DEF LowerCase
  <2> QED BY <2>3, <2>4
<1>3. w = Only(a, Letters)
  BY <1>1 DEF Cleaned
<1> HIDE DEF a
<1>4. w \in Seq(Characters)
  BY <1>2, <1>3, OnlyIs
<1>5. PICK p : Picks(p, w, a, {i \in DOMAIN a : a[i] \in Letters})
  BY <1>2, <1>3, OnlyIs
<1>6. \A k \in 1..Len(w) : w[k] \in Letters
  BY <1>5 DEF Picks, Numbers
<1>7. w \in Seq(Letters)
  BY <1>4, <1>6
<1> QED BY <1>1, <1>7

Hits(entries, e) ==
  {q \in LetterRuns(e) : \E w \in Pattern(entries) : Accepts(w, SubSeq(e, q[1], q[2]))}

(* A run is a hit if, and only if, its stretch spells a word. *)
LEMMA HitIffSpelt ==
  ASSUME NEW s \in Seq(Characters), NEW e, NEW P, Aligned(P, e, s),
         NEW entries, entries \subseteq Seq(Characters),
         NEW r \in Stretches(s), NEW q \in LetterRuns(e),
         NEW l \in q[1]..q[2], P[l] \in r[1]..r[2]
  PROVE  /\ Reading(s, r[1], r[2]) = SubSeq(e, q[1], q[2])
         /\ q \in Hits(entries, e) <=> r \in Spelt(entries, s)
<1>1. Reading(s, r[1], r[2]) = SubSeq(e, q[1], q[2])
  BY SameReading
<1> DEFINE run == SubSeq(e, q[1], q[2])
<1>2. run \in Seq(Letters) /\ run # <<>>
  <2> DEFINE y == q[1]
             z == q[2]
             N == z - y + 1
  <2>1. /\ y \in 1..Len(e) /\ z \in 1..Len(e) /\ y <= z
        /\ \A i \in y..z : e[i] \in Letters
        /\ e \in Seq(Letters \cup {Space}) /\ Len(e) \in Nat
    BY RunIs, InOrder, Ends DEF Aligned
  <2>2. run = SubSeq(e, y, z)
    OBVIOUS
  <2> HIDE DEF y, z, run
  <2>3. N \in Nat /\ N # 0 /\ \A k \in 1..N : y + k - 1 \in y..z
    BY <2>1
  <2>4. run = [k \in 1..N |-> e[y + k - 1]]
    BY <2>1, <2>2
  <2>5. run \in [1..N -> Letters]
    BY <2>1, <2>3, <2>4
  <2> HIDE DEF N
  <2>6. run \in Seq(Letters) /\ Len(run) = N
    BY <2>3, <2>5
  <2> QED BY <2>3, <2>6
<1> HIDE DEF run
<1>3. \A w \in Pattern(entries) : Accepts(w, run) <=> DrawnOut(w, run)
  BY <1>2, PatternWords, AcceptsDrawnOut
<1>4. q \in Hits(entries, e) <=> \E w \in Pattern(entries) : Accepts(w, run)
  BY DEF Hits, run
<1>5. r \in Spelt(entries, s) <=> \E w \in Pattern(entries) : DrawnOut(w, run)
  BY <1>1 DEF Spelt, run
<1> QED BY <1>1, <1>3, <1>4, <1>5

(* FoundIffSpelt, of any message and any list. *)
LEMMA FoundWhereSpelt ==
  ASSUME NEW s \in Seq(Characters), NEW entries, entries \subseteq Seq(Characters)
  PROVE  IF Spelt(entries, s) = {} THEN Find(entries, s) = NoMatch
         ELSE \E r \in Spelt(entries, s) :
                /\ \A q \in Spelt(entries, s) : r[1] <= q[1]
                /\ Find(entries, s) = Reading(s, r[1], r[2])
<1> DEFINE e == Normalize(s)
           hits == Hits(entries, e)
           h == CHOOSE h \in hits : \A q \in hits : h[1] <= q[1]
<1>1. PICK P : Aligned(P, e, s)
  BY NormalizeAligned
<1>2. Find(entries, s) = IF hits = {} THEN NoMatch ELSE SubSeq(e, h[1], h[2])
  BY DEF Find, Hits
<1> HIDE DEF e
<1>3. ASSUME NEW q \in hits
      PROVE  \E r \in Spelt(entries, s) :
               /\ P[q[1]] \in r[1]..r[2] /\ q[1] \in q[1]..q[2]
               /\ Reading(s, r[1], r[2]) = SubSeq(e, q[1], q[2])
  <2>1. q \in LetterRuns(e)
    BY DEF Hits
  <2>2. PICK r \in Stretches(s) : P[q[1]] \in r[1]..r[2] /\ q[1] \in q[1]..q[2]
    BY <1>1, <2>1, StretchOf
  <2>3. /\ Reading(s, r[1], r[2]) = SubSeq(e, q[1], q[2])
        /\ q \in Hits(entries, e) <=> r \in Spelt(entries, s)
    BY <1>1, <2>1, <2>2, HitIffSpelt
  <2> QED BY <2>2, <2>3
<1>4. ASSUME NEW r \in Spelt(entries, s)
      PROVE  \E q \in hits : \E l \in q[1]..q[2] : P[l] \in r[1]..r[2]
  <2>1. r \in Stretches(s) /\ Reading(s, r[1], r[2]) # <<>>
    BY DEF Spelt, DrawnOut
  <2>2. PICK q \in LetterRuns(e) : \E l \in q[1]..q[2] : P[l] \in r[1]..r[2]
    BY <1>1, <2>1, RunOf
  <2>3. PICK l \in q[1]..q[2] : P[l] \in r[1]..r[2]
    BY <2>2
  <2>4. q \in hits
    BY <1>1, <2>1, <2>3, HitIffSpelt
  <2> QED BY <2>3, <2>4
<1>5. CASE hits = {}
  <2>1. Spelt(entries, s) = {}
    BY <1>4, <1>5
  <2> QED BY <1>2, <1>5, <2>1
<1>6. CASE hits # {}
  <2>0. Len(e) \in Nat /\ Len(s) \in Nat
    BY <1>1, InOrder
  <2>1. \A q \in hits : /\ q[1] \in 1..Len(e) /\ q[2] \in 1..Len(e)
    BY <2>0, RunIs, Ends DEF Hits
  <2>2. h \in hits /\ \A q \in hits : h[1] <= q[1]
    <3> DEFINE B == {q[1] : q \in hits}
    <3> HIDE DEF hits
    <3>1. B \in SUBSET Nat /\ B # {}
      BY <1>6, <2>1
    <3>2. PICK n \in B : \A m \in B : n <= m
      <4> HIDE DEF B
      <4> QED BY <3>1, Smallest
    <3>3. \E g \in hits : \A q \in hits : g[1] <= q[1]
      BY <3>2
    <3> QED BY <3>3
  <2>3. Find(entries, s) = SubSeq(e, h[1], h[2])
    BY <1>2, <1>6
  <2> HIDE DEF h, hits
  <2>4. PICK r \in Spelt(entries, s) :
          /\ P[h[1]] \in r[1]..r[2]
          /\ Reading(s, r[1], r[2]) = SubSeq(e, h[1], h[2])
    BY <1>3, <2>2
  <2>5. ASSUME NEW t \in Spelt(entries, s) PROVE r[1] <= t[1]
    <3> SUFFICES ASSUME ~(r[1] <= t[1]) PROVE FALSE
      OBVIOUS
    <3>1. r \in Stretches(s) /\ t \in Stretches(s)
      BY DEF Spelt
    <3>2. /\ r[1] \in 1..Len(s) /\ r[2] \in 1..Len(s)
          /\ r[1] > 1 => Gap(s, r[1] - 1)
      BY <2>0, <3>1, StretchIs, Ends
    <3>3. /\ t[1] \in 1..Len(s) /\ t[2] \in 1..Len(s)
          /\ \A i \in t[1]..t[2] : ~Gap(s, i)
      BY <2>0, <3>1, StretchIs, Ends
    <3>4. r[1] > 1 /\ t[1] <= r[1] - 1 /\ r[1] - 1 \in Nat
      BY <3>2, <3>3
    <3>5. ~(r[1] - 1 <= t[2])
      BY <3>2, <3>3, <3>4
    <3>6a. PICK q \in hits : \E l \in q[1]..q[2] : P[l] \in t[1]..t[2]
      BY <1>4
    <3>6. PICK l \in q[1]..q[2] : P[l] \in t[1]..t[2]
      BY <3>6a
    <3>7. /\ h[1] \in 1..Len(e) /\ q[1] \in 1..Len(e) /\ q[2] \in 1..Len(e)
          /\ h[1] <= q[1]
      BY <2>1, <2>2
    <3>8. l \in 1..Len(e) /\ h[1] <= l
      BY <2>0, <3>7
    <3>9. P[l] \in 1..Len(s) /\ P[h[1]] \in 1..Len(s)
      BY <1>1, <3>7, <3>8, InOrder
    <3>10. P[l] < P[h[1]]
      BY <2>4, <3>2, <3>3, <3>5, <3>6, <3>9
    <3>11. l < h[1]
      BY <1>1, <3>7, <3>8, <3>10, InOrder
    <3> QED BY <2>0, <3>7, <3>8, <3>11
  <2>6. Spelt(entries, s) # {}
    BY <2>4
  <2> QED BY <2>3, <2>4, <2>5, <2>6
<1> QED BY <1>5, <1>6

LEMMA MessagesTyped == FilterSpec => [](text \in Seq(Characters) /\ list \in Lists)
<1> DEFINE I == text \in Seq(Characters) /\ list \in Lists
<1>1. FilterInit => I
  BY DEF FilterInit
<1>2. I /\ [FilterNext]_filterVars => I'
  BY DEF FilterNext, Write, filterVars
<1> QED BY <1>1, <1>2, PTL DEF FilterSpec

(* Every listed word is found under any mixture of the disguises, the      *)
(* first of them is reported, and nothing else is: see FoundIffSpelt.      *)
THEOREM FilterExact == FilterSpec => []FoundIffSpelt
<1>1. text \in Seq(Characters) /\ list \in Lists => FoundIffSpelt
  BY ListsAssumption, FoundWhereSpelt DEF FoundIffSpelt
<1> QED BY <1>1, MessagesTyped, PTL
=============================================================================
