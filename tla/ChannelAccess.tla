---------------------------- MODULE ChannelAccess ----------------------------
(***************************************************************************)
(* Who may do what in a channel: /lock, /unlock and /slowmode              *)
(* (src/cogs/channels.py), /ticket_add and /ticket_remove                  *)
(* (src/cogs/tickets.py).  Discord keeps one overwrite per role or member  *)
(* and replaces it as a whole; the bot reads its own copy, which follows   *)
(* by the gateway, and people edit the same overwrites by hand.            *)
(***************************************************************************)
EXTENDS Naturals

CONSTANTS
  Mods,       (* moderators at work, one command each at a time *)
  Guests,     (* members that a ticket channel may be opened to *)
  Opener,     (* the member whose ticket it is *)
  Everyone,   (* guild.default_role *)
  MaxEdits,   (* bound on edits by hand *)
  Delays,     (* delays /slowmode may be asked for, once parsed; 0 clears *)
  MaxDelay    (* SLOWMODE_MAX_SECONDS *)

VARIABLES
  overwrite,  (* what Discord holds, per role or member *)
  cached,     (* channel.overwrites, as the gateway last told *)
  delay,      (* the channel's slowmode_delay *)
  pc,         (* where each moderator's command is suspended *)
  goal,       (* the command, and whom it is about *)
  payload,    (* the overwrite it is going to store *)
  byhand,     (* edits by hand so far *)
  overtaken   (* history: commands that had not been told of an edit by hand *)

vars == <<overwrite, cached, delay, pc, goal, payload, byhand, overtaken>>

(* `post' is send_messages; `others' stands for all other permissions: 0   *)
(* when none is set, or the number of the edit by hand that set them.      *)
Overwrite == [post : {"allow", "unset", "deny"}, others : 0..MaxEdits]
Blank     == [post |-> "unset", others |-> 0]
Admitted  == [post |-> "allow", others |-> 0]
Targets   == Guests \cup {Everyone}

Locks == {[name |-> n, who |-> Everyone] : n \in {"lock", "unlock"}}
NoGoal == [name |-> "none", who |-> Everyone]
Goals == Locks \cup {[name |-> n, who |-> g] : n \in {"add", "remove"}, g \in Guests}

(* All but send_messages is the same for t. *)
Same(old, new, t) == old[t].others = new[t].others

Init ==
  /\ overwrite \in [Targets -> {Blank, Admitted}]
  /\ cached = overwrite
  /\ delay = 0
  /\ pc = [m \in Mods |-> "idle"]
  /\ goal = [m \in Mods |-> NoGoal]
  /\ payload = [m \in Mods |-> Blank]
  /\ byhand = 0
  /\ overtaken = {}

-----------------------------------------------------------------------------
(* The command is deferred, or the ticket is looked up. *)
Command(m, g) ==
  /\ pc[m] = "idle"
  /\ pc' = [pc EXCEPT ![m] = "reading"]
  /\ goal' = [goal EXCEPT ![m] = g]
  /\ UNCHANGED <<overwrite, cached, delay, payload, byhand, overtaken>>

(* The command of m is over. *)
Ends(m) ==
  /\ pc' = [pc EXCEPT ![m] = "idle"]
  /\ goal' = [goal EXCEPT ![m] = NoGoal]
  /\ payload' = [payload EXCEPT ![m] = Blank]

(* What the command sends in place of the overwrite that is there.         *)
Sending(m, whole) ==
  /\ payload' = [payload EXCEPT ![m] = whole]
  /\ pc' = [pc EXCEPT ![m] = "setting"]
  /\ overtaken' = IF Same(cached, overwrite, goal[m].who) THEN overtaken \ {m}
                                                         ELSE overtaken \cup {m}
  /\ UNCHANGED <<overwrite, cached, delay, goal, byhand>>

(* Fault: the overwrite is made from nothing. *)
SetLockedAnew(m) ==
  /\ pc[m] = "reading" /\ goal[m] \in Locks
  /\ Sending(m, [Blank EXCEPT !.post = IF goal[m].name = "lock" THEN "deny"
                                                                ELSE "unset"])

(* _set_locked: overwrites_for, update, set_permissions. *)
SetLocked(m) ==
  /\ pc[m] = "reading" /\ goal[m] \in Locks
  /\ Sending(m, [cached[Everyone] EXCEPT
                   !.post = IF goal[m].name = "lock" THEN "deny" ELSE "unset"])

AddGuest(m) ==
  /\ pc[m] = "reading" /\ goal[m].name = "add"
  /\ Sending(m, Admitted)

(* /ticket_remove does not touch the member whose ticket it is. *)
RemoveGuest(m) ==
  /\ pc[m] = "reading" /\ goal[m].name = "remove" /\ goal[m].who # Opener
  /\ Sending(m, Blank)

(* Not a channel for this command, not a ticket, the opener, an error. *)
Declined(m) ==
  /\ pc[m] = "reading"
  /\ Ends(m)
  /\ UNCHANGED <<overwrite, cached, delay, byhand, overtaken>>

(* The overwrites become `new'; who has read t's before is overtaken.      *)
Replace(new, t) ==
  /\ overwrite' = new
  /\ overtaken' = {m \in Mods : /\ pc'[m] = "setting"
                                /\ \/ m \in overtaken
                                   \/ goal[m].who = t /\ ~Same(overwrite, new, t)}

(* set_permissions replaces the whole overwrite, or is refused. *)
SetPermissions(m) ==
  /\ pc[m] = "setting"
  /\ Ends(m)
  /\ Replace([overwrite EXCEPT ![goal[m].who] = payload[m]], goal[m].who)
  /\ UNCHANGED <<cached, delay, byhand>>

SetPermissionsFails(m) ==
  /\ pc[m] = "setting"
  /\ Ends(m)
  /\ overtaken' = overtaken \ {m}
  /\ UNCHANGED <<overwrite, cached, delay, byhand>>

(* /slowmode: a delay that is too long is turned away. *)
Slowmode ==
  /\ \E d \in Delays : d <= MaxDelay /\ delay' = d
  /\ UNCHANGED <<overwrite, cached, pc, goal, payload, byhand, overtaken>>

-----------------------------------------------------------------------------
(* Somebody edits an overwrite in Discord's own dialogue. *)
EditByHand ==
  /\ byhand < MaxEdits
  /\ byhand' = byhand + 1
  /\ UNCHANGED <<cached, delay, pc, goal, payload>>
  /\ \E t \in Targets, p \in {"allow", "unset", "deny"} :
       Replace([overwrite EXCEPT ![t] = [post |-> p, others |-> byhand + 1]], t)

(* CHANNEL_UPDATE *)
Gateway ==
  /\ cached # overwrite
  /\ cached' = overwrite
  /\ UNCHANGED <<overwrite, delay, pc, goal, payload, byhand, overtaken>>

Restart ==
  /\ cached' = overwrite
  /\ pc' = [m \in Mods |-> "idle"]
  /\ goal' = [m \in Mods |-> NoGoal]
  /\ payload' = [m \in Mods |-> Blank]
  /\ overtaken' = {}
  /\ UNCHANGED <<overwrite, delay, byhand>>

Handler(m) ==
  \/ \E g \in Goals : Command(m, g)
  \/ SetLocked(m) \/ AddGuest(m) \/ RemoveGuest(m) \/ Declined(m)
  \/ SetPermissions(m) \/ SetPermissionsFails(m)

Next ==
  \/ \E m \in Mods : Handler(m)
  \/ Slowmode \/ EditByHand \/ Gateway \/ Restart

Spec == Init /\ [][Next]_vars

-----------------------------------------------------------------------------
(* "preserving every other permission overwrite on the channel": /lock and *)
(* /unlock change nothing but posting, although they store @everyone's     *)
(* overwrite as a whole, and whatever is added, removed and locked, the    *)
(* member whose ticket it is keeps his access.  What a /lock may undo is   *)
(* an edit by hand it had not been told of when it read the overwrite.     *)
OthersPreserved ==
  [][\A m \in Mods :
       SetPermissions(m) /\ m \notin overtaken =>
         /\ goal[m] \in Locks => Same(overwrite, overwrite', Everyone)
         /\ overwrite[Opener].post = "allow" => overwrite'[Opener].post = "allow"]_vars
=============================================================================
