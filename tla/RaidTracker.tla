----------------------------- MODULE RaidTracker -----------------------------
(***************************************************************************)
(* Join-rate tracking for one guild (src/services/raid.py), as             *)
(* src/cogs/gatekeeper.py calls it when a member joins.  A threshold of    *)
(* zero disables detection: such a join is not recorded and leaves no      *)
(* trace, so the thresholds here are the others.                           *)
(***************************************************************************)
EXTENDS Integers, Sequences, FiniteSets, Monotonic

CONSTANTS
  Thresholds,       (* raid_join_threshold, as /gatekeeper may set it *)
  JoinWindow,       (* raid_join_window_seconds *)
  AlertCooldown,    (* ALERT_COOLDOWN_SECONDS *)
  MaxTrackedJoins   (* MAX_TRACKED_JOINS *)

ASSUME RaidAssumption ==
  /\ Thresholds \subseteq 1..MaxTrackedJoins
  /\ {JoinWindow, MaxTrackedJoins} \subseteq Nat \ {0}
  /\ AlertCooldown \in Nat

VARIABLES
  joins,      (* _GuildJoins.events, oldest first *)
  lastAlert,  (* last_alert, or Quiet *)
  joined,     (* history: every join since the guild was last forgotten *)
  alerts      (* history: every alert since then *)

raidVars == <<joins, lastAlert, joined, alerts>>

Quiet == -1

RaidInit ==
  /\ joins = <<>> /\ lastAlert = Quiet
  /\ joined = <<>> /\ alerts = <<>>

After(times, t) == SubSeq(times, Outdated(times, t) + 1, Len(times))

(* The joins once this one is in; a full deque drops its oldest. *)
Joins ==
  LET kept == Append(After(joins, now - JoinWindow), now)
  IN  IF Len(kept) <= MaxTrackedJoins THEN kept ELSE Tail(kept)

CoolingDown == lastAlert # Quiet /\ now - lastAlert < AlertCooldown

(* Fault: every join of a raid puts the next alert off. *)
RecordPutsOff(threshold) ==
  LET spike == Len(Joins) >= threshold
      alert == spike /\ ~CoolingDown
  IN  /\ Happen
      /\ joins' = Joins
      /\ lastAlert' = IF spike THEN now ELSE lastAlert
      /\ joined' = Append(joined, now)
      /\ alerts' = IF alert THEN Append(alerts, now) ELSE alerts

(* Fault: the time of the alert is not remembered. *)
RecordEach(threshold) ==
  LET alert == Len(Joins) >= threshold /\ ~CoolingDown
  IN  /\ Happen
      /\ joins' = Joins
      /\ lastAlert' = lastAlert
      /\ joined' = Append(joined, now)
      /\ alerts' = IF alert THEN Append(alerts, now) ELSE alerts

(* record *)
RecordJoin(threshold) ==
  LET alert == Len(Joins) >= threshold /\ ~CoolingDown
  IN  /\ Happen
      /\ joins' = Joins
      /\ lastAlert' = IF alert THEN now ELSE lastAlert
      /\ joined' = Append(joined, now)
      /\ alerts' = IF alert THEN Append(alerts, now) ELSE alerts

(* forget *)
ForgetJoins ==
  /\ joins' = <<>> /\ lastAlert' = Quiet
  /\ joined' = <<>> /\ alerts' = <<>>

-----------------------------------------------------------------------------
RaidTypeOK ==
  /\ joins \in Seq(0..MaxTime) /\ Len(joins) <= MaxTrackedJoins
  /\ lastAlert \in 0..MaxTime \cup {Quiet}
  /\ joined \in Seq(0..MaxTime) /\ alerts \in Seq(0..MaxTime)

(* "so a sustained raid produces one alert, not one per joiner": any two   *)
(* alerts are a cooldown apart, whatever the threshold became meanwhile.   *)
AlertsSpaced ==
  \A i, j \in DOMAIN alerts : i < j => alerts[j] - alerts[i] >= AlertCooldown

(* A join alerts exactly when it makes a threshold's worth of joins within *)
(* the window and no alert was given within the cooldown: a raid that goes *)
(* on is reported again, and one that begins is never missed.              *)
SpikeReported ==
  [][\A t \in Thresholds :
       RecordJoin(t) =>
         (alerts' # alerts <=>
            /\ Cardinality(Within(joined', now - JoinWindow)) >= t
            /\ \A i \in DOMAIN alerts : now - alerts[i] >= AlertCooldown)]_raidVars
=============================================================================
