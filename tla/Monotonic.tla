------------------------------ MODULE Monotonic ------------------------------
(* time.monotonic() as the trackers of Protection read it, the budget for   *)
(* the messages and joins they are asked about, and what both trackers do   *)
(* with the times they have kept, oldest first.                             *)
EXTENDS Naturals, Sequences

CONSTANTS
  MaxTime,    (* bound: the clock runs from 0 to MaxTime *)
  MaxEvents   (* bound on the messages and joins *)

ASSUME MonotonicAssumption == MaxTime \in Nat /\ MaxEvents \in Nat

VARIABLES now, events

clockVars == <<now, events>>

ClockInit == now = 0 /\ events = 0

Elapse == now < MaxTime /\ now' = now + 1 /\ UNCHANGED events
Happen == events < MaxEvents /\ events' = events + 1 /\ UNCHANGED now

(* The n times at the front, and no more, are before t. *)
Front(times, t, n) == /\ \A i \in 1..n : times[i] < t
                      /\ n < Len(times) => times[n + 1] >= t

(* How many popleft takes off. *)
Outdated(times, t) == CHOOSE n \in 0..Len(times) : Front(times, t, n)

(* The places of the times that are not before t. *)
Within(times, t) == {i \in DOMAIN times : times[i] >= t}

ClockTypeOK == now \in 0..MaxTime /\ events \in 0..MaxEvents
=============================================================================
