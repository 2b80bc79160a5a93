----------------------------- MODULE PlayQueue -----------------------------
(***************************************************************************)
(* What /play promises to those who ask for tracks, without players, tasks *)
(* and a voice client: one line of accepted tracks, served from its head   *)
(* in the order they were accepted.  A track leaves the line because it is *)
(* played, because its failure is announced, or because the end of the     *)
(* session has overtaken it.                                               *)
(***************************************************************************)
EXTENDS Naturals, Sequences

CONSTANT Tracks

VARIABLES
  fate,  (* per track: "asked", "accepted", "refused", "played", "failed" *)
  line,  (* the accepted tracks that wait, in order *)
  over   (* the tracks overtaken by an end of the session *)

lineVars == <<fate, line, over>>

QueueInit ==
  /\ fate = [t \in Tracks |-> "asked"]
  /\ line = <<>>
  /\ over = {}

Accept(t) ==
  /\ fate[t] = "asked"
  /\ fate' = [fate EXCEPT ![t] = "accepted"]
  /\ line' = Append(line, t)

Refuse(t) ==
  /\ fate[t] = "asked"
  /\ fate' = [fate EXCEPT ![t] = "refused"]
  /\ UNCHANGED line

(* The first of the line is played, or its failure is announced. *)
Serve ==
  /\ line # <<>>
  /\ fate[Head(line)] = "accepted"
  /\ \E result \in {"played", "failed"} :
       fate' = [fate EXCEPT ![Head(line)] = result]
  /\ line' = Tail(line)

(* Tracks are lost from the head of the line, all of them overtaken; or    *)
(* some are overtaken, and wait on.                                        *)
Lose ==
  /\ \E n \in 0..Len(line) :
       /\ \A i \in 1..n : line[i] \in over'
       /\ line' = SubSeq(line, n + 1, Len(line))
  /\ UNCHANGED fate

QueueNext ==
  /\ over \subseteq over'
  /\ (\E t \in Tracks : Accept(t) \/ Refuse(t)) \/ Serve \/ Lose

QueueSpec == QueueInit /\ [][QueueNext]_lineVars
=============================================================================
