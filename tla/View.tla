-------------------------------- MODULE View --------------------------------
(***************************************************************************)
(* A discord.ui.View on a message, as the library drives it: a press on a  *)
(* button of a view that listens makes a task for its callback; the view's *)
(* timer ends the listening and makes a task for on_timeout; the event     *)
(* loop runs tasks in the order they were made.  What a task has the       *)
(* message show is sent to Discord, arrives in any order with other edits, *)
(* or is refused.  One view per behaviour; a restart forgets it, and leaves *)
(* its message behind.                                                     *)
(***************************************************************************)
EXTENDS Naturals, Sequences, FiniteSets

CONSTANTS
  OnTimeout,   (* the task that runs on_timeout *)
  Nothing,     (* text of a message that is not there, or not to be changed *)
  MaxPending   (* bound on presses and edits under way *)

VARIABLES
  life,   (* "unsent", "listening", "stopped" *)
  ready,  (* tasks in the order they will run *)
  edits,  (* faces on their way to Discord *)
  shown,  (* the face of the message at Discord *)
  known,  (* view.message has been set *)
  lost    (* history: an edit was refused, or the view or its message lost *)

viewVars == <<life, ready, edits, shown, known, lost>>

(* What a message shows: its text, and the buttons that can be pressed. *)
Face(text, enabled) == [text |-> text, enabled |-> enabled]

ViewInit ==
  /\ life  = "unsent"
  /\ ready = <<>>
  /\ edits = {}
  /\ shown = Face(Nothing, {})
  /\ known = FALSE
  /\ lost  = FALSE

(* The message is sent, and the view listens, if it has buttons. *)
Send(face) ==
  /\ shown' = face
  /\ life'  = IF face.enabled = {} THEN life ELSE "listening"
  /\ UNCHANGED <<ready, edits, known, lost>>

(* view.message = await interaction.original_response() *)
MessageKnown ==
  /\ \/ known' = TRUE /\ UNCHANGED lost
     \/ lost' = TRUE /\ UNCHANGED known
  /\ UNCHANGED <<life, ready, edits, shown>>

Press(task) ==
  /\ life = "listening"
  /\ Len(ready) + Cardinality(edits) < MaxPending
  /\ ready' = Append(ready, task)
  /\ UNCHANGED <<life, edits, shown, known, lost>>

(* No press for as long as the view waits: the answer to one, which must   *)
(* reach Discord within seconds, is not still on its way.                  *)
TimerFires ==
  /\ life = "listening"
  /\ edits = {}
  /\ life'  = "stopped"
  /\ ready' = Append(ready, OnTimeout)
  /\ UNCHANGED <<edits, shown, known, lost>>

Runs(task) == ready # <<>> /\ Head(ready) = task /\ ready' = Tail(ready)

Arrives(e) ==
  /\ edits' = edits \ {e}
  /\ shown' = Face(IF e.text = Nothing THEN shown.text ELSE e.text, e.enabled)
  /\ UNCHANGED <<life, ready, known, lost>>

Refused(e) ==
  /\ edits' = edits \ {e}
  /\ lost'  = TRUE
  /\ UNCHANGED <<life, ready, shown, known>>

(* The process ends, and the view with it. *)
Forgotten ==
  /\ life'  = "stopped"
  /\ ready' = <<>>
  /\ edits' = {}
  /\ lost'  = TRUE
  /\ UNCHANGED <<shown, known>>
=============================================================================
