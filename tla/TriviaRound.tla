----------------------------- MODULE TriviaRound -----------------------------
(***************************************************************************)
(* /trivia (src/cogs/trivia.py): one question, the members who press its   *)
(* buttons and the timer that reveals the answer.                          *)
(***************************************************************************)
EXTENDS View

CONSTANTS Members   (* who may press a button *)

VARIABLES
  step,      (* where the command is: "fetch", "post", "message", "done" *)
  answered,  (* TriviaView.answered *)
  outcomes   (* history: the outcomes that were sent to the message *)

triviaVars == <<step, answered, outcomes>>

Question == Face("question", {"answer"})

TriviaInit == step = "fetch" /\ answered = FALSE /\ outcomes = {}

(* The service answers with a question, or fails, or has none. *)
Fetch ==
  /\ step = "fetch"
  /\ step' \in {"post", "done"}
  /\ UNCHANGED <<viewVars, answered, outcomes>>

(* reply swallows the error of a message that cannot be sent. *)
Post ==
  /\ step = "post" /\ step' = "message"
  /\ Send(Question) \/ UNCHANGED viewVars
  /\ UNCHANGED <<answered, outcomes>>

OriginalResponse ==
  /\ step = "message" /\ step' = "done"
  /\ MessageKnown
  /\ UNCHANGED <<answered, outcomes>>

(* A member has one press under way at a time. *)
PressAnswer(m) ==
  /\ "answer" \in shown.enabled
  /\ \A i \in DOMAIN ready : ready[i] # m
  /\ Press(m)
  /\ UNCHANGED triviaVars

(* The outcome is settled: the buttons are disabled, the message edited. *)
Settle(outcome) ==
  /\ edits'    = edits \cup {Face(outcome, {})}
  /\ outcomes' = outcomes \cup {outcome}
  /\ UNCHANGED <<shown, known, lost>>

(* Fault: the flag is set once the message has been edited. *)
AnswerUnguarded(m) ==
  /\ Runs(m)
  /\ life' = "stopped"
  /\ Settle(m)
  /\ answered' = (shown # Question)
  /\ UNCHANGED step

(* The callback: the flag is set, and the view stopped, before the await.  *)
(* Whoever comes later is told so and changes nothing.                     *)
Answer(m) ==
  /\ Runs(m)
  /\ \/ /\ ~answered
        /\ answered' = TRUE
        /\ life' = "stopped"
        /\ Settle(m)
     \/ /\ answered
        /\ UNCHANGED <<answered, outcomes, life, edits, shown, known, lost>>
  /\ UNCHANGED step

(* Fault: on_timeout only stops the view. *)
TimeoutUnsettled ==
  /\ Runs(OnTimeout)
  /\ UNCHANGED <<triviaVars, life, edits, shown, known, lost>>

(* on_timeout *)
RevealAnswer ==
  /\ Runs(OnTimeout)
  /\ \/ ~answered /\ known /\ Settle("time")
     \/ /\ answered \/ ~known
        /\ lost' = (lost \/ ~answered)
        /\ UNCHANGED <<edits, outcomes, shown, known>>
  /\ UNCHANGED <<life, step, answered>>

TriviaRestart == step' = "done" /\ UNCHANGED <<answered, outcomes>>

TriviaNext ==
  \/ Fetch \/ Post \/ OriginalResponse \/ RevealAnswer
  \/ \E m \in Members : PressAnswer(m) \/ Answer(m)

-----------------------------------------------------------------------------
(* "First answer settles the round": of the members who answer in the same *)
(* moment, and of them and the timer, one alone gets to settle the         *)
(* question; its message is never told two outcomes.                       *)
OneOutcome == \A told, other \in outcomes : told = other

(* "buttons reveal the answer on timeout" "instead of leaving live buttons *)
(* on a dead round": whether members answer or not, the message ends up    *)
(* showing how the round ended, unless an edit of it was refused or the    *)
(* bot lost the view or the message.                                       *)
RoundEnds == shown = Question ~> shown # Question \/ lost
=============================================================================
