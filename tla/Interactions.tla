---------------------------- MODULE Interactions ----------------------------
(***************************************************************************)
(* The commands that a member goes on talking to, and those that change a  *)
(* channel, in the process that runs them: a round of trivia, a listing of *)
(* cases or the channel commands.  They share the event loop, its views    *)
(* and its restarts and no state, so that a behaviour takes one `kind'.    *)
(***************************************************************************)
EXTENDS Naturals, Sequences, FiniteSets

CONSTANTS OnTimeout, Nothing, MaxPending,                    \* View
          Members,                                           \* TriviaRound
          Sizes, MaxCases, PerPage, Title, Budget, Limit,    \* CasePages
          Mods, Guests, Opener, Everyone, MaxEdits, Delays, MaxDelay

(* A footer fits beside a full page, one case of any length on a page.     *)
ASSUME RoomAssumption     == /\ Budget + 1 <= Limit
                             /\ \A s \in Sizes : Title + s <= Budget
ASSUME PageAssumption     == /\ PerPage \in Nat \ {0} /\ Sizes \subseteq Nat
                             /\ {Title, Budget, Limit} \subseteq Nat
                             /\ Nothing \notin Nat
(* The timer's task is not somebody's press.                               *)
ASSUME TimerAssumption    == /\ OnTimeout \notin Members
                             /\ OnTimeout \notin {"first", "previous", "next", "last"}
ASSUME EveryoneAssumption == Everyone \notin Guests /\ Opener \in Guests

VARIABLES kind,                                              \* what runs
          life, ready, edits, shown, known, lost,            \* View
          step, answered, outcomes,                          \* TriviaRound
          records, asked, pages, index,                             \* CasePages
          overwrite, cached, delay, pc, goal, payload, byhand, overtaken

Trivia  == INSTANCE TriviaRound
Listing == INSTANCE CasePages
Channel == INSTANCE ChannelAccess
V       == INSTANCE View

viewVars    == <<life, ready, edits, shown, known, lost>>
triviaVars  == <<step, answered, outcomes>>
listingVars == <<records, asked, pages, index>>
channelVars == <<overwrite, cached, delay, pc, goal, payload, byhand, overtaken>>

vars == <<kind, viewVars, triviaVars, listingVars, channelVars>>

Init ==
  /\ kind \in {"trivia", "listing", "channel"}
  /\ V!ViewInit /\ Trivia!TriviaInit /\ Listing!PagesInit /\ Channel!Init
  /\ kind # "listing" => records = <<>>
  /\ kind # "channel" => \A t \in Channel!Targets : overwrite[t] = Channel!Blank

TriviaStep ==
  /\ kind = "trivia" /\ Trivia!TriviaNext
  /\ UNCHANGED <<kind, listingVars, channelVars>>

ListingStep ==
  /\ kind = "listing" /\ Listing!PagesNext
  /\ UNCHANGED <<kind, triviaVars, channelVars>>

ChannelStep ==
  /\ kind = "channel" /\ Channel!Next
  /\ UNCHANGED <<kind, viewVars, triviaVars, listingVars>>

(* The view's timer, and what becomes of the edits under way. *)
Delivered(e)  == V!Arrives(e) \/ V!Refused(e)
ViewUnchanged == UNCHANGED <<kind, triviaVars, listingVars, channelVars>>

TimerFires == V!TimerFires /\ ViewUnchanged
Delivery   == (\E e \in edits : Delivered(e)) /\ ViewUnchanged

Restart ==
  /\ kind # "channel"
  /\ V!Forgotten /\ Trivia!TriviaRestart /\ Listing!PagesRestart
  /\ UNCHANGED <<kind, channelVars>>

Next == TriviaStep \/ ListingStep \/ ChannelStep \/ TimerFires \/ Delivery \/ Restart

Spec == Init /\ [][Next]_vars

(* The tasks the event loop has been given. *)
RunTrivia  == Trivia!RevealAnswer \/ \E m \in Members : Trivia!Answer(m)
RunListing == Listing!Turn \/ Listing!DisableButtons

TaskRuns ==
  \/ kind = "trivia"  /\ RunTrivia  /\ UNCHANGED <<kind, listingVars, channelVars>>
  \/ kind = "listing" /\ RunListing /\ UNCHANGED <<kind, triviaVars, channelVars>>

(* A view's timer runs out unless it is stopped, the loop runs what it was *)
(* given, and an edit arrives or is refused.  Nobody has to press.         *)
FairSpec == Spec /\ WF_vars(TimerFires) /\ WF_vars(TaskRuns) /\ WF_vars(Delivery)

-----------------------------------------------------------------------------
(* However a round ends, its question is told one outcome. *)
OneOutcome == Trivia!OneOutcome

(* A round that was posted comes to show how it ended. *)
RoundEnds == Trivia!RoundEnds

(* The pages of a listing hold every case, and lead to one another. *)
EveryCaseReachable == Listing!EveryCaseReachable

(* The channel commands change what they are about and nothing else. *)
OthersPreserved == Channel!OthersPreserved
=============================================================================
