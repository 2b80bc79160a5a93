------------------------------ MODULE CasePages ------------------------------
(***************************************************************************)
(* /warnings and /cases (src/cogs/moderation.py): a member's cases laid    *)
(* out over pages, and the Paginator (src/core/pagination.py) that turns   *)
(* them.  A case is the length of its heading and body.                    *)
(***************************************************************************)
EXTENDS View, SequencesExt

CONSTANTS
  Sizes,     (* lengths a case may have *)
  MaxCases,  (* bound on the cases listed *)
  PerPage,   (* CASES_PER_PAGE *)
  Title,     (* length of a page's title *)
  Budget,    (* PAGE_CHAR_BUDGET *)
  Limit      (* EMBED_TOTAL_MAX *)

Footer == 1  (* length of "Page i of n" *)

VARIABLES
  records,  (* the cases, in order *)
  asked,    (* where the command is: "post", "message", "done" *)
  pages,    (* Paginator.pages *)
  index     (* Paginator.index, from 1 *)

pagesVars == <<records, asked, pages, index>>

Buttons == {"first", "previous", "next", "last"}

SumOf(page) == FoldLeft(+, 0, page)

(* _case_pages: a case that would not fit opens a page of its own. *)
Layout(cases) ==
  LET place(laid, case) ==
        LET page == Last(laid) IN
        IF page # <<>> /\ \/ Len(page) >= PerPage
                          \/ Title + SumOf(page) + case > Budget
          THEN Append(laid, <<case>>)
          ELSE Front(laid) \o <<Append(page, case)>>
  IN  FoldLeft(place, << <<>> >>, cases)

(* current, with the buttons _sync_buttons has enabled for page i. *)
Page(i) == Face(i, (IF i > 1 THEN {"first", "previous"} ELSE {})
                   \cup (IF i < Len(pages) THEN {"next", "last"} ELSE {}))

Clamp(i) == IF i < 1 THEN 1 ELSE IF i > Len(pages) THEN Len(pages) ELSE i

(* The page a button asks for. *)
Target(b) ==
  Clamp(CASE b = "first"    -> 1
          [] b = "previous" -> index - 1
          [] b = "next"     -> index + 1
          [] b = "last"     -> Len(pages))

PagesInit ==
  /\ records \in UNION {[1..n -> Sizes] : n \in 0..MaxCases}
  /\ asked = "post"
  /\ pages = <<>>
  /\ index = 1

(* _show_cases: nothing to list, one page without buttons, or a Paginator. *)
ShowCases ==
  /\ asked = "post"
  /\ \/ /\ records = <<>>
        /\ asked' = "done"
        /\ UNCHANGED <<viewVars, pages>>
     \/ /\ records # <<>>
        /\ pages' = Layout(records)
        /\ Send(Page(1)') \/ UNCHANGED viewVars
        /\ asked' = IF Len(pages') = 1 THEN "done" ELSE "message"
  /\ UNCHANGED <<records, index>>

PageMessage ==
  /\ asked = "message" /\ asked' = "done"
  /\ MessageKnown
  /\ UNCHANGED <<records, pages, index>>

(* The owner of the listing presses a button he can see.  Anybody else is  *)
(* turned away by interaction_check.                                       *)
PressButton ==
  /\ \E b \in shown.enabled : Press(b)
  /\ UNCHANGED pagesVars

(* Fault: the buttons are synchronised before the page is turned. *)
TurnUnsynced ==
  /\ \E b \in Buttons :
       /\ Runs(b)
       /\ index' = Target(b)
       /\ edits' = edits \cup {Face(Target(b), Page(index).enabled)}
  /\ UNCHANGED <<life, shown, known, lost, records, asked, pages>>

(* _show *)
Turn ==
  /\ \E b \in Buttons :
       /\ Runs(b)
       /\ index' = Target(b)
       /\ edits' = edits \cup {Page(Target(b))}
  /\ UNCHANGED <<life, shown, known, lost, records, asked, pages>>

(* on_timeout: the buttons are disabled, on the message too if it is known. *)
DisableButtons ==
  /\ Runs(OnTimeout)
  /\ edits' = IF known THEN edits \cup {Face(Nothing, {})} ELSE edits
  /\ lost'  = (lost \/ ~known)
  /\ UNCHANGED <<life, shown, known, pagesVars>>

PagesRestart == asked' = "done" /\ UNCHANGED <<records, pages, index>>

PagesNext ==
  ShowCases \/ PageMessage \/ PressButton \/ Turn \/ DisableButtons

-----------------------------------------------------------------------------
(* Every case asked for can be read: the pages hold all of them in order,  *)
(* none is empty, too long for Discord or over the count, and whatever     *)
(* becomes of the edits of earlier presses, some button of the message     *)
(* leads on to another page than the one it shows.                         *)
EveryCaseReachable ==
  pages # <<>> =>
    /\ FlattenSeq(pages) = records
    /\ \A i \in DOMAIN pages :
         /\ Len(pages[i]) \in 1..PerPage
         /\ Title + SumOf(pages[i]) + Footer <= Limit
    /\ life = "listening" /\ ready = <<>> /\ edits = {} =>
         \E b \in shown.enabled : Target(b) # shown.text
=============================================================================
