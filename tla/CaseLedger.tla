----------------------------- MODULE CaseLedger -----------------------------
(***************************************************************************)
(* What the rest of the bot may assume of the moderation log: each         *)
(* operation of Database on cases is one atomic step on durable state.     *)
(* A case gets the next number of its guild, is never removed or edited,   *)
(* and goes from active to retired at most once.  `told' is what the       *)
(* caller of add_case was told: how many warnings of that member counted,  *)
(* its own included, at the time the case was made.                        *)
(***************************************************************************)
EXTENDS Cases

VARIABLES
  last,     (* last[g]: the highest case number of guild g *)
  ledger,   (* ledger[g]: the cases of guild g, by number *)
  told      (* told[g][n]: the total returned with case n *)

ledgerVars == <<last, ledger, told>>

LedgerInit ==
  /\ last   = [g \in Guilds |-> 0]
  /\ ledger = [g \in Guilds |-> EmptyLog]
  /\ told   = [g \in Guilds |-> EmptyLog]

(* add_case: the case and the total it reports come from one state. *)
Record(g, u, a, now, e) ==
  LET n    == last[g] + 1
      case == [user |-> u, action |-> a, created |-> now,
               expires |-> e, active |-> TRUE]
      log  == Inserted(ledger[g], n, case)
  IN  /\ last'   = [last EXCEPT ![g] = n]
      /\ ledger' = [ledger EXCEPT ![g] = log]
      /\ told'   = [told EXCEPT ![g] = Inserted(@, n, ActiveWarnings(log, u, now))]

(* deactivate_case. *)
Retire(g, n) ==
  /\ ledger' = [ledger EXCEPT ![g] = Deactivated(@, {n})]
  /\ UNCHANGED <<last, told>>

(* clear_warnings. *)
Clear(g, u) ==
  /\ ledger' = [ledger EXCEPT ![g] = Deactivated(@, ClearableOf(@, u))]
  /\ UNCHANGED <<last, told>>

LedgerNext ==
  \E g \in Guilds :
    \/ \E u \in Users, a \in CaseActions, now \in Instants, e \in Expiry :
         Record(g, u, a, now, e)
    \/ \E n \in DOMAIN ledger[g] : Retire(g, n)
    \/ \E u \in Users : Clear(g, u)

LedgerSpec == LedgerInit /\ [][LedgerNext]_ledgerVars
=============================================================================
