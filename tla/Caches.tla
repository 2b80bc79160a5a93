------------------------------- MODULE Caches -------------------------------
(***************************************************************************)
(* Both cached services of the bot (src/core/bot.py) over the connection   *)
(* they share: a coroutine that looks up or changes the word list and one  *)
(* that reads or updates the settings queue at the same thread and at the  *)
(* same write lock, a restart loses both caches, and on_guild_remove drops *)
(* both entries of the guild.                                              *)
(***************************************************************************)
EXTENDS Connection, Naturals, FiniteSets

CONSTANTS
  Words, NotCached,                          (* of WordCache *)
  Channels, Unset, MaxThreshold, Absent,     (* of ConfigCache *)
  Mixes      (* bound: how many coroutines call each, <<words, settings>> *)

ASSUME WordsAssumption    == \A S \in SUBSET Words : NotCached # S
ASSUME SettingsAssumption == MaxThreshold \in Nat \ {0} /\ Unset \notin Channels

VARIABLES
  words, savedWords, filter, op, arg, left, custom, failed,
  row, savedRow, cache, fields, cfg, making, gone,
  callers    (* the coroutines that call each service *)

wordVars   == <<words, savedWords, filter, op, arg, left, custom, failed>>
configVars == <<row, savedRow, cache, fields, cfg, making, gone>>
vars       == <<conn, pc, wordVars, configVars, callers>>

W == INSTANCE WordCache   WITH stored <- savedWords
C == INSTANCE ConfigCache WITH stored <- savedRow, left <- gone

ASSUME AbsentAssumption == Absent \notin C!Config

(* A service that nobody calls has an empty table. *)
Init ==
  /\ W!Init /\ C!Init
  /\ callers \in [words : SUBSET Coros, settings : SUBSET Coros]
  /\ callers.words \cap callers.settings = {}
  /\ <<Cardinality(callers.words), Cardinality(callers.settings)>> \in Mixes
  /\ callers.words = {}    => words = {}
  /\ callers.settings = {} => row = Absent

WordStep ==
  /\ \E c \in callers.words : W!Call(c) \/ W!Step(c)
  /\ UNCHANGED <<configVars, callers>>

ConfigStep ==
  /\ \E c \in callers.settings : C!Call(c) \/ C!Step(c)
  /\ UNCHANGED <<wordVars, callers>>

ReloadDefaults == W!Invalidate /\ UNCHANGED <<configVars, callers>>

(* on_guild_remove *)
GuildRemoved ==
  /\ filter # NotCached \/ cache # Absent
  /\ W!Invalidate /\ C!Invalidate
  /\ UNCHANGED callers

Restart == W!Restart /\ C!Restart /\ UNCHANGED callers

Next == WordStep \/ ConfigStep \/ ReloadDefaults \/ GuildRemoved \/ Restart

Spec == Init /\ [][Next]_vars

-----------------------------------------------------------------------------
(* What messages are held against is the stored list (WordCache), whatever *)
(* the settings' coroutines do at the connection meanwhile.                *)
FilterCurrent == W!FilterCurrent

(* A change of the list is stored as a whole or not at all.                *)
AllOrNothing == W!AllOrNothing

(* No mix of concurrent updates leaves thresholds in the wrong order.      *)
ThresholdsOrdered == C!ThresholdsOrdered

(* What the bot acts on is what is stored, or the defaults.                *)
CacheFresh == C!CacheFresh
=============================================================================
