----------------------------- MODULE WordFilter -----------------------------
(***************************************************************************)
(* How the language filter reads a message (src/services/word_filter.py):  *)
(* the passes of `normalize', one after the other as the code makes them,  *)
(* the pattern made of the word list, and `find'.  A message is a sequence *)
(* of characters; what counts of a character is its class.                 *)
(***************************************************************************)
EXTENDS Naturals, SequencesExt

CONSTANTS
  Letters,    (* a-z *)
  Lower,      (* str.lower, on capitals *)
  LeetLookup, (* LEET_LOOKUP: symbol to letter *)
  Marks,      (* other printing characters *)
  Space,
  ZeroWidth,
  Lists,      (* the word lists guilds may have, each a set of entries *)
  MaxInput,   (* MAX_INPUT_LEN; no message of Discord's is longer *)
  NoMatch     (* None *)

Leet       == DOMAIN LeetLookup
Characters == Letters \cup DOMAIN Lower \cup Leet \cup Marks
                \cup {Space, ZeroWidth}

(* A character is of one class, and the tables give letters. *)
ASSUME ClassesAssumption ==
  /\ Letters \cap (DOMAIN Lower \cup Leet \cup Marks \cup {Space, ZeroWidth}) = {}
  /\ DOMAIN Lower \cap (Leet \cup Marks \cup {Space, ZeroWidth}) = {}
  /\ Leet \cap (Marks \cup {Space, ZeroWidth}) = {}
  /\ Marks \cap {Space, ZeroWidth} = {} /\ Space # ZeroWidth
ASSUME TablesAssumption ==
  /\ Lower \in [DOMAIN Lower -> Letters]
  /\ LeetLookup \in [Leet -> Letters]
ASSUME ListsAssumption == \A entries \in Lists : entries \subseteq Seq(Characters)

VARIABLES text, list

filterVars == <<text, list>>

FilterInit == text = <<>> /\ list \in Lists

(* Every message is some shorter one with a character more. *)
Write(c) ==
  /\ Len(text) < MaxInput
  /\ text' = Append(text, c)
  /\ UNCHANGED list

FilterNext == \E c \in Characters : Write(c)

FilterSpec == FilterInit /\ [][FilterNext]_filterVars

-----------------------------------------------------------------------------
(* The characters of `kept' in s; the others are replaced by nothing. *)
Only(s, kept) ==
  FlattenSeq([i \in DOMAIN s |-> IF s[i] \in kept THEN <<s[i]>> ELSE <<>>])

(* normalize.  Look-around sees the text as it was before the pass.        *)
LowerCase(s) ==
  [i \in DOMAIN s |-> IF s[i] \in DOMAIN Lower THEN Lower[s[i]] ELSE s[i]]

StripZeroWidth(s) == Only(s, Characters \ {ZeroWidth})

Inner(s, i) == /\ i > 1 /\ i < Len(s)
               /\ {s[i - 1], s[i + 1]} \subseteq Letters

(* Fault: a letter before it is enough, so that `fuck!' reads `fucki'. *)
ReplaceLeetAfter(s) ==
  [i \in DOMAIN s |-> IF s[i] \in Leet /\ i > 1 /\ s[i - 1] \in Letters
                      THEN LeetLookup[s[i]] ELSE s[i]]

ReplaceLeet(s) ==
  [i \in DOMAIN s |-> IF s[i] \in Leet /\ Inner(s, i)
                      THEN LeetLookup[s[i]] ELSE s[i]]

Kept(s) == [i \in DOMAIN s |-> s[i] \in Letters \cup {Space}]

SquashInner(s) ==
  FlattenSeq([i \in DOMAIN s |->
    IF Inner(s, i) /\ ~Kept(s)[i] THEN <<>> ELSE <<s[i]>>])

BlankRuns(s) ==
  FlattenSeq([i \in DOMAIN s |->
    IF Kept(s)[i] THEN <<s[i]>>
    ELSE IF i > 1 /\ ~Kept(s)[i - 1] THEN <<>>
    ELSE <<Space>>])

Normalize(s) ==
  BlankRuns(SquashInner(ReplaceLeet(LowerCase(StripZeroWidth(s)))))

(* build_pattern: the entries' letters; an entry without any is skipped. *)
Cleaned(entry) == Only(LowerCase(entry), Letters)

Pattern(entries) == {Cleaned(e) : e \in entries} \ {<<>>}

(* One alternative, every letter of it quantified with +.  Its states are  *)
(* the letters of the word matched last.                                   *)
Accepts(word, run) ==
  LET Step(states, c) == {k \in DOMAIN word : /\ word[k] = c
                                              /\ {k, k - 1} \cap states # {}}
  IN  Len(word) \in FoldLeft(Step, {0}, run)

(* Between two \b of a normalised text: a whole run of letters. *)
LetterRuns(s) ==
  {r \in (1..Len(s)) \X (1..Len(s)) :
     /\ r[1] <= r[2]
     /\ \A i \in r[1]..r[2] : s[i] \in Letters
     /\ r[1] > 1 => s[r[1] - 1] \notin Letters
     /\ r[2] < Len(s) => s[r[2] + 1] \notin Letters}

(* WordFilter.find: the leftmost match, as it was read.  The cut at        *)
(* MAX_INPUT_LEN leaves every message whole.                               *)
Find(entries, message) ==
  LET s    == Normalize(message)
      hits == {r \in LetterRuns(s) : \E w \in Pattern(entries) :
                                       Accepts(w, SubSeq(s, r[1], r[2]))}
  IN  IF hits = {} THEN NoMatch
      ELSE LET h == CHOOSE h \in hits : \A r \in hits : h[1] <= r[1]
           IN  SubSeq(s, h[1], h[2])

-----------------------------------------------------------------------------
(* What the module's documentation promises, without passes: each          *)
(* character by itself, read from the visible characters next to it.       *)
IsLetter(c) == c \in Letters \cup DOMAIN Lower

BetweenLetters(s, i) ==
  \E h \in 1..(i - 1), j \in (i + 1)..Len(s) :
    /\ IsLetter(s[h]) /\ IsLetter(s[j])
    /\ \A k \in (h + 1)..(j - 1) : k = i \/ s[k] = ZeroWidth

Gap(s, i) ==
  s[i] = Space \/ (~IsLetter(s[i]) /\ s[i] # ZeroWidth /\ ~BetweenLetters(s, i))

(* What is read of a character where there is no gap. *)
Read(c) ==
  IF c \in Letters THEN <<c>>
  ELSE IF c \in DOMAIN Lower THEN <<Lower[c]>>
  ELSE IF c \in Leet THEN <<LeetLookup[c]>>
  ELSE <<>>

Reading(s, h, j) == FlattenSeq([k \in 1..(j - h + 1) |-> Read(s[h + k - 1])])

(* `run' is `word' with letters drawn out: each letter of the run stands   *)
(* for one of the word's, in order, and none of the word's is left out.    *)
DrawnOut(word, run) ==
  \E f \in [DOMAIN run -> DOMAIN word] :
    /\ run # <<>> /\ f[1] = 1 /\ f[Len(run)] = Len(word)
    /\ \A k \in DOMAIN run : run[k] = word[f[k]]
    /\ \A k \in 2..Len(run) : f[k] - f[k - 1] \in {0, 1}

(* From gap to gap. *)
Stretches(s) ==
  {r \in (1..Len(s)) \X (1..Len(s)) :
     /\ r[1] <= r[2]
     /\ \A i \in r[1]..r[2] : ~Gap(s, i)
     /\ r[1] > 1 => Gap(s, r[1] - 1)
     /\ r[2] < Len(s) => Gap(s, r[2] + 1)}

(* Where a listed word is written in a message. *)
Spelt(entries, s) ==
  {r \in Stretches(s) :
     \E w \in Pattern(entries) : DrawnOut(w, Reading(s, r[1], r[2]))}

(* A message is a hit exactly if a listed word stands in it by itself,     *)
(* under any mixture of the disguises (zero-width characters, capitals,    *)
(* leet or a mark between two letters, letters drawn out), and what is     *)
(* reported is the first such word: no pass of `normalize' spoils what     *)
(* another was to find, or joins what a space or a mark keeps apart.       *)
FoundIffSpelt ==
  LET places == Spelt(list, text) IN
  IF places = {} THEN Find(list, text) = NoMatch
  ELSE \E r \in places : /\ \A q \in places : r[1] <= q[1]
                         /\ Find(list, text) = Reading(text, r[1], r[2])

(* "an entry with no letters [...] would sit on the list forever matching  *)
(* nothing while /words add reported it as added" (automod.py:54): so does *)
(* an entry with leet in it, of which `build_pattern' keeps the letters    *)
(* only while `normalize' reads the leet (README.md).                      *)
EntryFindsItself ==
  text \in list /\ Cleaned(text) # <<>> => Find(list, text) # NoMatch
=============================================================================
