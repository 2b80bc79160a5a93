-------------------------- MODULE MigrationProofs --------------------------
(***************************************************************************)
(* Theorems about Migration, for any numbers of guilds, members, columns,  *)
(* warnings and interruptions.  The inductive invariant says what each     *)
(* statement finds on disk (Based, Migrating), that a file without version *)
(* 2 holds no case but the migrated warnings (Halfway), and that one with  *)
(* version 2, or about to be stamped, is Current.                          *)
(***************************************************************************)
EXTENDS Migration, TLAPS

HistoryType == /\ DOMAIN history \in {{}, Guilds}
               /\ \A g \in DOMAIN history : history[g] \in Rows

Hist(g) == IF g \in DOMAIN history THEN history[g] ELSE <<>>

(* The schema of version 2, with counters that continue the cases.         *)
Current == /\ tables = AllTables
           /\ columns = NewCols
           /\ warnings = Dropped
           /\ \A g \in Guilds : counter[g] = Len(cases[g])

(* A file the bot has never run on. *)
Blank == /\ version < 2
         /\ warnings = Dropped
         /\ \A g \in Guilds : cases[g] = <<>> /\ counter[g] = 0

(* Before the stamp: the cases are the migrated warnings, or not yet.      *)
Halfway ==
  version < 2 => \A g \in Guilds : /\ cases[g] \in {<<>>, Hist(g)}
                                   /\ counter[g] \in {0, Len(cases[g])}

(* BASE_SCHEMA: what ran is there, and a fresh file is a blank one.        *)
Based ==
  /\ "guild_config" \notin tables => Blank
  /\ pc = "base" =>
       /\ step \in 1..(Len(BaseTables) + 1)
       /\ \A i \in 1..(step - 1) : Base(i) \in tables
       /\ fresh => Blank /\ ("guild_config" \in tables => columns = NewCols)
  /\ pc \in {"migrate", "stamp", "ready"} => tables = AllTables

(* MIGRATION_002_CASES: what ran before this statement has taken effect.   *)
Migrating ==
  pc = "migrate" =>
    /\ version < 2
    /\ step \in 1..Drop
    /\ \A i \in NewCols : i < step => i \in columns
    /\ step > Copy => /\ warnings = history /\ warnings # Dropped
                      /\ \A g \in Guilds : cases[g] = Hist(g)
    /\ step > Recount => \A g \in Guilds : counter[g] = Len(cases[g])

Stamped ==
  /\ version = 2 \/ pc = "stamp" => Current
  /\ pc = "ready" => version = 2

IInv == /\ TypeOK
        /\ warnings \in {history, Dropped}
        /\ HistoryType
        /\ Halfway
        /\ Based
        /\ Migrating
        /\ Stamped
        /\ NothingLost

-----------------------------------------------------------------------------
(* Rows are the short sequences of members. *)
LEMMA RowType ==
  ASSUME NEW s \in Rows
  PROVE  s \in Seq(Users) /\ Len(s) \in 0..MaxRows
  <1>1. PICK n \in 0..MaxRows : s \in [1..n -> Users]
    BY DEF Rows
  <1>2. s \in Seq(Users) /\ Len(s) = n
    BY <1>1
  <1> QED
    BY <1>2

LEMMA ShortIsRow ==
  ASSUME NEW s \in Seq(Users), Len(s) <= MaxRows
  PROVE  s \in Rows
  <1>1. Len(s) \in 0..MaxRows /\ s \in [1..Len(s) -> Users]
    BY BoundsAssumption
  <1> QED
    BY <1>1 DEF Rows

LEMMA EmptyRows == <<>> \in Rows /\ Len(<<>>) = 0
  <1>1. <<>> \in Seq(Users) /\ Len(<<>>) = 0
    OBVIOUS
  <1>2. 0 <= MaxRows
    BY BoundsAssumption
  <1> QED
    BY <1>1, <1>2, ShortIsRow

(* There are seven tables, guild_config among them. *)
LEMMA SevenTables ==
  /\ Len(BaseTables) = 7
  /\ DOMAIN BaseTables = 1..7
  /\ AllTables = {Base(i) : i \in 1..7}
  /\ "guild_config" \in AllTables
  <1>1. Len(BaseTables) = 7 /\ DOMAIN BaseTables = 1..7
    BY DEF BaseTables
  <1>2. AllTables = {Base(i) : i \in 1..7}
    BY <1>1 DEF AllTables
  <1>3. Base(2) = "guild_config"
    BY DEF Base, BaseTables
  <1> QED
    BY <1>1, <1>2, <1>3

(* An old warning is a case once the cases of its guild begin with the     *)
(* guild's old warnings; more cases change nothing about that.             *)
LEMMA AppendKeepsPrefix ==
  ASSUME NEW s \in Seq(Users), NEW h \in Seq(Users), NEW u \in Users,
         Len(s) >= Len(h), SubSeq(s, 1, Len(h)) = h
  PROVE  /\ Len(Append(s, u)) >= Len(h)
         /\ SubSeq(Append(s, u), 1, Len(h)) = h
  <1>1. \A i \in 1..Len(h) : Append(s, u)[i] = s[i]
    OBVIOUS
  <1>2. /\ Len(SubSeq(Append(s, u), 1, Len(h))) = Len(h)
        /\ SubSeq(Append(s, u), 1, Len(h)) \in Seq(Users)
        /\ \A i \in 1..Len(h) : SubSeq(Append(s, u), 1, Len(h))[i] = s[i]
    BY <1>1
  <1>3. \A i \in 1..Len(h) : s[i] = h[i]
    <2> TAKE i \in 1..Len(h)
    <2>1. SubSeq(s, 1, Len(h))[i] = s[i]
      OBVIOUS
    <2> QED
      BY <2>1
  <1> QED
    BY <1>2, <1>3

(* A log is its own beginning. *)
LEMMA WholePrefix ==
  ASSUME NEW h \in Seq(Users)
  PROVE  SubSeq(h, 1, Len(h)) = h
  OBVIOUS

-----------------------------------------------------------------------------
LEMMA InitIInv == Init => IInv
  <1> SUFFICES ASSUME Init PROVE IInv
    OBVIOUS
  <1> USE DEF Init
  <1>1. \A g \in Guilds : Old(g) \in Rows
    BY EmptyRows DEF Old, Dropped
  <1>2. /\ DOMAIN warnings \in {{}, Guilds}
        /\ history = warnings
        /\ HistoryType
    BY DEF Dropped, HistoryType
  <1>3. cases \in [Guilds -> Rows] /\ counter \in [Guilds -> 0..MaxRows]
        /\ \A g \in Guilds : cases[g] = <<>> /\ counter[g] = 0
    BY EmptyRows, BoundsAssumption DEF NoRows
  <1>4. tables \subseteq AllTables
    <2>1. /\ Base(1) = "schema_version" /\ Base(2) = "guild_config"
          /\ Base(6) = "tickets" /\ Base(7) = "ticket_counter"
      BY DEF Base, BaseTables
    <2> QED
      BY <2>1, SevenTables
  <1>5. TypeOK
    <2>1. /\ columns \subseteq NewCols /\ version \in 0..2
          /\ step \in 0..(Drop + Len(BaseTables))
          /\ current \in 0..2 /\ faults \in 0..MaxFaults
      BY SevenTables, BoundsAssumption DEF Drop
    <2> QED
      BY <1>1, <1>2, <1>3, <1>4, <2>1 DEF TypeOK
  <1>6. Halfway /\ Based /\ Migrating /\ Stamped
    BY <1>3 DEF Halfway, Based, Blank, Migrating, Stamped
  <1>7. NothingLost
    BY DEF NothingLost
  <1> QED
    BY <1>2, <1>5, <1>6, <1>7 DEF IInv

(* A step that leaves the file alone: what it finds there is for the       *)
(* place it goes to to say.                                                *)
LEMMA FileUntouched ==
  ASSUME IInv, UNCHANGED <<fileVars, history>>, TypeOK',
         Based', Migrating', Stamped'
  PROVE  IInv'
  BY DEF IInv, fileVars, HistoryType, Halfway, Hist, NothingLost

(* connect's first look, a refusal and a crash. *)
LEMMA OutsideIInv ==
  ASSUME IInv, Connect \/ Refused \/ Fault
  PROVE  IInv'
  <1> USE DEF IInv, HistoryType
  <1>1. UNCHANGED <<fileVars, history, current>>
    BY DEF Connect, Refused, Fault
  <1>2. CASE Connect
    <2>1. pc' = "base" /\ step' = 1 /\ fresh' = ("guild_config" \notin tables)
          /\ faults' = faults
      BY <1>2 DEF Connect, Goto
    <2>2. TypeOK'
      BY <1>1, <2>1, SevenTables, BoundsAssumption
         DEF TypeOK, fileVars, Drop, Old
    <2>3. Based'
      <3>1. "guild_config" \notin tables => Blank
        BY DEF Based
      <3>2. /\ 1 \in 1..(Len(BaseTables) + 1)
            /\ \A i \in 1..(1 - 1) : Base(i) \in tables
        BY SevenTables
      <3> QED
        BY <1>1, <2>1, <3>1, <3>2 DEF Based, Blank, fileVars
    <2>4. Migrating' /\ Stamped'
      BY <1>1, <2>1 DEF Migrating, Stamped, Current, fileVars
    <2> QED
      BY <1>1, <2>2, <2>3, <2>4, FileUntouched
  <1>3. CASE Refused \/ Fault
    <2>1. pc' = "down" /\ step' = step /\ fresh' = fresh
          /\ faults' \in 0..MaxFaults
      BY <1>3, BoundsAssumption DEF Refused, Fault, TypeOK
    <2>2. TypeOK'
      BY <1>1, <2>1 DEF TypeOK, fileVars, Old
    <2>3. Based' /\ Migrating' /\ Stamped'
      BY <1>1, <2>1 DEF Based, Blank, Migrating, Stamped, Current, fileVars
    <2> QED
      BY <1>1, <2>2, <2>3, FileUntouched
  <1> QED
    BY <1>2, <1>3

(* A statement of BASE_SCHEMA. *)
LEMMA CreateTableIInv ==
  ASSUME IInv, CreateTable
  PROVE  IInv'
  <1> USE DEF IInv, HistoryType
  <1>1. /\ pc = "base" /\ pc' = "base"
        /\ step \in 1..7
        /\ tables' = tables \cup {Base(step)}
        /\ columns' = IF Base(step) = "guild_config" /\ Base(step) \notin tables
                        THEN NewCols ELSE columns
        /\ step' = step + 1
        /\ UNCHANGED <<version, warnings, cases, counter, fresh, current,
                       faults, history>>
    BY SevenTables DEF CreateTable
  <1>2. tables' \subseteq AllTables
    BY <1>1, SevenTables DEF TypeOK
  <1>3. TypeOK'
    BY <1>1, <1>2, SevenTables, BoundsAssumption DEF TypeOK, Drop, Old
  <1>4. Based'
    <2>1. "guild_config" \notin tables' => Blank'
      BY <1>1 DEF Based, Blank
    <2>2. step' \in 1..(Len(BaseTables) + 1)
      BY <1>1, SevenTables
    <2>3. \A i \in 1..(step' - 1) : Base(i) \in tables'
      BY <1>1, SevenTables DEF Based
    <2>4. fresh' => Blank' /\ ("guild_config" \in tables' => columns' = NewCols)
      BY <1>1 DEF Based, Blank
    <2> QED
      BY <1>1, <2>1, <2>2, <2>3, <2>4 DEF Based
  <1>5. Migrating'
    BY <1>1 DEF Migrating
  <1>6. Stamped'
    <2>1. version = 2 => tables' = tables /\ columns' = columns
      BY <1>1, <1>2, SevenTables DEF Stamped, Current
    <2> QED
      BY <1>1, <2>1 DEF Stamped, Current
  <1>7. Halfway' /\ NothingLost'
    BY <1>1 DEF Halfway, Hist, NothingLost
  <1> QED
    BY <1>1, <1>3, <1>4, <1>5, <1>6, <1>7

(* The end of BASE_SCHEMA: every table is there. *)
LEMMA MigrateIInv ==
  ASSUME IInv, Migrate
  PROVE  IInv'
  <1> USE DEF IInv, HistoryType
  <1>1. /\ pc = "base" /\ step = 8 /\ step' = 1 /\ current' = version
        /\ pc' = IF fresh THEN "stamp"
                 ELSE IF version < 2 THEN "migrate" ELSE "ready"
        /\ UNCHANGED <<fileVars, fresh, faults, history>>
    BY SevenTables DEF Migrate
  <1>2. tables = AllTables
    <2>1. \A i \in 1..7 : Base(i) \in tables
      BY <1>1 DEF Based
    <2> QED
      BY <2>1, SevenTables DEF TypeOK
  <1>3. TypeOK'
    BY <1>1, SevenTables, BoundsAssumption DEF TypeOK, fileVars, Drop, Old
  <1>4. Based'
    BY <1>1, <1>2, SevenTables DEF Based, Blank, fileVars
  <1>5. Migrating'
    <2>1. 1 \in 1..Drop /\ ~(1 > Copy) /\ ~(1 > Recount)
          /\ \A i \in NewCols : ~(i < 1)
      BY BoundsAssumption DEF Drop, Copy, Recount, NewCols
    <2> QED
      BY <1>1, <2>1 DEF Migrating, fileVars
  <1>6. Stamped'
    <2>1. fresh => Current
      BY <1>1, <1>2, SevenTables DEF Based, Blank, Current
    <2>2. version = 2 \/ version < 2
      BY DEF TypeOK
    <2> QED
      BY <1>1, <2>1, <2>2 DEF Stamped, Current, fileVars
  <1> QED
    BY <1>1, <1>3, <1>4, <1>5, <1>6, FileUntouched

-----------------------------------------------------------------------------
(* The statements of MIGRATION_002_CASES. *)
LEMMA AddColumnIInv ==
  ASSUME IInv, AddColumn
  PROVE  IInv'
  <1> USE DEF IInv, HistoryType
  <1>1. /\ pc = "migrate" /\ pc' = "migrate" /\ version < 2
        /\ step \in NewCols /\ step' = step + 1
        /\ columns' = columns \cup {step}
        /\ UNCHANGED <<tables, version, warnings, cases, counter, fresh,
                       current, faults, history>>
    BY DEF AddColumn, Migrating
  <1>2. step' \in 1..Drop /\ ~(step' > Copy) /\ ~(step' > Recount)
    BY <1>1, BoundsAssumption DEF NewCols, Copy, Recount, Drop
  <1>3. \A i \in NewCols : i < step' => i \in columns'
    BY <1>1, BoundsAssumption DEF Migrating, NewCols
  <1>4. TypeOK'
    BY <1>1, <1>2, SevenTables, BoundsAssumption DEF TypeOK, Drop, Old
  <1>5. Based' /\ Migrating'
    BY <1>1, <1>2, <1>3 DEF Based, Blank, Migrating
  <1>6. Stamped' /\ Halfway' /\ NothingLost'
    BY <1>1 DEF Stamped, Halfway, Hist, NothingLost
  <1> QED
    BY <1>1, <1>4, <1>5, <1>6

LEMMA CopyIInv ==
  ASSUME IInv, CopyWarnings
  PROVE  IInv'
  <1> USE DEF IInv, HistoryType
  <1>1. /\ pc = "migrate" /\ pc' = "migrate" /\ version < 2
        /\ step = Copy /\ step' = step + 1 /\ CanCopy
        /\ cases' = [g \in Guilds |-> IF Old(g) = <<>> THEN cases[g] ELSE Old(g)]
        /\ UNCHANGED <<tables, columns, version, warnings, counter, fresh,
                       current, faults, history>>
    BY DEF CopyWarnings, Migrating
  <1>2. warnings = history /\ warnings # Dropped
    BY <1>1 DEF CanCopy
  <1>3. \A g \in Guilds : Hist(g) = Old(g)
    BY <1>2 DEF Hist, Old
  <1>4. \A g \in Guilds : cases'[g] = Hist(g)
    BY <1>1, <1>3 DEF Halfway
  <1>5. \A g \in Guilds : counter[g] \in {0, Len(cases'[g])}
    BY <1>1, EmptyRows DEF Halfway, CanCopy
  <1>6. cases' \in [Guilds -> Rows]
    BY <1>1 DEF TypeOK
  <1>7. step' \in 1..Drop /\ ~(step' > Recount) /\ \A i \in NewCols : i < step
    BY <1>1, BoundsAssumption DEF NewCols, Copy, Recount, Drop
  <1>8. TypeOK'
    BY <1>1, <1>6, <1>7, SevenTables, BoundsAssumption DEF TypeOK, Drop, Old
  <1>9. Based'
    BY <1>1, SevenTables DEF Based
  <1>10. Migrating'
    BY <1>1, <1>2, <1>3, <1>4, <1>7 DEF Migrating, Hist
  <1>11. Stamped' /\ Halfway' /\ NothingLost'
    BY <1>1, <1>2, <1>4, <1>5 DEF Stamped, Halfway, Hist, NothingLost
  <1> QED
    BY <1>1, <1>8, <1>9, <1>10, <1>11

LEMMA CountIInv ==
  ASSUME IInv, CountCases
  PROVE  IInv'
  <1> USE DEF IInv, HistoryType
  <1>1. /\ pc = "migrate" /\ pc' = "migrate" /\ version < 2
        /\ step = Recount /\ step' = step + 1
        /\ counter' = [g \in Guilds |-> IF cases[g] = <<>> THEN counter[g]
                                        ELSE Len(cases[g])]
        /\ UNCHANGED <<tables, columns, version, warnings, cases, fresh,
                       current, faults, history>>
    BY DEF CountCases, Migrating
  <1>2. \A g \in Guilds : counter'[g] = Len(cases[g])
    BY <1>1, EmptyRows DEF Halfway
  <1>3. \A g \in Guilds : Len(cases[g]) \in 0..MaxRows
    BY RowType DEF TypeOK
  <1>4. counter' \in [Guilds -> 0..MaxRows]
    BY <1>1, <1>3 DEF TypeOK
  <1>5. step' \in 1..Drop /\ step > Copy /\ \A i \in NewCols : i < step
    BY <1>1, BoundsAssumption DEF NewCols, Copy, Recount, Drop
  <1>6. TypeOK'
    BY <1>1, <1>4, <1>5, SevenTables, BoundsAssumption DEF TypeOK, Drop, Old
  <1>7. Based'
    BY <1>1, SevenTables DEF Based
  <1>8. Migrating'
    BY <1>1, <1>2, <1>5 DEF Migrating, Hist
  <1>9. Stamped' /\ Halfway' /\ NothingLost'
    BY <1>1, <1>2 DEF Stamped, Halfway, Hist, NothingLost
  <1> QED
    BY <1>1, <1>6, <1>7, <1>8, <1>9

LEMMA DropIInv ==
  ASSUME IInv, DropWarnings
  PROVE  IInv'
  <1> USE DEF IInv, HistoryType
  <1>1. /\ pc = "migrate" /\ pc' = "stamp" /\ version < 2
        /\ step = Drop /\ warnings' = Dropped
        /\ UNCHANGED <<tables, columns, version, cases, counter, step, fresh,
                       current, faults, history>>
    BY DEF DropWarnings, Goto, Migrating
  <1>2. step > Copy /\ step > Recount /\ \A i \in NewCols : i < step
    BY <1>1, BoundsAssumption DEF NewCols, Copy, Recount, Drop
  <1>3. /\ columns = NewCols
        /\ \A g \in Guilds : cases[g] = Hist(g) /\ counter[g] = Len(cases[g])
        /\ warnings = history
    BY <1>1, <1>2 DEF Migrating, TypeOK
  <1>4. TypeOK'
    BY <1>1, EmptyRows DEF TypeOK, Old, Dropped
  <1>5. Based' /\ Migrating' /\ Stamped' /\ Halfway'
    BY <1>1, <1>3, SevenTables
       DEF Based, Migrating, Stamped, Current, Halfway, Hist
  <1>6. NothingLost'
    <2> SUFFICES ASSUME NEW g \in DOMAIN history
                 PROVE  /\ Len(cases[g]) >= Len(history[g])
                        /\ SubSeq(cases[g], 1, Len(history[g])) = history[g]
      BY <1>1 DEF NothingLost
    <2>1. g \in Guilds /\ cases[g] = history[g]
      BY <1>3 DEF Hist
    <2>2. cases[g] \in Seq(Users)
      BY <2>1, RowType DEF TypeOK
    <2> QED
      BY <2>1, <2>2, WholePrefix
  <1> QED
    BY <1>1, <1>4, <1>5, <1>6

LEMMA StampIInv ==
  ASSUME IInv, StampVersion
  PROVE  IInv'
  <1> USE DEF IInv, HistoryType
  <1>1. /\ pc = "stamp" /\ pc' = "ready" /\ version' = 2
        /\ UNCHANGED <<tables, columns, warnings, cases, counter, step, fresh,
                       current, faults, history>>
    BY DEF StampVersion, Goto
  <1>2. TypeOK'
    BY <1>1 DEF TypeOK, Old
  <1>3. Based' /\ Migrating' /\ Stamped' /\ Halfway' /\ NothingLost'
    BY <1>1, SevenTables
       DEF Based, Migrating, Stamped, Current, Halfway, NothingLost
  <1> QED
    BY <1>1, <1>2, <1>3

(* The bot at work. *)
LEMMA AddCaseIInv ==
  ASSUME IInv, NEW g \in Guilds, NEW u \in Users, AddCase(g, u)
  PROVE  IInv'
  <1> USE DEF IInv, HistoryType
  <1>1. /\ pc = "ready" /\ version = 2 /\ Current
        /\ Len(cases[g]) < MaxRows /\ counter[g] = Len(cases[g])
        /\ cases'   = [cases EXCEPT ![g] = Append(@, u)]
        /\ counter' = [counter EXCEPT ![g] = @ + 1]
        /\ UNCHANGED <<tables, columns, version, warnings, callVars, faults,
                       history>>
    BY DEF AddCase, Stamped
  <1>2. /\ cases[g] \in Seq(Users) /\ Len(cases[g]) \in Nat
        /\ Append(cases[g], u) \in Seq(Users)
        /\ Len(Append(cases[g], u)) = Len(cases[g]) + 1
    BY RowType DEF TypeOK
  <1>3. Append(cases[g], u) \in Rows /\ Len(cases[g]) + 1 \in 0..MaxRows
    <2>1. Len(cases[g]) + 1 \in 0..MaxRows
      BY <1>1, <1>2, BoundsAssumption
    <2>2. Len(Append(cases[g], u)) <= MaxRows
      BY <1>2, <2>1, BoundsAssumption
    <2> HIDE DEF IInv, HistoryType
    <2>3. Append(cases[g], u) \in Rows
      BY <1>2, <2>2, ShortIsRow
    <2> QED
      BY <2>1, <2>3
  <1>4. /\ cases'[g] = Append(cases[g], u) /\ counter'[g] = Len(cases'[g])
        /\ \A h \in Guilds \ {g} : cases'[h] = cases[h] /\ counter'[h] = counter[h]
    BY <1>1, <1>2 DEF TypeOK
  <1>5. TypeOK'
    BY <1>1, <1>3 DEF TypeOK, callVars, Old
  <1>6. Based' /\ Migrating' /\ Stamped' /\ Halfway'
    BY <1>1, <1>4, SevenTables
       DEF Based, Migrating, Stamped, Current, Halfway, callVars
  <1>7. NothingLost'
    <2> SUFFICES ASSUME NEW h \in DOMAIN history, warnings # history
                 PROVE  /\ Len(cases'[h]) >= Len(history[h])
                        /\ SubSeq(cases'[h], 1, Len(history[h])) = history[h]
      BY <1>1 DEF NothingLost
    <2>1. /\ h \in Guilds
          /\ Len(cases[h]) >= Len(history[h])
          /\ SubSeq(cases[h], 1, Len(history[h])) = history[h]
      BY DEF NothingLost
    <2>2. cases[h] \in Seq(Users) /\ history[h] \in Seq(Users)
      BY <2>1, RowType DEF TypeOK, HistoryType
    <2>3. CASE h = g
      <3>1. /\ Len(Append(cases[h], u)) >= Len(history[h])
            /\ SubSeq(Append(cases[h], u), 1, Len(history[h])) = history[h]
        BY <2>1, <2>2, AppendKeepsPrefix
      <3> QED
        BY <1>4, <2>3, <3>1
    <2>4. CASE h # g
      BY <1>4, <2>1, <2>4
    <2> QED
      BY <2>3, <2>4
  <1> QED
    BY <1>1, <1>5, <1>6, <1>7

-----------------------------------------------------------------------------
(* The inductive invariant holds in every reachable state. *)
THEOREM Invariance == Spec => []IInv
  <1>1. IInv /\ [Next]_vars => IInv'
    <2> SUFFICES ASSUME IInv, [Next]_vars PROVE IInv'
      OBVIOUS
    <2>1. CASE ConnectStep
      BY <2>1, OutsideIInv, CreateTableIInv, MigrateIInv, AddColumnIInv,
         CopyIInv, CountIInv, DropIInv, StampIInv DEF ConnectStep
    <2>2. ASSUME NEW g \in Guilds, NEW u \in Users, AddCase(g, u)
          PROVE  IInv'
      BY <2>2, AddCaseIInv
    <2>3. CASE Fault
      BY <2>3, OutsideIInv
    <2>4. CASE UNCHANGED vars
      <3>1. UNCHANGED <<fileVars, callVars, faults, history>>
        BY <2>4 DEF vars
      <3>2. TypeOK' /\ Based' /\ Migrating' /\ Stamped'
        BY <3>1 DEF fileVars, callVars, IInv, TypeOK, Old, Based, Blank,
                    Migrating, Hist, Stamped, Current
      <3> QED
        BY <3>1, <3>2, FileUntouched
    <2> QED
      BY <2>1, <2>2, <2>3, <2>4 DEF Next
  <1> QED
    BY InitIInv, <1>1, PTL DEF Spec

(* However often the upgrade is interrupted: see NothingLost. *)
THEOREM WarningsKept == Spec => []NothingLost
  BY Invariance, PTL DEF IInv

(* A bot that runs has the whole schema: see ReadyIsCurrent. *)
THEOREM SchemaCurrent == Spec => []ReadyIsCurrent
  <1>1. IInv => ReadyIsCurrent
    BY DEF IInv, Stamped, Current, ReadyIsCurrent
  <1> QED
    BY <1>1, Invariance, PTL
=============================================================================
