# warden-bot, specified

TLA+ models of warden-bot, a Discord moderation bot: one Python process, one
asyncio loop, one SQLite connection, and Discord on the other side of every
`await`.  Whatever happens between two awaits is atomic; everything that goes
wrong here goes wrong between them.  The models split each handler at its
awaits and let the pieces interleave with each other, with failures and with
restarts.

Paths below are relative to the repository (`src/cogs/...` is the bot's code).

## 1. The system

| part | code | state it keeps | operations |
|---|---|---|---|
| Database | `src/data/db.py` | one aiosqlite connection, `_write_lock`, tables | `transaction`, `add_case`, `deactivate_case`, `clear_warnings`, tickets, words, config, queries |
| Schema | `src/data/db.py` 32-210 | tables, `user_version` | `connect`, `_migrate` |
| Guild settings | `src/services/guild_config.py` | one cached `GuildConfig` per guild | `get`, `update`, `invalidate` |
| Word lists | `src/services/word_filter.py` | one compiled filter per guild | `find`, `add`, `remove`, `clear`, `reload_defaults`, `invalidate` |
| Escalation | `src/services/escalation.py` | none | `apply` |
| Mod log | `src/services/modlog.py` | none | `send`, `send_event` |
| Spam tracker | `src/services/spam.py` | recent messages per member, at most 10 000 members | `inspect`, `forget`, `clear_guild` |
| Raid tracker | `src/services/raid.py` | recent joins and the last alert per guild | `record`, `forget` |
| Moderation | `src/cogs/moderation.py` | the sweeper task | kick, ban, tempban, unban, timeout, untimeout, warn, delwarn, clearwarnings, purge, listings; `sweep_expired_bans` |
| Message filter | `src/cogs/automod.py` | who was punished moments ago | `on_message`, honeypot, `/words`, `/automod` |
| Gatekeeper | `src/cogs/gatekeeper.py` | none | `on_member_join` |
| Tickets | `src/cogs/tickets.py` | a lock per member who is clicking | open, close, panel, add, remove |
| Music | `src/cogs/music/` | a player, its queue and its task per guild | play, skip, pause, volume, stop, voice updates |
| Trivia | `src/cogs/trivia.py` | a view per question: its flag, its message | answer, timeout |
| Listings | `src/core/pagination.py` | a view per listing: its pages, its index | previous, next, timeout |
| Channels | `src/cogs/channels.py` | none (overwrites at Discord) | lock, unlock, slowmode |
| Event log, documentation, user info, admin | `src/cogs/` | none | formatting; admin commands call `update` |
| Lifecycle | `src/core/bot.py`, `src/bot.py` | the services | `setup_hook`, `close`, `on_guild_remove` |

**How they interact.**  Every cog holds the same service objects.  A gateway
event or a command starts a coroutine; several of them run at a time, for the
same member too.  `automod` and `/warn` write a warning through `add_case`,
send a report through the mod log and hand the total to `escalation.apply`,
which acts on Discord and writes a second case.  Reads of the database take no
lock and share the connection with whatever transaction is open; writes queue
at `_write_lock`.  The caches are filled by readers and dropped or overwritten
by writers.  The sweeper reads cases that `/tempban` wrote and retires them, as
`/unban` does.  Tickets keep a row in the database, a channel on Discord and
what the gateway's cache says of that channel, and the three may disagree.
`on_guild_remove` drops the caches and both trackers' entries.

**What is hard.**  Interleaving of coroutines at awaits; reads of uncommitted
rows over the shared connection; exceptions between two writes of one
operation; decisions made on data read several awaits earlier; a process that
dies between a Discord call and the row that records it; a background loop an
exception ends; tables and histories that are cut at a limit.
`PROJECT.json` lists each such place with its line under `hazards`, and the
properties that watch over it.

**What makes each part correct**, in a sentence:

- cases: numbers per guild are 1, 2, ... without gaps, a total is never reported
  twice, an operation happens as a whole or not at all;
- migration: no old warning is lost, and a bot that runs has the new schema;
- settings and words: what is cached is what is stored, and thresholds stay in order;
- escalation: enough warnings end in a ban, and only enough warnings do;
- sanctions: what was done to a member is a case, and what was refused is none;
- tempbans: a ban ends when its time is up, and not before;
- tickets: one open ticket per member; no channel deleted without its transcript,
  none left behind;
- trackers: what is judged on a pruned, bounded table is what the whole history
  would say; one raid, one alert;
- channel overwrites: a command changes what it names and nothing else;
- trivia: one outcome per round, shown to everyone, and every round ends;
- listings: every case can be reached by its buttons;
- the language filter: a listed word is found under each disguise, and only there;
- music: each accepted track is played or its failure told, as long as the
  session lasts; nothing plays that `/stop` cannot reach.

## 2. Modules

| module | models | extends / uses |
|---|---|---|
| `Cases` | rows of the cases table and the queries on them | |
| `CaseLedger` | **abstract**: add, retire and clear as single steps of a durable ledger | `Cases` |
| `CaseStore` | the same statement by statement, with lock, transaction, rollback, crash | `Cases`; implements `CaseLedger` |
| `CaseStoreProofs` | theorems about `CaseStore` | `CaseStore` |
| `Connection` | the aiosqlite worker: one queue of requests, answers in order; the write lock | |
| `WordCache` | `word_filter.py` over `get_words`, `add_words`, ... | `Connection` |
| `ConfigCache` | `guild_config.py` over `get_config`, `upsert_config` | `Connection` |
| `Caches` | both caches on the one connection, which they share with each other | `Connection`, `WordCache`, `ConfigCache` |
| `CachesProofs` | theorems about `Caches` | `Caches` |
| `WordFilter` | `normalize`, `build_pattern` and `find`, beside what they promise | |
| `Migration` | `connect` and the version 2 script | |
| `MigrationProofs` | theorems about `Migration` | `Migration` |
| `Tempbans` | `/ban`, `/tempban`, `/unban` and the sweeper | |
| `TempbansProofs` | theorems about `Tempbans` | `Tempbans` |
| `Sanctions` | `/warn`, `/kick`, `/timeout`, `/untimeout`, `/delwarn`, `/clearwarnings`, filter, honeypot, age gate, escalation | |
| `SanctionsProofs` | theorems about `Sanctions` | `Sanctions` |
| `Tickets` | opening and closing of tickets | |
| `TicketsProofs` | theorems about `Tickets` | `Tickets` |
| `View` | `discord.ui.View`: its timer, presses, the message it is attached to | |
| `TriviaRound` | a round of trivia | `View` |
| `CasePages` | the pages of `/cases` and `/warnings`, and their buttons | `View` |
| `ChannelAccess` | `/lock`, `/unlock`, `/slowmode`, `/ticket_add`, `/ticket_remove` | |
| `Interactions` | the three of them over one bot, its tasks, Discord's answers and restarts | `View`, `TriviaRound`, `CasePages`, `ChannelAccess` |
| `InteractionsProofs` | theorems about `Interactions`, `MusicPlayer` and `WordFilter`, a part for each | `Interactions`, `MusicPlayer`, `WordFilter` |
| `Monotonic` | the trackers' clock, the budget of their events, and the lists of times that both prune | |
| `SpamTracker` | `spam.py` | `Monotonic` |
| `RaidTracker` | `raid.py` | `Monotonic` |
| `PlayQueue` | **abstract**: one line of accepted tracks, first come, first served | |
| `MusicPlayer` | `/play`, the player's task, its queue and callback, the voice client, teardown | implements `PlayQueue` |
| `Protection` | both trackers as the cogs and `on_guild_remove` drive them | `SpamTracker`, `RaidTracker` |
| `ProtectionProofs` | theorems about `Protection` | `Protection` |
| `MC*` | constants for TLC | the module a run checks |

Conventions.  An action bears the name of the function or statement it models.
`pc` says where each coroutine is; its locals are functions of the coroutine.
Variables marked *history* are not in the code: they remember what a property
needs (what really happened, what failed, what was asked) and no guard of the
code's actions reads them.  Bounds are constants, marked *bound* in their
declaration.  An operator whose comment begins with *Fault* is a plausible bug
in the operator that follows it; nothing uses it, and it is there to be swapped
in, to see that a property notices (`PROJECT.json`, `mutants`).

### Cases: `CaseStore`

`counter` and `cases` are what the connection sees, `durCounter` and `durCases`
what the file holds; they differ while `inTx`.  `lock` and `waiters` are
`_write_lock` with asyncio's first-in-first-out queue.  `add_case` is
`AddCase` (reads the clock, asks for the lock), `Begin`, `BumpCounter`,
`ReadNumber`, `InsertCase`, `CountWarnings`, `Commit`; `deactivate_case` reads
the case first, outside the lock (`DeactivateCase`, `Looked`).  Any statement
may raise, and then `Rollback`; `BEGIN` may raise before the `try`
(`BeginFails`), `COMMIT` after it (`CommitFails`); `Crash` at any point loses
what is not committed.  `told` remembers the total each case was answered with.

`CaseLedger` has two variables, the last number and the log, and one step per
operation.  `ImplementsLedger` maps them to the durable half of the store: each
`Commit` is one step of the ledger and everything else a stutter.  This is what
allows every other module to treat a database write as one step that happens or
raises.

### Caches: `Connection`, `WordCache`, `ConfigCache`, `Caches`

A coroutine submits a statement, the worker answers in order, and the coroutine
continues later: a reader is between SELECT and storing its result while others
write.  `WordCache` keeps the list as the connection sees it (`words`), as
committed (`stored`), and the compiled `filter`.  Rows of a SELECT are stepped
lazily, so a reader may also see part of a write.  `ConfigCache` keeps one row
of three fields: two that `/set_warn_thresholds` validates together and one
(`modlog`) that is set alone; the seventeen settings behave as one or the other.
`Caches` is where they run: a coroutine calls one service or the other
(`callers`), and all of them queue at the one worker and the one write lock, so
that a reader of words may be served between the statements of a change of
settings, and a transaction of one service holds up the other's.

### `WordFilter`

A message is a sequence of characters, and of a character only its class
counts: a letter, a capital, a symbol that leet uses, another mark, white space,
a zero-width character.  `StripZeroWidth`, `LowerCase`, `ReplaceLeet`,
`SquashInner` and `BlankRuns` are the lines of `normalize`, each over the whole
text the one before left; `Pattern` and `Accepts` are the regular expression
`build_pattern` makes, the latter by the states it may be in.  `Write` is the
member at the keyboard, so that the run meets every message up to its bound.
`Spelt` says the same without passes: each character is read by itself, from the
visible characters beside it, and a word with letters drawn out is a monotone
map onto the listed one.

### `Migration`

`step` walks through `BASE_SCHEMA` and the migration script, one statement at
a time, each committed by itself as `executescript` does.  A `Fault` (the
process dies, SQLite raises) may strike before any of them; the next `Connect`
decides what to do from the version and the tables it finds.

### `Tempbans`

`cases` holds the tempban cases with their expiry, `ban` what Discord has in
force (with the time the moderator meant it to end).  Moderators are coroutines
(`pc`, `todo`), the sweeper another (`spc`, `batch`, `current`): it reads the
due cases once and works through that list while moderators ban and unban.
`spc = "dead"` is the task after an exception that is not a connection error.

### `Sanctions`

A handler is `pc`, the member, the action it is about to take, the settings
read on the way and the total `add_case` returned.  Warnings go
`warning -> reporting -> acting -> recording`, filter hits begin at `deleting`
with the cooldown's check, direct actions at `acting`.  `presence` is what the
member is to Discord.  `done` counts what Discord was made to do.

### `Tickets`

A click is a coroutine of `open_ticket`, a closer one of `close_ticket`.
`lockOf`, `held` and `queue` are the map of `asyncio.Lock`s and their waiters:
a released lock is free until the waiter it woke is resumed (`Resume`), and may
be dropped from the map meanwhile.  `channel` is what Discord has, `cached`
what `get_channel` finds, `owner` and `status` the rows; a ticket's number is on show
only and left out.  `callers` says who is in the run: three clicks, or two and a
closer.

### `View`, `TriviaRound`, `CasePages`, `ChannelAccess`, `Interactions`

What members press, and what Discord shows.  `View` is the library: a view is
live until it is stopped or its timer runs out, a press takes the callback of a
live view only, edits of a message are under way (`pending`) until Discord
takes or refuses them, and two of them may overtake one another.  `TriviaRound`
is `callback` and `on_timeout` at their awaits, with a `message` that is not
known until the command's reply has returned.  `CasePages` cuts a member's
cases into pages that Discord accepts and walks through them.  `ChannelAccess`
reads an overwrite from the gateway's cache, changes a field or two, and writes
the whole of it; other moderators, people in Discord's dialogue and late gateway
events do so too.  `Interactions` holds one of the three (`kind`): they share the
bot, not each other's state, so a run of one at a time loses no interleaving.

### `SpamTracker`, `RaidTracker`, `Protection`

Neither tracker awaits, so a call is one step; the difficulty is in the data: a
table that is halved when full, lists that are cut at a length and at an age.
`sent` and `joined` keep what really happened, and the properties hold the
verdicts against them.  A join while the threshold is zero leaves no trace and
is no step.  The two share the clock and `on_guild_remove`.

### `MusicPlayer`

One guild.  A track stands for the `/play` that asks for it (`request`), and a
player bears the name of the track it was created for.  `registered` is
`players.get(guild.id)`; `task` says which await of `_run` and `_play_next` a
player is in, `queue`, `track` and `advance` are its deque, the track it took and
its event.  The loop's head (`PlayNext`, `Take`) is part of whatever step returns
to it, because the code does not await there: `get` waits only for an empty
queue.  `voice` is `guild.voice_client` (`closing` between `disconnect` and its
return, when `is_connected()` may say either), `audio` the player whose source
it plays, `callbacks` the `_after_play`s that the audio thread has posted.
`stopper` runs `teardown`, from `/stop`, from the last listener's leaving and from
the report that the bot itself left (`left`), which may come late.  `Crash` is
any exception `_run` logs.  `excused` remembers the tracks that were on their way
when a session was ended, or when the idle timer ran out.  What `disconnect` does
to a client that is still connecting is the library's: it goes on, or is forgotten.

`PlayQueue` is what those who ask for tracks are promised: a line that accepted
tracks join at its end and leave at its head, because they are played, because
their failure is announced, or because the end of the session has overtaken them
(`Lose`).  `KeepsOrder` maps it to the code: the line is what the registered player
loads and what waits in its queue (`Line`), a track's fate is that of its `/play`
(`Fate`), and `over` is `excused`.  No single player keeps the promise: a second
one is made when the first has gone, and a cancelled one may still be about to
return.

## 3. Runs

Ten runs find no error; two show where code and documentation disagree.

| run | bounds | distinct states | shows |
|---|---|---|---|
| `CaseStoreSafety` | 3 coroutines, 1 guild, 1 member, 2 cases, 2 instants | 430 000 | transactions exclude each other, numbers contiguous, totals true at commit, numbers in order of time, nobody stranded at the lock, refinement of `CaseLedger` |
| `CachesSafety` | 3 coroutines of one service, or 1 of each; 2 words, thresholds up to 2 | 1 997 000 | a change is whole or absent; the filter is current unless a change has failed; thresholds in order; the cache is what is stored |
| `WordFilterSafety` | messages of 6 characters out of 7 classes, 3 lists | 412 000 | the filter finds the listed words that stand in a message, disguised or not, and no others |
| `MigrationSafety` | 2 guilds, 2 old rows, 2 new columns, 2 faults | 26 000 | nothing lost, ready means current, an undisturbed start succeeds |
| `TempbansSafety` | 2 moderators and the sweeper, 1 member, 3 cases, 1 failure | 105 000 | bans keep their case, unbans retire all there was, fresh bans last, due cases end |
| `SanctionsSafety` | 2 handlers, 2 members, 2 settings, 1 failure | 2 860 000 | warnings end in a ban, sanctions are recorded, removals earned, floods warn once |
| `TicketsSafety` | 3 clicks of 1 member, or 2 and a closer; 2 channels | 1 665 000 | one open ticket, locks drain and strand no click, what the bot deletes, leaves behind and closes |
| `ProtectionSafety` | 3 members, table of 2, histories of 3, 5 events | 2 150 000 | verdicts by the whole history, bounds, alerts spaced, spikes reported |
| `MusicSafety` | 3 plays, 2 teardowns, queue of 2 | 1 410 000 | accepted tracks are kept, players hear of the end of their track, nothing plays that cannot be stopped, refinement of `PlayQueue` |
| `InteractionsSafety` | 3 members who press, up to 4 cases in pages of 2, 2 moderators, 2 guests, 3 edits under way | 694 000 | one outcome per round, every round ends, every case reachable, nobody's permission changed by a command about another |
| `TempbansEarly` | 1 moderator | violation | a newer ban lifted with the older one |
| `MigrationInterrupted` | 1 fault | violation | a file no later start can open |

**Why the bounds are enough.**  Three coroutines are a holder of a lock, the
waiter it wakes and a third that arrives in between: the known races of
`Tickets` and the caches need exactly that, and two would not find them.  Two
cases are two for one member, so that a total can be wrong; a third case in
`Tempbans` is the one written while the first two are being retired.  One guild
is enough where guilds share only the lock (the coroutines of another guild are
coroutines that hold it).  In `Protection` the table overflows at the third
member, histories at the fourth message, and a cooldown of two with a window
of one lets a raid outlast its alert.  In `Sanctions`, `MaxPunished = 0` makes
the table of the recently punished overflow at its second member; thresholds of
1 and 2 let a kick and a ban race.  In `MusicPlayer` three tracks are two that
fill the queue, so that they have an order, and one that is refused, plays before
them or outlives the session, and three players may follow each other; two teardowns may meet.  In
`Interactions` three edits under way are two that overtake one another and the
timer's; four cases of two sizes fill a page by number and by length; two
moderators and a person in Discord's dialogue are one more than the lost update
needs.  In `WordFilter` six characters hold a word of three with a disguise in it
and what stands on both sides; three of the same letter draw a doubled letter out.
In `Caches` one caller of each service meets the other in every order, and three
of one meet themselves; two of one beside one of the other went beyond the time
a run is given.  Symmetry is taken over coroutines and
members only, in runs without liveness, and nothing orders them.

A type invariant is checked where a table could outgrow its bound
(`Protection`); those of the other modules are the typing their
proofs begin with, hold there for every instance, and are left out of the runs.

**Deadlock** is checked except where the system may come to rest: a bounded
history is used up (`Sanctions`, `Protection`, `MusicPlayer`), the message is as long as
the bound allows (`WordFilter`) or the bot runs, or refuses to start
(`Migration`).

**Fairness.**  `Tempbans` assumes that the loop runs (`WF` of the sweeper's
steps: `tasks.loop` restarts it every minute), that a ban the bot tries to lift
again and again is lifted in the end (`SF` of `Lift`: the README's own condition
for the retry to help), and that the process does not die between lifting and
retiring every single time (`SF` of `RetireLifted`).  It assumes nothing of
moderators.  `Migration` assumes that the bot is started again and its
statements end (`WF` of `ConnectStep`).  `Interactions` assumes that the view's
timer runs out (`WF` of `TimerFires`: the library sets it with every view), that
the loop resumes a task it was given (`WF` of `TaskRuns`), and that Discord answers an edit,
by taking or by refusing it (`WF` of `Delivery`); it assumes nothing of members.  No other run has fairness: that no
writer and no click is stranded is stated as an invariant on lock and queue
(`WritersServed`, `WaitersServed`), because a stranded waiter is a state, not
only a behaviour.

### Where code and documents disagree

Shown by a run:

- **A tempban may end early** (`TempbansEarly`).  `_ban` leaves the member's
  earlier tempban cases active, and the sweeper lifts whatever ban is in force
  when the first of them is due, a longer or permanent one included
  (`src/cogs/moderation.py:699`).
- **An interrupted migration is final** (`MigrationInterrupted`).
  `executescript` commits statement by statement; after a crash among the
  `ALTER TABLE`s every later start fails on a column that exists
  (`src/data/db.py:202`).  No warning is lost (`NothingLost`).

Met while modelling, stated in the modules, and not spent a run on:

- `ClicksSerialised` (`Tickets`): `_release_lock` drops a lock that is free
  only until its waiter resumes, so a later click gets a second lock and runs
  beside it (`src/cogs/tickets.py:289`).  The UNIQUE index still keeps the
  second ticket out, which is what `OneOpenTicketPerUser` shows.
- `KeptWithoutModlog` (`Tickets`): with the mod log gone, a DM to the closer is
  enough for the channel to be deleted (`src/cogs/tickets.py:543`; the
  repository's README, lines 101-103, promises to keep it).
- `RetiredByOneCaller` (`CaseStore`): two concurrent `/delwarn`s of one case
  are both told they retired it (`src/data/db.py:437`).
- `/unban` retires a tempban case written after its own unban went through;
  that newer ban then has no end (`src/cogs/moderation.py:679`).
  `RecordedBanTracked` exempts just this case (`overtaken`).
- `SweeperSurvives` (`Tempbans`): an error of the database in the loop's body
  ends the sweeper until the next start (`src/cogs/moderation.py:709`).
  `DueCaseRetired` is about a sweeper that is alive.
- `WordCache`: a reader may cache words of a change that is then rolled back,
  and the exception leaves `add` before `invalidate`
  (`src/services/word_filter.py:161`).  `FilterCurrent` exempts histories with a
  failed change (`failed`).
- `DefaultsOnlyWhenAbsent`, `OnlyItsFields` (`ConfigCache`): `get_config` may
  write defaults over a setting saved meanwhile, and of two concurrent updates
  the second restores the first one's fields (`src/data/db.py:234`,
  `src/services/guild_config.py:49`).
- Flood limits above 20 never fire: a member's history is cut at
  `HISTORY_PER_MEMBER = 20`, and `/antispam` accepts up to 50
  (`src/services/spam.py:100`, `src/cogs/admin.py:222`).  `JudgedByHistory` is checked
  for a limit the history can reach.
- A `/play` that is looking its track up when the idle timer runs out is told
  "Added to the queue", gets a new player that finds no voice client, and is
  never played (`src/cogs/music/music.py:166`, `music_player.py:179`); so is one
  whose track is put between the timer and the task it cancels.
  `AcceptedIsKept` exempts these (`excused`), and no others than those whose
  session was being ended.
- `IdlesWithPlayer` (`MusicPlayer`): the bot leaves by itself "after five minutes
  with nothing queued" (`src/cogs/music/music.py:13`) only if it has a player;
  after `/join` alone it stays while there are listeners.
- A word added with leet in it is not found: `build_pattern` keeps an entry's
  letters (`sh1t` becomes `sht`), while `normalize` reads the leet of a message
  (`sh1t` becomes `shit`), so the entry is not found even verbatim
  (`EntryFindsItself`; `src/services/word_filter.py:87`).  `/words add` reports it
  as added, which `src/cogs/automod.py:54-56` means to avoid.
- The repository's README, lines 47-49, says of the language filter that it
  defeats `f4ck` and that spacing is squashed.  `4` is read as `a`, so `f4ck`
  becomes `fack` (`tests/test_word_filter.py` expects so), and spaces are kept.
  `FoundIffSpelt` is about what the code's own docstring says.
- `/unlock` sets @everyone's permission to post to neutral, whatever it was before
  `/lock` (`src/cogs/channels.py`); `OthersPreserved` is about the members and
  fields a command does not name.
- A round or a listing keeps its buttons, and answers no more, when Discord
  refuses the last edit, as it does after the fifteen minutes an interaction's
  token lasts, or when the command's reply has not returned before the
  timer (`src/cogs/trivia.py:123`).  `RoundEnds` exempts an edit that was refused
  and a message that was lost (`lost`), and nothing else.
- A volume set while a track is being resolved reaches the player and not that
  track, which was given the old one (`src/cogs/music/music_player.py:123-131`
  and 184; the docstring says "to everything after it").
- When `add_case` raises after Discord has acted, the action has no case
  (`src/services/escalation.py:83`): `SanctionsRecorded` is about histories in
  which nothing failed.

## 4. Proofs

TLC explores a small instance; the theorems below hold for every value of the
constants that the named assumptions of the modules allow: any members, guilds,
coroutines, words, limits and bounds.  Each `<X>Proofs` extends `<X>`, defines an
inductive invariant `IInv`, shows `Init => IInv` and, action by action,
`IInv /\ [Next]_vars => IInv'`, and concludes `Invariance`, which its other
theorems rest on.

| module | theorem | states |
|---|---|---|
| `CaseStoreProofs` | `TypeCorrect` | `Spec => []TypeOK` |
| | `Exclusion` | `Spec => []OneTransaction` |
| | `Numbering` | `Spec => []NumbersContiguous` |
| | `TotalsFresh` | `Spec => []TotalStillTrue` |
| | `NumbersFollowClock` | `Spec => []CreatedInOrder` |
| | `LockServed` | `Spec => []WritersServed` |
| | `Refinement` | `Spec => ImplementsLedger` |
| `CachesProofs` | `CurrentFilter` | `Spec => []FilterCurrent` |
| | `OrderedThresholds` | `Spec => []ThresholdsOrdered` |
| | `FreshCache` | `Spec => []CacheFresh` |
| | `WholeChanges` | `Spec => AllOrNothing` |
| `MigrationProofs` | `WarningsKept` | `Spec => []NothingLost` |
| | `SchemaCurrent` | `Spec => []ReadyIsCurrent` |
| `TempbansProofs` | `BansTracked` | `Spec => []RecordedBanTracked` |
| | `UnbanComplete` | `Spec => []UnbanRetiresAll` |
| | `FreshBansLast` | `Spec => FreshBansRespected` |
| `SanctionsProofs` | `ThresholdBans` | `Spec => []EnoughWarningsBan` |
| | `EverySanctionRecorded` | `Spec => []SanctionsRecorded` |
| | `RemovalsEarned` | `Spec => RemovalEarned` |
| | `FloodsWarnOnce` | `Spec => FloodWarnsOnce` |
| `TicketsProofs` | `OneTicket` | `Spec => []OneOpenTicketPerUser` |
| | `LocksServe` | `Spec => []WaitersServed` |
| | `TicketsKept` | `Spec => []BotKeepsOpenTickets` |
| | `TranscriptsDelivered` | `Spec => []TranscriptBeforeDelete` |
| | `ChannelsAccounted` | `Spec => []NoStrayChannels` |
| | `ClosingJustified` | `Spec => ClosedForAReason` |
| `ProtectionProofs` | `TypeCorrect` | `Spec => []TypeOK` |
| | `JudgedTruly` | `Spec => []JudgedByHistory`, where a history can be as long as the flood limit |
| | `LimitOutOfReach` | where it cannot, no message is ever called a flood |
| | `AlertsApart` | `Spec => []AlertsSpaced` |
| | `SpikesReported` | `Spec => SpikeReported` |
| `InteractionsProofs` | `OneOutcomeTold` | `Spec => []OneOutcome` |
| | `OverwritesPreserved` | `Spec => OthersPreserved` |
| | `AcceptedTracksKept` | `MusicSpec => []AcceptedIsKept` |
| | `TrackEndHeard` | `MusicSpec => []AdvanceComes` |
| | `AudioCanBeStopped` | `MusicSpec => []NoOrphanAudio` |
| | `MusicKeepsOrder` | `MusicSpec => KeepsOrder` |
| | `BrowsingInvariance` | `Spec => []Browsing`: what a listing shows, and is about to show, is one of its pages |
| | `CasesReachable` | `Spec => []EveryCaseReachable` |
| | `FilterExact` | `FilterSpec => []FoundIffSpelt` |

`InteractionsProofs` has a part for each of `Interactions`, `MusicPlayer` and
`WordFilter`.  They share the lemmas about folds and flattened sequences and
nothing else.  The invariant of the second is `MusicInv` (`MusicInvariance`); that
of the third is the typing of a message.

Every invariant and action property that a run checks is a theorem here
(`JudgedByHistory` where a history can be as long as the flood limit), and so are
both refinements; the three properties under fairness are not.

**Assumptions** are those the modules declare.  Most say that two things are not
the same (`Free` is no coroutine, `Absent` no row of settings, the timer's task
no member's press), that a set has a member or a bound is a number.  The others
say something of the code:

- thresholds of warnings begin at 1 and the ban's is not below the kick's
  (`LimitsAssumption` of `Sanctions`; `src/cogs/admin.py:159` and 162);
- a raid threshold, when it is not off, is at most the joins kept
  (`RaidAssumption`; 100 in `src/cogs/admin.py:268`, 200 in `src/services/raid.py:16`);
- windows and histories are positive and the table of members holds two
  (`SpamAssumption`; `src/services/spam.py`, `src/cogs/admin.py:223`);
- a player's queue takes at least one track (`QueueAssumption` of `MusicPlayer`; 100 in
  `src/cogs/music/music_player.py:33`);
- there are as many locks as clicks, since the code makes one when it needs one
  (`LocksAssumption` of `Tickets`), and finitely many coroutines (`CoroutinesAssumption`);
- a page has room for its title and the longest case, and with both and its footer
  is what Discord takes (`RoomAssumption` of `Interactions`), and it holds a case
  at least (`PageAssumption`; 8 in `src/cogs/moderation.py:51`);
- a character is of one class, `str.lower` and the leet table give letters, and a
  list's entries are made of the same characters as messages
  (`ClassesAssumption`, `TablesAssumption`, `ListsAssumption` of `WordFilter`;
  `src/services/word_filter.py:35-53`).

### The arguments

**`CaseStore`.**  `OneTransaction` and `NumbersContiguous` are not inductive: they
say nothing of what a transaction has written so far, so that its commit could
make anything durable.  `IInv` adds `Progress`, which gives for each position
inside a transaction what the connection sees as a function of what the file
holds (nothing yet; the counter bumped; the counter bumped and the case
inserted; some cases retired), and `Operations`, which says that a statement
belongs to the operation under way.  Since only the holder of the lock is
inside a transaction, a step of one coroutine leaves the others' conjuncts true
(`Alone`, `OutsideStep`); inside, each statement takes its own clause of
`Progress` to the next (`InsideStep`); commit and rollback end it (`EndStep`).
`Refinement` uses the same invariant: at `Commit` the difference between the
two states of the database is exactly one operation of the ledger
(`CommitRefines`), and no other step changes the file.

`CreatedInOrder` needs the queue.  A second invariant, `QInv`, says who waits
(`Line`: each call that is about to begin once, and a held lock belongs to a call
that wants it) and since when (`Times`: no committed case is younger than a call
that is still to add one, and the calls ask for later and later times along the
queue, the holder first).  It is inductive beside `IInv`: a call that joins is
the youngest (`JoinQInv`), the head of the queue inherits the lock
(`LeaveQInv`), a commit adds the oldest case still asked for (`CommitQInv`).

**`Caches`.**  What keeps a stale result out of a cache is the order in which the
one worker answers, and nothing else: there is no lock around a read.  `Apart`
says who is at the connection (each coroutine has one statement pending, only
the holder of the write lock has a write pending, the others wait in line).
`Before` compares two places in its queue by the rounds a coroutine has still to
go and then by position.  The invariant's core is that a reader which holds
something old, or is about to, is answered for good before the writer that makes
it old (`OldLists`, `ReadersFirst`).  `SoFar` and `RowsWritten` say how much of a
change is in the table at each of its statements, so that what is committed is a
whole change.

**`Migration`.**  For each statement of the script, `Based` and `Migrating` say what
its predecessors have left in the file, whichever of them ran in an earlier,
interrupted start; `Halfway` says that before the version is stamped the cases
are the migrated warnings or none, and the counters agree with them or are
still zero; `Current` is what the stamp vouches for.

**`Tempbans`.**  `RecordedBanTracked` speaks of a ban and a case; what breaks such a
promise is what a coroutine read earlier.  So the invariant adds what `/unban`
has yet to retire (`TodoKept`, `RetiringKept`, `SeenKept`), and strengthens the
promise itself: the case that stands for the ban is not the one the sweeper
holds (`Tracked`).  `OwnCaseOnly` does the same for a ban placed when the member
had no other tempban pending.

**`Sanctions`.**  A handler acts on locals several awaits old.  `Chosen`, `Earned` and
`SettingsFresh` say what they are still worth: the action is the one the total
asks for, the total is at most what the member has unless he was pardoned
meanwhile, the settings are the stored ones unless they were changed.  `Remembered`
is the cooldown's table beside what really happened.  The counting lemmas tie
`done` to the cases and to the handlers that have still to write one.

**`Tickets`.**  Two halves that do not use each other.  One relates what each
coroutine remembers to rows and channels (`OwnChannels`, `OldTickets`,
`ClosersKnow`), and gives every promise about tickets; that one open ticket per
member does not need the lock is a result in itself, since the code may drop the
lock too early.  The other relates lock objects to those who hold or await them,
and gives `WaitersServed`.

**`Protection`.**  Each list a tracker keeps is a suffix of the true history, and
what it left out is older than the window or beyond a full list (`Kept`); the
histories are ordered, and counting in a suffix from a time on is counting in the
whole (`KeptCounts`).  The hypothesis of `JudgedTruly` is
`Larger(2, MessageLimit) <= HistoryPerMember`: the code compares the flood limit
with a list cut at 20, and `/antispam` accepts up to 50.  `LimitOutOfReach` is the
other case: the same invariant shows that a flood is then never reported.
`Alerting` keeps the last alert as the end of the alerts' history.

**`Interactions`.**  The loop runs tasks in the order they were made, and a view's
timer makes its last one; so whatever runs before the question is settled finds
no outcome (`Round`).  A channel command stores an overwrite that agrees with the
one it replaces unless an edit the bot had not heard of came between
(`Channels`).

**`MusicPlayer`.**  Nothing locks the player, its queue and the voice client, so
`MusicInv` says how far they can come apart.  `Players`: the registered player is
the one whose task is at work and not cancelled.  `Sources`: the end of a source
is told once, by `_after_play` or by the event it sets, and never while it plays.
`Quiet`: a player that loads or fetches has no source and no word of one's end on
its way, so the event it clears is the last track's.  The rest is what an
accepted track rests on: only one `/play` connects at a time (`Connecting`); a
track that is not excused has a connected client (`Settled`); what begins
while the bot is leaving is excused (`Overtaken`), and so is the track of a player
that loads it for a client that is gone (`Outdated`); a player only holds what was
handed to it (`Handed`).  Without `Settled`, for one, `Take` could find no client
and end the player while accepted tracks wait in its queue.  TLC checked
`MusicInv` on the instance of `MusicSafety` before it was proved.

`MusicKeepsOrder` maps each step to one of `PlayQueue`.  What is easy to see of the
abstract line, that it holds accepted tracks only and none twice, is proved of it
and inherited (`Lined`, `LinedKept`).  `Resolve` accepts or refuses, and the
registered player serves the head it has taken.  Every other step that takes tracks out
of the line (a player that ends, a teardown, a fetch that drops what was
loading) takes them off its head, and `AcceptedIsKept` says that these were
overtaken (`Shortened`).

**Listings.**  `Layout` is a fold over the cases; `LayoutSteps` makes a recursion on
the index of it, and `LayoutFits` shows by induction on that index that the pages
laid out so far hold the cases so far, in order, none empty and none over the
limits.  `Browsing` then says of the buttons that whatever is on its way to the
message (a page in an edit, the page the next press makes) is one of these pages
with its own number, and that a view which still listens shows the buttons that
lead to its neighbours.

**`WordFilter`.**  There is nothing to induct over in its behaviours: the theorem is
about what four passes and an automaton compute of one message.  Each pass keeps
some characters of the text before it, in their order, and replaces others in
place, so it is given by a numbering of the places it keeps (`Numbers`, `Sifts`).
Numberings compose (`Renumbered`) and a set has only one (`SameNumbers`).
`Neighbours` is the step that makes the look-arounds agree with the promise: after
the zero-width characters are gone, the characters next to a symbol are the
letters it stands between; `Translated` needs besides that a symbol `ReplaceLeet`
turned into a letter does not make a neighbour of one that was left.  The passes
together give `Aligned`: a letter of the normalised text for each character that
is read, another character where a gap keeps two of them apart.  From this a run
of letters and the stretch of the message it comes from read the same
(`SameReading`), each has the other (`RunOf`, `StretchOf`), and the first is the
first.  `AcceptsDrawnOut` follows the automaton state by state: a state is reached
by the prefixes of the run that are the word's prefix with letters drawn out.

**Induction on an index.**  The library's induction theorems take a predicate as
parameter, which the provers here cannot instantiate.  `Smallest` and `Upto` say the
same of a set, from the library's theorem that the natural numbers are well
founded; `FoldOver`, `Recursion` and the lemmas named `...Steps` rest on them and
turn the community modules' folds into recursions that can be reasoned about.

### Only model-checked

Liveness: `DueCaseRetired`, `UndisturbedMigrates`, `RoundEnds`.  The prover has no
rule for `ENABLED`, and so none for fairness.

No module here uses a recursive operator.

## 5. Not modelled

- **Music**: pausing, volume, moving to another channel and the listings, which
  do not decide what becomes of a track; reconnects the library does by itself.
- **Text**: parsing and printing of durations, the file of default words and the
  splitting of what `/words add` is given, embeds, transcripts' contents.  They
  hold no state, and unit tests reach them.
- **Event log, documentation, user information**: they format and send.
- **Purge**: it deletes messages, and keeps nothing.
- **Discord** is a service that does what it is asked, refuses, or changes by
  itself (a human deletes a channel or lifts a ban, a member leaves and returns).
- The length of a timeout, roles and permissions beyond "may be moderated" and
  the overwrites of `ChannelAccess`.
- Settings that change while a tracker holds events (`Protection`), except the
  raid threshold, which may differ at each join.

## 6. Plan

Done: the modules of section 2.  Next, in this order:

1. `Sanctions` over the `CaseLedger`: its writes as steps of the ledger, to tie
   the two modules formally; timeouts with their end.
2. That a teardown of `MusicPlayer` ends, under the fairness of the loop.

To check one run: `tlc -config TempbansSafety.cfg MCTempbans.tla`; one module's
proofs: `tlapm TicketsProofs.tla`.
