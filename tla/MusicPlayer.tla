---------------------------- MODULE MusicPlayer ----------------------------
(***************************************************************************)
(* Music in one guild (src/cogs/music/): /play split at its awaits, the    *)
(* task that drains a player's queue, the callback of the audio thread,    *)
(* and teardown by /stop, by an empty channel, by the bot's own leaving    *)
(* and by the player's end.  They meet in three places that are read and   *)
(* written without a lock: the registered player, its queue, and the       *)
(* guild's voice client, which belongs to the library.                     *)
(*                                                                         *)
(* A track stands for the /play that asks for it; a player bears the name  *)
(* of the track it was created for.                                        *)
(***************************************************************************)
EXTENDS Naturals, Sequences

CONSTANTS
  Tracks,      (* bound: the tracks asked for, each by one /play *)
  Stoppers,    (* coroutines running teardown *)
  MaxQueue,    (* MAX_QUEUE_SIZE *)
  None

ASSUME NoneAssumption  == None \notin Tracks
ASSUME QueueAssumption == MaxQueue \in Nat \ {0}

VARIABLES
  request,     (* per track: where its /play is, and what became of it *)
  registered,  (* Music.players.get(guild.id) *)
  task, track, (* per player: where its task is, the track it has taken *)
  cancelled,   (* players whose task was cancelled *)
  queue,       (* per player: TrackQueue._items *)
  advance,     (* players whose event _advance is set *)
  stale,       (* players loading for a voice client that is gone *)
  voice,       (* the guild's voice client *)
  audio,       (* the player whose source the voice client plays *)
  callbacks,   (* players whose _after_play is on its way to the loop *)
  left,        (* Discord's word that the bot left is on its way *)
  stopper, victim,  (* per teardown: where it is, the player it awaits *)
  excused      (* history: tracks overtaken by an end of the session *)

playerVars  == <<task, track, queue, advance, stale>>
voiceVars   == <<voice, audio, callbacks, left>>
stopperVars == <<stopper, victim, cancelled>>
beyondTask  == <<registered, track, queue, advance, stale, voiceVars, stopperVars>>
musicVars == <<request, registered, playerVars, voiceVars, stopperVars, excused>>

MusicInit ==
  /\ request    = [t \in Tracks |-> "new"]
  /\ registered = None
  /\ task       = [p \in Tracks |-> "none"]
  /\ track      = [p \in Tracks |-> None]
  /\ cancelled  = {}
  /\ queue      = [p \in Tracks |-> <<>>]
  /\ advance    = {}
  /\ stale      = {}
  /\ voice      = "none"
  /\ audio      = None
  /\ callbacks  = {}
  /\ left       = FALSE
  /\ stopper    = [s \in Stoppers |-> "idle"]
  /\ victim     = [s \in Stoppers |-> None]
  /\ excused    = {}

Underway == {t \in Tracks : request[t] \in {"connecting", "resolving"}}
Unplayed == Underway \cup {t \in Tracks : request[t] = "queued"}
Excuse(S) == excused' = excused \cup S

Becomes(p, state) == task' = [task EXCEPT ![p] = state]

(* A cancelled task takes no step of its own but the one that unwinds it. *)
At(p, state) == task[p] = state /\ p \notin cancelled

-----------------------------------------------------------------------------
(* The voice client.                                                       *)

(* The source is exhausted or stopped: its thread calls _after_play. *)
AudioStops ==
  /\ callbacks' = callbacks \cup ({audio} \ {None})
  /\ audio' = None

(* voice.disconnect(force=False): the audio stops at once, and Discord will *)
(* report the leaving.  A client that is still connecting goes on, or the   *)
(* library forgets it, and its /play goes on without a client.              *)
Disconnect(event) ==
  \/ /\ voice \in {"connected", "closing"}
     /\ voice' = "closing"
     /\ left' = (event \/ voice = "connected")
     /\ AudioStops
     /\ UNCHANGED request
  \/ /\ voice \in {"none", "connecting"}
     /\ left' = event
     /\ UNCHANGED <<voice, audio, callbacks, request>>
  \/ /\ voice = "connecting"
     /\ voice' = "none"
     /\ left' = event
     /\ request' = [t \in Tracks |-> IF request[t] = "connecting"
                                     THEN "resolving" ELSE request[t]]
     /\ UNCHANGED <<audio, callbacks>>

TakesLeave == voice \in {"connected", "closing"}

(* The client is gone; whoever awaited its disconnect goes on. *)
HungUp ==
  /\ voice = "closing"
  /\ voice' = "none"
  /\ AudioStops
  /\ stale' = stale \cup {p \in Tracks : task[p] = "loading"}
  /\ task' = [p \in Tracks |-> IF task[p] = "hanging" THEN "done" ELSE task[p]]
  /\ stopper' = [s \in Stoppers |-> IF stopper[s] = "leaving"
                                    THEN "idle" ELSE stopper[s]]
  /\ UNCHANGED <<request, registered, track, queue, advance, left, victim,
                 cancelled, excused>>

(* Somebody disconnects the bot, or the network does. *)
Kicked ==
  /\ voice = "connected"
  /\ voice' = "closing"
  /\ left' = TRUE
  /\ AudioStops
  /\ Excuse(Unplayed)
  /\ UNCHANGED <<request, registered, playerVars, stopperVars>>

(* The track ends, or /skip stops it. *)
TrackEnds ==
  /\ audio # None
  /\ AudioStops
  /\ UNCHANGED <<request, registered, playerVars, voice, left, stopperVars,
                 excused>>

(* call_soon_threadsafe(self._advance.set), run by the loop. *)
AfterPlay(p) ==
  /\ p \in callbacks
  /\ callbacks' = callbacks \ {p}
  /\ advance' = advance \cup {p}
  /\ UNCHANGED <<request, registered, task, track, queue, stale, voice, audio,
                 left, stopperVars, excused>>

-----------------------------------------------------------------------------
(* /play: join the channel, look the track up, hand it to the player.      *)

(* A /play that begins while somebody is making the bot leave. *)
Unsettled == voice = "closing" \/ \E s \in Stoppers : stopper[s] = "stopping"

Play(t) ==
  /\ request[t] = "new"
  /\ \/ /\ voice \in {"connected", "closing"}
        /\ request' = [request EXCEPT ![t] = "resolving"]
        /\ UNCHANGED voice
     \/ /\ voice = "none"
        /\ request' = [request EXCEPT ![t] = "connecting"]
        /\ voice' = "connecting"
     \/ /\ voice \in {"connecting", "closing"}
        /\ request' = [request EXCEPT ![t] = "refused"]
        /\ UNCHANGED voice
  /\ Excuse(IF Unsettled THEN {t} ELSE {})
  /\ UNCHANGED <<registered, playerVars, audio, callbacks, left, stopperVars>>

Connect(t) ==
  /\ request[t] = "connecting"
  /\ \/ /\ request' = [request EXCEPT ![t] = "resolving"]
        /\ voice' = "connected"
     \/ /\ request' = [request EXCEPT ![t] = "refused"]
        /\ voice' = "none"
  /\ UNCHANGED <<registered, playerVars, audio, callbacks, left, stopperVars,
                 excused>>

Full(p) == Len(queue[p]) >= MaxQueue

(* Fault: a track that comes late is put before those that wait. *)
EnqueueFirst(t) ==
  /\ request' = [request EXCEPT ![t] = "queued"]
  /\ \/ /\ registered = None
        /\ registered' = t
        /\ Becomes(t, "starting")
        /\ queue' = [queue EXCEPT ![t] = <<t>>]
     \/ /\ registered # None
        /\ ~Full(registered)
        /\ queue' = [queue EXCEPT ![registered] = <<t>> \o @]
        /\ UNCHANGED <<registered, task>>
  /\ UNCHANGED excused

(* _player_for and enqueue: a new player, whose task has yet to start, or   *)
(* the registered one, if its queue has room.                               *)
Enqueue(t) ==
  \/ /\ registered = None
     /\ registered' = t
     /\ Becomes(t, "starting")
     /\ queue' = [queue EXCEPT ![t] = <<t>>]
     /\ request' = [request EXCEPT ![t] = "queued"]
     /\ UNCHANGED excused
  \/ /\ registered # None
     /\ ~Full(registered)
     /\ queue' = [queue EXCEPT ![registered] = Append(@, t)]
     /\ request' = [request EXCEPT ![t] = "queued"]
     /\ Excuse(IF task[registered] = "timedout" THEN {t} ELSE {})
     /\ UNCHANGED <<registered, task>>
  \/ /\ registered # None
     /\ Full(registered)
     /\ request' = [request EXCEPT ![t] = "refused"]
     /\ UNCHANGED <<registered, task, queue, excused>>

Resolve(t) ==
  /\ request[t] = "resolving"
  /\ Enqueue(t)
  /\ UNCHANGED <<track, advance, stale, voiceVars, stopperVars>>

(* TrackResolveError: nothing found, or the source cannot be read. *)
ResolveFails(t) ==
  /\ request[t] = "resolving"
  /\ request' = [request EXCEPT ![t] = "refused"]
  /\ UNCHANGED <<registered, playerVars, voiceVars, stopperVars, excused>>

-----------------------------------------------------------------------------
(* The player's task.                                                      *)

(* Fault: the player takes itself out, and leaves the bot in its channel. *)
FinishedStays(p) ==
  /\ registered' = None
  /\ Becomes(p, "done")
  /\ UNCHANGED <<voiceVars, request>>

(* The loop is over: _on_player_finished drops whatever player the guild    *)
(* has, so that teardown finds none to stop, and makes the bot leave.       *)
Finished(p) ==
  /\ registered' = None
  /\ Becomes(p, IF TakesLeave THEN "hanging" ELSE "done")
  /\ Disconnect(left)

(* A track off the queue, and the voice client it is to be played on. *)
Take(p) ==
  /\ queue' = [queue EXCEPT ![p] = Tail(@)]
  /\ \/ /\ voice \in {"connected", "closing"}
        /\ Becomes(p, "loading")
        /\ track' = [track EXCEPT ![p] = Head(queue[p])]
        /\ stale' = stale \ {p}
        /\ UNCHANGED <<registered, voiceVars, request, excused>>
     \/ /\ voice # "connected"
        /\ Finished(p)
        /\ Excuse(Underway)
        /\ track' = [track EXCEPT ![p] = None]
        /\ UNCHANGED stale

(* The head of _play_next: get waits only if the queue is empty. *)
PlayNext(p) ==
  /\ advance' = advance \ {p}
  /\ \/ queue[p] # <<>> /\ Take(p)
     \/ /\ queue[p] = <<>>
        /\ Becomes(p, "getting")
        /\ track' = [track EXCEPT ![p] = None]
        /\ UNCHANGED <<queue, stale, registered, voiceVars, request, excused>>

Run(p) ==
  /\ At(p, "starting") \/ At(p, "clearing") \/ At(p, "noticing")
  /\ PlayNext(p)
  /\ UNCHANGED stopperVars

(* put has set the event that get waits for. *)
Get(p) ==
  /\ At(p, "getting")
  /\ queue[p] # <<>>
  /\ Take(p)
  /\ UNCHANGED <<advance, stopperVars>>

(* IDLE_TIMEOUT: the timer cancels the wait, a moment before the task runs  *)
(* again; a track that comes in that moment is lost.                        *)
IdleTimer(p) ==
  /\ At(p, "getting")
  /\ Becomes(p, "timedout")
  /\ Excuse({queue[p][i] : i \in DOMAIN queue[p]})
  /\ UNCHANGED <<beyondTask, request>>

TimedOut(p) ==
  /\ At(p, "timedout")
  /\ Finished(p)
  /\ Excuse(Underway)
  /\ UNCHANGED <<track, queue, advance, stale, stopperVars>>

(* create_audio_source, then voice.play.  ClientException if the client is *)
(* not connected any more, or plays something: the track is dropped.       *)
Load(p) ==
  /\ At(p, "loading")
  /\ \/ /\ voice \in {"connected", "closing"}
        /\ p \notin stale
        /\ audio = None
        /\ audio' = p
        /\ request' = [request EXCEPT ![track[p]] = "played"]
        /\ Becomes(p, "announcing")
        /\ UNCHANGED <<registered, track, queue, advance, stale, voice,
                       callbacks, left, excused>>
     \/ /\ voice # "connected" \/ p \in stale \/ audio # None
        /\ PlayNext(p)
  /\ UNCHANGED stopperVars

(* Fault: a track that cannot be read is the end of the player. *)
LoadFailsForGood(p) ==
  /\ At(p, "loading")
  /\ request' = [request EXCEPT ![track[p]] = "failed"]
  /\ registered' = None
  /\ Becomes(p, "done")
  /\ UNCHANGED <<track, queue, advance, stale, voiceVars, stopperVars, excused>>

(* MusicError: a notice, and on to the next track. *)
LoadFails(p) ==
  /\ At(p, "loading")
  /\ request' = [request EXCEPT ![track[p]] = "failed"]
  /\ Becomes(p, "noticing")
  /\ UNCHANGED <<beyondTask, excused>>

(* Any other exception ends the loop (no FFmpeg, no network for a message). *)
Crash(p) ==
  /\ At(p, "loading") \/ At(p, "announcing")
  /\ Finished(p)
  /\ Excuse(Unplayed)
  /\ UNCHANGED <<track, queue, advance, stale, stopperVars>>

(* Fault: the event is cleared when the announcement is out. *)
AnnounceClears(p) ==
  /\ At(p, "announcing")
  /\ Becomes(p, "waiting")
  /\ advance' = advance \ {p}
  /\ UNCHANGED <<request, registered, track, queue, stale, voiceVars,
                 stopperVars, excused>>

Announce(p) ==
  /\ At(p, "announcing")
  /\ Becomes(p, "waiting")
  /\ UNCHANGED <<beyondTask, request, excused>>

(* _advance.wait() returns; the message "now playing" is deleted. *)
Advance(p) ==
  /\ At(p, "waiting")
  /\ p \in advance
  /\ Becomes(p, "clearing")
  /\ UNCHANGED <<beyondTask, request, excused>>

(* CancelledError wherever the task was waiting. *)
Unwind(p) ==
  /\ p \in cancelled
  /\ task[p] # "done"
  /\ Becomes(p, "done")
  /\ UNCHANGED <<beyondTask, request, excused>>

-----------------------------------------------------------------------------
(* teardown.                                                               *)

Leave(s, event) ==
  /\ Disconnect(event)
  /\ stopper' = [stopper EXCEPT ![s] = IF TakesLeave THEN "leaving" ELSE "idle"]
  /\ victim'  = [victim EXCEPT ![s] = None]

(* Up to the first await: the player is taken out, emptied and cancelled. *)
StopPlayer(s, event) ==
  /\ stopper[s] = "idle"
  /\ Excuse(Unplayed)
  /\ \/ /\ registered # None
        /\ registered' = None
        /\ queue'     = [queue EXCEPT ![registered] = <<>>]
        /\ cancelled' = cancelled \cup {registered}
        /\ stopper'   = [stopper EXCEPT ![s] = "stopping"]
        /\ victim'    = [victim EXCEPT ![s] = registered]
        /\ left'      = event
        /\ UNCHANGED <<voice, audio, callbacks, request>>
     \/ /\ registered = None
        /\ Leave(s, event)
        /\ UNCHANGED <<registered, queue, cancelled>>
  /\ UNCHANGED <<task, track, advance, stale>>

(* /stop, if there is something to stop; cog_unload. *)
Stop(s) ==
  /\ voice \in {"connected", "closing"} \/ registered # None
  /\ StopPlayer(s, left)

(* The last listener has left the channel. *)
ChannelEmpties(s) ==
  /\ voice # "none"
  /\ StopPlayer(s, left)

(* The bot's own leaving is reported: of its present client, or an old one. *)
BotLeft(s) ==
  /\ left
  /\ \/ voice # "none" /\ StopPlayer(s, FALSE)
     \/ /\ voice = "none"
        /\ left' = FALSE
        /\ UNCHANGED <<request, registered, playerVars, voice, audio,
                       callbacks, stopperVars, excused>>

(* player.stop() returns: its task has ended, its message is deleted. *)
Stopped(s) ==
  /\ stopper[s] = "stopping"
  /\ task[victim[s]] = "done"
  /\ Leave(s, left)
  /\ UNCHANGED <<registered, playerVars, cancelled, excused>>

-----------------------------------------------------------------------------
PlayerStep(p) ==
  \/ Run(p) \/ Get(p) \/ IdleTimer(p) \/ TimedOut(p) \/ Load(p) \/ LoadFails(p)
  \/ Crash(p) \/ Announce(p) \/ Advance(p) \/ Unwind(p) \/ AfterPlay(p)

MusicNext ==
  \/ \E t \in Tracks : Play(t) \/ Connect(t) \/ Resolve(t) \/ ResolveFails(t)
  \/ \E p \in Tracks : PlayerStep(p)
  \/ \E s \in Stoppers : Stop(s) \/ ChannelEmpties(s) \/ BotLeft(s) \/ Stopped(s)
  \/ HungUp \/ Kicked \/ TrackEnds

MusicSpec == MusicInit /\ [][MusicNext]_musicVars

-----------------------------------------------------------------------------
(* Every variable has its type. *)
TypeOK ==
  /\ request \in [Tracks -> {"new", "connecting", "resolving", "refused",
                             "queued", "played", "failed"}]
  /\ registered \in Tracks \cup {None}
  /\ task \in [Tracks -> {"none", "starting", "getting", "timedout", "loading",
                          "noticing", "announcing", "waiting", "clearing",
                          "hanging", "done"}]
  /\ track \in [Tracks -> Tracks \cup {None}]
  /\ queue \in [Tracks -> Seq(Tracks)]
  /\ \A p \in Tracks : Len(queue[p]) <= MaxQueue
  /\ {cancelled, advance, stale, callbacks, excused} \subseteq SUBSET Tracks
  /\ voice \in {"none", "connecting", "connected", "closing"}
  /\ audio \in Tracks \cup {None}
  /\ left \in BOOLEAN
  /\ stopper \in [Stoppers -> {"idle", "stopping", "leaving"}]
  /\ victim \in [Stoppers -> Tracks \cup {None}]

(* "Added to the queue": an accepted track waits for a registered player   *)
(* that will take it, or is being loaded by it, until it is played or its  *)
(* failure is announced, unless the session ended meanwhile or was ending. *)
Waits(t, p) ==
  \/ \E i \in DOMAIN queue[p] : queue[p][i] = t
  \/ task[p] = "loading" /\ track[p] = t

AcceptedIsKept ==
  \A t \in Tracks \ excused :
    request[t] = "queued" =>
      /\ registered # None
      /\ registered \notin cancelled
      /\ task[registered] \notin {"none", "timedout", "hanging", "done"}
      /\ Waits(t, registered)

(* A player that waits for its track to end will hear of it: the track is  *)
(* playing, or its callback is under way, or the event is set, however the *)
(* announcement, /skip, a kick and the audio thread fall together.         *)
AdvanceComes ==
  \A p \in Tracks :
    At(p, "announcing") \/ At(p, "waiting")
      => audio = p \/ p \in callbacks \cup advance

(* Whatever plays can be stopped: its player is the registered one, or a   *)
(* teardown is about to make the bot leave.  No track plays on for a guild *)
(* whose /queue and /stop know nothing of it.                              *)
NoOrphanAudio ==
  audio # None =>
    \/ audio = registered
    \/ voice = "closing"
    \/ \E s \in Stoppers : stopper[s] = "stopping" /\ victim[s] = audio

(* Tracks are played in the order they were accepted, each at most once,   *)
(* and none is passed over: the players the guild has had, one after the   *)
(* other, serve one line (PlayQueue), of which they lose a track only to   *)
(* an end of the session.                                                  *)
Line == IF registered = None THEN <<>>
        ELSE (IF task[registered] = "loading" THEN <<track[registered]>> ELSE <<>>)
               \o queue[registered]

Fate == [t \in Tracks |-> CASE request[t] \in {"new", "connecting", "resolving"} -> "asked"
                            [] request[t] = "queued" -> "accepted"
                            [] OTHER -> request[t]]

Promise == INSTANCE PlayQueue WITH fate <- Fate, line <- Line, over <- excused
KeepsOrder == Promise!QueueSpec

(* "Auto-disconnects after 5 min idle": so it does while it has a player.  *)
(* Broken by the code when there is none: after /join, or a /play that     *)
(* found no track, nothing makes the bot leave but an empty channel.       *)
IdlesWithPlayer == voice = "connected" => registered # None \/ Underway # {}
=============================================================================
