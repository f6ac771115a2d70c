------------------------------- MODULE Replay -------------------------------
(***************************************************************************)
(* Instant replay (server/replay): the manager that starts, pauses and     *)
(* stops the one player (manager.go) and the player's goroutine            *)
(* (player.go), with the callbacks that put the replay source on and off   *)
(* the switcher (cmd/switchframe/app.go).                                  *)
(*                                                                         *)
(* Threads: Clients (API requests) and a goroutine per player.  m.mu is    *)
(* held for single sections only: a request reads the player and its       *)
(* state, unlocks, acts on the player and locks again to write the state;  *)
(* the player's callbacks come in between.  The capture buffers a clip is   *)
(* cut from, speed, seek and the pictures are left out.                    *)
(***************************************************************************)
EXTENDS Integers, FiniteSets

CONSTANTS
  Clients,   \* goroutines serving requests
  Players,   \* replayPlayer objects, one per Play
  NoPlayer   \* the nil pointer

ASSUME NoPlayerAssumption == NoPlayer \notin Players

VARIABLES
  prompt,  \* never changes; TRUE: a handler that has begun ends before the next begins
  player,  \* m.player
  shown,   \* m.playerState
  onair,   \* the source "replay" is registered and has its mixer channel
  plr,     \* per player object: its goroutine, p.state, p.pauseCh and its context
  ctl,     \* per client: the request under way
  closed   \* the HTTP server is down, Manager.Close called

vars == <<prompt, player, shown, onair, plr, ctl, closed>>

\* run is at: decoding; OnReady past its lock; past OnReady; outputting; blocked on a pause
\* channel; OnDone before its lock; OnDone past it; finished or
\* unused.  paused is p.state, shut an unclosed p.pauseCh, lost that the goroutine waits on a
\* channel that was replaced.
NewPlayer == [st |-> "loading", paused |-> FALSE, shut |-> FALSE, lost |-> FALSE, cancelled |-> FALSE]
NoRun == [NewPlayer EXCEPT !.st = "done"]
Idle == [pc |-> "idle", player |-> NoPlayer]

TypeOK ==
  /\ prompt \in BOOLEAN /\ onair \in BOOLEAN /\ closed \in BOOLEAN
  /\ player \in Players \cup {NoPlayer}
  /\ shown \in {"idle", "loading", "playing", "paused"}
  /\ plr \in [Players -> [st : {"loading", "ready", "live", "running", "held", "ending",
                                "ended", "done"},
                          paused : BOOLEAN, shut : BOOLEAN, lost : BOOLEAN, cancelled : BOOLEAN]]
  /\ ctl \in [Clients -> [pc : {"idle", "pause", "paused", "resume", "resumed", "stop", "quick", "play"},
                          player : Players \cup {NoPlayer}]]
  /\ \A c \in Clients : ctl[c].player = NoPlayer <=> ctl[c].pc \in {"idle", "play"}

Init ==
  /\ prompt \in BOOLEAN
  /\ player = NoPlayer /\ shown = "idle" /\ onair = FALSE /\ closed = FALSE
  /\ plr = [p \in Players |-> NoRun]
  /\ ctl = [c \in Clients |-> Idle]

\* Somebody is between two sections that belong together.
Busy ==
  \/ \E c \in Clients : ctl[c].pc \in {"pause", "paused", "resume", "resumed"}
  \/ \E p \in Players : plr[p].st \in {"ready", "live", "ended"}

MayBegin == prompt => ~ Busy
Begins(c) == ctl[c].pc = "idle" /\ MayBegin /\ ~ closed

Fresh == {p \in Players : plr[p].st = "done" /\ \A c \in Clients : ctl[c].player # p}
-----------------------------------------------------------------------------
(* Play, Stop, QuickReplay, Close                                          *)

\* Mutant: an active player is no reason to refuse.
Launch_Always(p) ==
  /\ player' = p /\ shown' = "loading"
  /\ plr' = [plr EXCEPT ![p] = NewPlayer]

\* The locked part of Play, a clip having been extracted.
Launch(p) ==
  /\ player = NoPlayer
  /\ player' = p /\ shown' = "loading"
  /\ plr' = [plr EXCEPT ![p] = NewPlayer]

Play(c) ==
  /\ Begins(c) /\ Fresh # {}
  /\ Launch(CHOOSE p \in Fresh : TRUE)
  /\ UNCHANGED <<prompt, onair, ctl, closed>>

\* Cancel the player's context; then wait for its goroutine.
Cancel(c, pc) ==
  /\ plr' = [plr EXCEPT ![player].cancelled = TRUE]
  /\ ctl' = [ctl EXCEPT ![c] = [pc |-> pc, player |-> player]]

Stop(c) ==
  /\ Begins(c) /\ player # NoPlayer
  /\ Cancel(c, "stop")
  /\ UNCHANGED <<prompt, player, shown, onair, closed>>

\* Close, with the last requests still under way, and nothing after it.
Close(c) ==
  /\ Begins(c)
  /\ closed' = TRUE
  /\ IF player # NoPlayer THEN Cancel(c, "stop") ELSE UNCHANGED <<plr, ctl>>
  /\ UNCHANGED <<prompt, player, shown, onair>>

\* <-p.done
Stopped(c) ==
  /\ ctl[c].pc \in {"stop", "quick"} /\ plr[ctl[c].player].st = "done"
  /\ ctl' = [ctl EXCEPT ![c] = [Idle EXCEPT !.pc = IF ctl[c].pc = "quick" THEN "play" ELSE "idle"]]
  /\ UNCHANGED <<prompt, player, shown, onair, plr, closed>>

\* An active player is stopped first ...
QuickReplay(c) ==
  /\ Begins(c)
  /\ IF player # NoPlayer
       THEN Cancel(c, "quick")
       ELSE ctl' = [ctl EXCEPT ![c].pc = "play"] /\ UNCHANGED plr
  /\ UNCHANGED <<prompt, player, shown, onair, closed>>

\* ... and a new one started, unless another request was quicker or the clip is empty.
QuickPlay(c) ==
  /\ ctl[c].pc = "play" /\ MayBegin
  /\ ctl' = [ctl EXCEPT ![c] = Idle]
  /\ \/ Fresh # {} /\ Launch(CHOOSE p \in Fresh : TRUE)
     \/ UNCHANGED <<player, shown, plr>>
  /\ UNCHANGED <<prompt, onair, closed>>
-----------------------------------------------------------------------------
(* Pause and Resume, each in three sections                                *)

\* A player whose state allows it is taken in hand.
Take(c, state, pc) ==
  /\ Begins(c)
  /\ player # NoPlayer /\ shown = state
  /\ ctl' = [ctl EXCEPT ![c] = [pc |-> pc, player |-> player]]
  /\ UNCHANGED <<prompt, player, shown, onair, plr, closed>>

Pause(c) == Take(c, "playing", "pause")
Resume(c) == Take(c, "paused", "resume")

\* replayPlayer.Pause: a new channel, and the state.
PausePlayer(c) ==
  /\ ctl[c].pc = "pause"
  /\ LET p == ctl[c].player IN
       plr' = IF plr[p].paused \/ plr[p].st = "done" THEN plr
              ELSE [plr EXCEPT ![p] = [@ EXCEPT !.paused = TRUE, !.shut = TRUE,
                                                !.lost = plr[p].shut /\ plr[p].st = "held"]]
  /\ ctl' = [ctl EXCEPT ![c].pc = "paused"]
  /\ UNCHANGED <<prompt, player, shown, onair, closed>>

\* Mutant: the channel stays open, the goroutine blocked.
ResumePlayer_KeepsChannel(c) ==
  /\ ctl[c].pc = "resume"
  /\ plr' = [plr EXCEPT ![ctl[c].player].paused = FALSE]
  /\ ctl' = [ctl EXCEPT ![c].pc = "resumed"]
  /\ UNCHANGED <<prompt, player, shown, onair, closed>>

\* replayPlayer.Resume: only a paused player's channel is closed, and a goroutine that waits
\* on it goes on.
ResumePlayer(c) ==
  /\ ctl[c].pc = "resume"
  /\ LET p == ctl[c].player IN
       plr' = IF ~ plr[p].paused THEN plr
              ELSE [plr EXCEPT ![p] = [@ EXCEPT !.paused = FALSE, !.shut = FALSE,
                                                !.st = IF plr[p].st = "held" /\ ~ plr[p].lost THEN "running"
                                                        ELSE plr[p].st]]
  /\ ctl' = [ctl EXCEPT ![c].pc = "resumed"]
  /\ UNCHANGED <<prompt, player, shown, onair, closed>>

\* The state is written under m.mu, whoever the player is by now.
Tell(c) ==
  /\ ctl[c].pc \in {"paused", "resumed"}
  /\ shown' = IF ctl[c].pc = "paused" THEN "paused" ELSE "playing"
  /\ ctl' = [ctl EXCEPT ![c] = Idle]
  /\ UNCHANGED <<prompt, player, onair, plr, closed>>
-----------------------------------------------------------------------------
(* replayPlayer.run, OnReady and OnDone                                    *)

Goto(p, st) == plr' = [plr EXCEPT ![p].st = st]

\* The first pictures are decoded: OnReady's locked section ...
Ready(p) ==
  /\ plr[p].st = "loading" /\ MayBegin
  /\ shown' = "playing"
  /\ Goto(p, "ready")
  /\ UNCHANGED <<prompt, player, onair, ctl, closed>>

\* ... or nothing to play, and run returns.
DecodeFailed(p) ==
  /\ plr[p].st = "loading"
  /\ Goto(p, "ending")
  /\ UNCHANGED <<prompt, player, shown, onair, ctl, closed>>

\* onPlaybackStart: the source and its channel are registered.
GoLive(p) ==
  /\ plr[p].st = "ready"
  /\ onair' = TRUE
  /\ Goto(p, "live")
  /\ UNCHANGED <<prompt, player, shown, ctl, closed>>

\* After OnReady: p.state.Store(PlayerPlaying), whatever it was, and no pauseMu.
Begin(p) ==
  /\ plr[p].st = "live"
  /\ plr' = [plr EXCEPT ![p].st = "running", ![p].paused = FALSE]
  /\ UNCHANGED <<prompt, player, shown, onair, ctl, closed>>

\* outputGOP blocks on the channel it finds.
Hold(p) ==
  /\ plr[p].st = "running" /\ plr[p].shut
  /\ Goto(p, "held")
  /\ UNCHANGED <<prompt, player, shown, onair, ctl, closed>>

\* Mutant: a blocked player does not look at its context.
End_Deaf(p) ==
  /\ plr[p].st = "running"
  /\ Goto(p, "ending")
  /\ UNCHANGED <<prompt, player, shown, onair, ctl, closed>>

\* The clip is over, or the context cancelled: run returns.
End(p) ==
  /\ plr[p].st = "running" \/ (plr[p].st = "held" /\ plr[p].cancelled)
  /\ Goto(p, "ending")
  /\ UNCHANGED <<prompt, player, shown, onair, ctl, closed>>

\* OnDone's locked section ...
Done(p) ==
  /\ plr[p].st = "ending" /\ MayBegin
  /\ player' = NoPlayer /\ shown' = "idle"
  /\ Goto(p, "ended")
  /\ UNCHANGED <<prompt, onair, ctl, closed>>

\* ... onPlaybackStop, and close(p.done).
GoOff(p) ==
  /\ plr[p].st = "ended"
  /\ onair' = FALSE
  /\ plr' = [plr EXCEPT ![p] = NoRun]
  /\ UNCHANGED <<prompt, player, shown, ctl, closed>>

Continue(c) == Stopped(c) \/ QuickPlay(c) \/ PausePlayer(c) \/ ResumePlayer(c) \/ Tell(c)
Request(c) == Play(c) \/ Stop(c) \/ Close(c) \/ QuickReplay(c) \/ Pause(c) \/ Resume(c)
Run(p) ==
  \/ Ready(p) \/ DecodeFailed(p) \/ GoLive(p) \/ Begin(p)
  \/ Hold(p) \/ Done(p) \/ GoOff(p)

Next == (\E c \in Clients : Request(c) \/ Continue(c)) \/ (\E p \in Players : Run(p) \/ End(p))

Spec == Init /\ [][Next]_vars

\* Goroutines run; a clip that loops ends only when it is stopped.
FairSpec ==
  /\ Spec
  /\ \A c \in Clients : WF_vars(Continue(c))
  /\ \A p \in Players : WF_vars(Run(p)) /\ WF_vars(End(p) /\ plr[p].cancelled)
-----------------------------------------------------------------------------
\* A goroutine plays as long as it is the manager's player: no player is forgotten while it
\* still outputs, and none is remembered that is gone.
OnePlayer ==
  \A p \in Players :
    plr[p].st \in {"loading", "ready", "live", "running", "held", "ending"} <=> player = p

\* Between handlers that do not disturb each other, Status and the switcher agree with the
\* player: the replay source exists while the state says playing or paused, a paused player
\* is blocked and a playing one is not.
StatusTrue ==
  prompt /\ ~ Busy =>
    /\ shown = "idle" <=> player = NoPlayer
    /\ onair <=> shown \in {"playing", "paused"}
    /\ player # NoPlayer => (plr[player].shut <=> shown = "paused") /\ ~ plr[player].lost

\* A stop or quick replay comes back from its wait, also when the player is paused, still
\* decoding, or just ending by itself.
StopReturns ==
  \A c \in Clients : (~ prompt /\ ctl[c].pc \in {"stop", "quick"}) ~> ctl[c].pc \notin {"stop", "quick"}

\* player.go: "Resume resumes playback from a paused state": with one request at a time a
\* Resume that has returned leaves no player blocked.
ResumeResumes ==
  \A c \in Clients : ctl[c].pc = "resumed" => ~ plr[ctl[c].player].shut /\ ~ plr[ctl[c].player].lost
=============================================================================
