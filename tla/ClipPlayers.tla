---------------------------- MODULE ClipPlayers ----------------------------
(***************************************************************************)
(* A clip player slot (server/clip): the manager that loads, plays, pauses *)
(* and ejects (manager.go), the players' goroutines (player.go), and the   *)
(* callbacks that put the slot's source on and off the switcher            *)
(* (cmd/switchframe/app_clips.go).  The four slots share nothing that is   *)
(* modelled here; one stands for all.                                      *)
(*                                                                         *)
(* Threads: Clients (API requests) and a goroutine per player.  m.mu is    *)
(* never held over a wait: a request that stops a player takes it out of   *)
(* the slot, unlocks, waits for its goroutine, closes its decoder and      *)
(* calls onPlayerStop.  Speed, seek and the pictures are left out.         *)
(***************************************************************************)
EXTENDS Integers, FiniteSets

CONSTANTS
  Clients,   \* goroutines serving requests
  Players,   \* Player objects, one per start, each with the decoder made for it
  NoPlayer   \* the nil pointer

ASSUME NoPlayerAssumption == NoPlayer \notin Players

VARIABLES
  patient,     \* never changes; TRUE: a request begins only when none is under way
  slot,        \* m.players[idx]
  plr,         \* per player: its goroutine, state, pause channel and context
  decoder,     \* per player: its decoder
  registered,  \* the source "clip:N" is registered and has its mixer channel
  ctl,         \* per client: the request under way
  closed       \* the HTTP server is down, Manager.Close called

vars == <<patient, slot, plr, decoder, registered, ctl, closed>>

\* loaded: the slot is not nil; closer: the player whose decoder slot.decoderCloser closes.
Empty == [loaded |-> FALSE, player |-> NoPlayer, closer |-> NoPlayer]
Loaded == [Empty EXCEPT !.loaded = TRUE]

\* run is not started; outputting; blocked on its pause channel; past the end of the clip,
\* before OnDone; in holdLoop; finished or unused.
NewPlayer == [st |-> "new", paused |-> FALSE, cancelled |-> FALSE]
NoRun == [NewPlayer EXCEPT !.st = "done"]
Idle == [pc |-> "idle", player |-> NoPlayer, closer |-> NoPlayer, then |-> "idle"]

Optional == Players \cup {NoPlayer}

TypeOK ==
  /\ patient \in BOOLEAN /\ registered \in BOOLEAN /\ closed \in BOOLEAN
  /\ slot \in [loaded : BOOLEAN, player : Optional, closer : Optional]
  /\ ~ slot.loaded => slot = Empty
  /\ slot.closer \in {NoPlayer, slot.player}
  /\ plr \in [Players -> [st : {"new", "running", "held", "over", "holding", "done"},
                          paused : BOOLEAN, cancelled : BOOLEAN]]
  /\ decoder \in [Players -> {"none", "open", "closed", "broken"}]
  /\ ctl \in [Clients -> [pc : {"idle", "start", "launch", "wait", "off", "put"},
                          player : Optional, closer : Optional, then : {"idle", "off", "put"}]]

Init ==
  /\ patient \in BOOLEAN
  /\ slot = Empty /\ registered = FALSE /\ closed = FALSE
  /\ plr = [p \in Players |-> NoRun]
  /\ decoder = [p \in Players |-> "none"]
  /\ ctl = [c \in Clients |-> Idle]

Begins(c) ==
  /\ ctl[c].pc = "idle" /\ ~ closed
  /\ patient => \A d \in Clients : ctl[d].pc = "idle"

Fresh == {p \in Players : /\ plr[p].st = "done" /\ slot.player # p
                          /\ \A c \in Clients : p \notin {ctl[c].player, ctl[c].closer}}

\* A closer is called: once is right.
CloseDecoder(p) ==
  decoder' = IF p = NoPlayer THEN decoder
             ELSE [decoder EXCEPT ![p] = IF @ = "open" THEN "closed" ELSE "broken"]
-----------------------------------------------------------------------------
(* Stop, Eject, Load, Close: a player is taken out of the slot             *)

\* The slot becomes rest, the player is cancelled and waited for.
TakeOut(c, rest, then) ==
  /\ slot' = rest
  /\ plr' = [plr EXCEPT ![slot.player] = [@ EXCEPT !.cancelled = TRUE]]
  /\ ctl' = [ctl EXCEPT ![c] = [pc |-> "wait", player |-> slot.player, closer |-> slot.closer, then |-> then]]
  /\ UNCHANGED <<decoder, registered>>

Stop(c) ==
  /\ Begins(c) /\ slot.player # NoPlayer
  /\ TakeOut(c, Loaded, "off")
  /\ UNCHANGED <<patient, closed>>

Eject(c) ==
  /\ Begins(c) /\ slot.loaded
  /\ IF slot.player # NoPlayer THEN TakeOut(c, Empty, "off")
                               ELSE slot' = Empty /\ UNCHANGED <<plr, decoder, registered, ctl>>
  /\ UNCHANGED <<patient, closed>>

\* The clip has been read from its file.
Load(c) ==
  /\ Begins(c)
  /\ IF slot.player # NoPlayer THEN TakeOut(c, Empty, "put")
                               ELSE slot' = Loaded /\ UNCHANGED <<plr, decoder, registered, ctl>>
  /\ UNCHANGED <<patient, closed>>

\* Players are stopped, but onPlayerStop is not called any more.
Close(c) ==
  /\ Begins(c)
  /\ closed' = TRUE
  /\ IF slot.player # NoPlayer THEN TakeOut(c, Loaded, "idle")
                               ELSE UNCHANGED <<slot, plr, decoder, registered, ctl>>
  /\ UNCHANGED patient

\* Mutant: the goroutine is not waited for.
Waited_AtOnce(c) ==
  /\ ctl[c].pc = "wait"
  /\ CloseDecoder(ctl[c].closer)
  /\ ctl' = [ctl EXCEPT ![c] = IF ctl[c].then = "idle" THEN Idle ELSE [Idle EXCEPT !.pc = "off", !.then = ctl[c].then]]
  /\ UNCHANGED <<patient, slot, plr, registered, closed>>

\* player.Wait, then the decoder.
Waited(c) ==
  /\ ctl[c].pc = "wait" /\ plr[ctl[c].player].st = "done"
  /\ CloseDecoder(ctl[c].closer)
  /\ ctl' = [ctl EXCEPT ![c] = IF ctl[c].then = "idle" THEN Idle ELSE [Idle EXCEPT !.pc = "off", !.then = ctl[c].then]]
  /\ UNCHANGED <<patient, slot, plr, registered, closed>>

\* onPlayerStop
SourceOff(c) ==
  /\ ctl[c].pc = "off"
  /\ registered' = FALSE
  /\ ctl' = [ctl EXCEPT ![c] = IF ctl[c].then = "put" THEN [Idle EXCEPT !.pc = "put"] ELSE Idle]
  /\ UNCHANGED <<patient, slot, plr, decoder, closed>>

\* Load again under the lock: the slot is overwritten, whatever is in it by now.
Put(c) ==
  /\ ctl[c].pc = "put"
  /\ slot' = Loaded
  /\ ctl' = [ctl EXCEPT ![c] = Idle]
  /\ UNCHANGED <<patient, plr, decoder, registered, closed>>
-----------------------------------------------------------------------------
(* Play, Pause, Resume                                                     *)

Play(c) ==
  /\ Begins(c) /\ slot.loaded /\ slot.player = NoPlayer /\ Fresh # {}
  /\ LET p == CHOOSE q \in Fresh : TRUE IN
       /\ slot' = [slot EXCEPT !.player = p, !.closer = p]
       /\ plr' = [plr EXCEPT ![p] = NewPlayer]
       /\ decoder' = [decoder EXCEPT ![p] = "open"]
       /\ ctl' = [ctl EXCEPT ![c] = [Idle EXCEPT !.pc = "start", !.player = p]]
  /\ UNCHANGED <<patient, registered, closed>>

\* Mutant: the source is registered after the player was started.
SourceOn_Late(c) ==
  /\ ctl[c].pc = "start"
  /\ plr' = [plr EXCEPT ![ctl[c].player].st = "running"]
  /\ ctl' = [ctl EXCEPT ![c].pc = "launch"]
  /\ UNCHANGED <<patient, slot, decoder, registered, closed>>

\* onPlayerStart: the source and its channel are registered ...
SourceOn(c) ==
  /\ ctl[c].pc = "start"
  /\ registered' = TRUE
  /\ ctl' = [ctl EXCEPT ![c].pc = "launch"]
  /\ UNCHANGED <<patient, slot, plr, decoder, closed>>

\* ... and p.Start
Launch(c) ==
  /\ ctl[c].pc = "launch"
  /\ plr' = [plr EXCEPT ![ctl[c].player].st = "running"]
  /\ ctl' = [ctl EXCEPT ![c] = Idle]
  /\ UNCHANGED <<patient, slot, decoder, registered, closed>>

\* Only a player that plays is paused: not one that holds its last picture.
Pause(c) ==
  /\ Begins(c) /\ slot.player # NoPlayer
  /\ plr[slot.player].st = "running" /\ ~ plr[slot.player].paused
  /\ plr' = [plr EXCEPT ![slot.player].paused = TRUE]
  /\ UNCHANGED <<patient, slot, decoder, registered, ctl, closed>>

\* Resume, and Play of a paused player: the channel is closed.
Resume(c) ==
  /\ Begins(c) /\ slot.player # NoPlayer
  /\ plr[slot.player].st \in {"running", "held"} /\ plr[slot.player].paused
  /\ plr' = [plr EXCEPT ![slot.player].paused = FALSE, ![slot.player].st = "running"]
  /\ UNCHANGED <<patient, slot, decoder, registered, ctl, closed>>
-----------------------------------------------------------------------------
(* Player.run                                                              *)

\* outputFrame blocks on the pause channel.
Hold(p) ==
  /\ plr[p].st = "running" /\ plr[p].paused
  /\ plr' = [plr EXCEPT ![p].st = "held"]
  /\ UNCHANGED <<patient, slot, decoder, registered, ctl, closed>>

\* playClip is at the end of a clip that does not loop: StateHolding.
Finish(p) ==
  /\ plr[p].st = "running"
  /\ plr' = [plr EXCEPT ![p].st = "over", ![p].paused = FALSE]
  /\ UNCHANGED <<patient, slot, decoder, registered, ctl, closed>>

\* OnDone: the decoder the slot knows of is closed.
OnDone(p) ==
  /\ plr[p].st = "over"
  /\ CloseDecoder(slot.closer)
  /\ slot' = [slot EXCEPT !.closer = NoPlayer]
  /\ plr' = [plr EXCEPT ![p].st = "holding"]
  /\ UNCHANGED <<patient, registered, ctl, closed>>

\* Mutant: the hold loop does not look at its context.
Leave_Deaf(p) ==
  /\ plr[p].st \in {"running", "held"} /\ plr[p].cancelled
  /\ plr' = [plr EXCEPT ![p] = NoRun]
  /\ UNCHANGED <<patient, slot, decoder, registered, ctl, closed>>

\* Every loop of run ends when the context is cancelled.
Leave(p) ==
  /\ plr[p].st \in {"running", "held", "holding"} /\ plr[p].cancelled
  /\ plr' = [plr EXCEPT ![p] = NoRun]
  /\ UNCHANGED <<patient, slot, decoder, registered, ctl, closed>>

\* A clip of which no picture could be decoded leaves holdLoop nothing to show.
NothingToHold(p) ==
  /\ plr[p].st = "holding"
  /\ plr' = [plr EXCEPT ![p] = NoRun]
  /\ UNCHANGED <<patient, slot, decoder, registered, ctl, closed>>

Request(c) == Stop(c) \/ Eject(c) \/ Load(c) \/ Close(c) \/ Play(c) \/ Pause(c) \/ Resume(c)
Continue(c) == Waited(c) \/ SourceOff(c) \/ Put(c) \/ SourceOn(c) \/ Launch(c)
Run(p) == Hold(p) \/ OnDone(p) \/ Leave(p)

Next ==
  \/ \E c \in Clients : Request(c) \/ Continue(c)
  \/ \E p \in Players : Run(p) \/ Finish(p) \/ NothingToHold(p)

Spec == Init /\ [][Next]_vars

\* Goroutines run; a clip that loops does not end by itself.
FairSpec ==
  /\ Spec
  /\ \A c \in Clients : WF_vars(Continue(c))
  /\ \A p \in Players : WF_vars(Run(p))
-----------------------------------------------------------------------------
Outputs(p) == plr[p].st \in {"running", "held"}

\* A decoder is closed once, and one request at a time, only after the last picture was
\* decoded with it, and it is not forgotten: Stop, Eject and Load take the closer out of the
\* slot, the end of the clip does too.
DecoderSafe ==
  \A p \in Players :
    /\ decoder[p] # "broken"
    /\ patient /\ Outputs(p) => decoder[p] = "open"
    /\ patient /\ decoder[p] = "open" => slot.closer = p \/ \E c \in Clients : ctl[c].closer = p

\* A player outputs to a registered source, and is in the slot or waited for: one request
\* at a time, none plays on without anybody knowing it.
SourceFollows ==
  patient =>
    /\ \A p \in Players : Outputs(p) =>
         registered /\ (slot.player = p \/ \E c \in Clients : ctl[c].pc = "wait" /\ ctl[c].player = p)
    /\ (\A c \in Clients : ctl[c].pc = "idle") /\ ~ closed => (registered <=> slot.player # NoPlayer)

\* Every request returns, whatever requests run beside it: the player it waits for may be
\* paused, holding, at its end, or not started yet.
RequestsReturn == \A c \in Clients : ctl[c].pc # "idle" ~> ctl[c].pc = "idle"

\* manager.go: "If the slot already has content, it ejects the existing content first".
LoadEjects ==
  \A p \in Players : plr[p].st # "done" =>
    slot.player = p \/ \E c \in Clients : ctl[c].player = p
=============================================================================
