----------------------------- MODULE SwitcherAV -----------------------------
(***************************************************************************)
(* The switching engine together with what follows it: the audio mixer and *)
(* the frame synchronizer's program source.  Each action is an action of   *)
(* Switcher and the call that the code makes in the same critical section. *)
(***************************************************************************)
EXTENDS SwitcherProps

INSTANCE Mixer

VARIABLES
  mix,          \* the audio mixer
  syncProgram,  \* frameSync.programSource, the source that paces the output
  wiring        \* per source: what its stream callback has still to tell the mixer

avVars == <<vars, mix, syncProgram, wiring>>

FadeMode(kind) == CASE kind = "mix" -> "cross"
                    [] kind = "ftb" -> "out"
                    [] kind = "ftb_reverse" -> "in"

AVTypeOK ==
  /\ TypeOK /\ mix \in Mixers /\ syncProgram \in Keys
  /\ wiring \in [Sources -> {"done", "add", "remove"}]

AVInit ==
  /\ Init
  /\ mix = MixerInit /\ syncProgram = NoSource
  /\ wiring = [s \in Sources |-> "done"]

\* One request at a time: none comes while a source is half registered ...
Wired == Patient => \A s \in Sources : wiring[s] = "done"

\* ... and no source comes or goes during a request or its callback.
Calm ==
  /\ Wired
  /\ Patient => (\A c \in Controllers : ctl[c].pc = "idle") /\ (\A e \in Engines : comp[e].pc = "none")

\* onStreamRegistered, onStreamUnregistered: the switcher is told first ...
AVRegister(s) ==
  /\ Calm /\ wiring[s] = "done" /\ Register(s)
  /\ wiring' = [wiring EXCEPT ![s] = "add"]
  /\ UNCHANGED <<mix, syncProgram>>

AVUnregister(s) ==
  /\ Calm /\ wiring[s] = "done" /\ Unregister(s)
  /\ wiring' = [wiring EXCEPT ![s] = "remove"]
  /\ UNCHANGED <<mix, syncProgram>>

\* ... and then the mixer.
WireMixer(s) ==
  /\ wiring[s] # "done"
  /\ mix' = IF wiring[s] = "add" THEN AddChannel(mix, s) ELSE RemoveChannel(mix, s)
  /\ wiring' = [wiring EXCEPT ![s] = "done"]
  /\ UNCHANGED <<vars, syncProgram>>

\* Mutant: the fade from black does not lift the mute.
AVStartFade_StaysMuted(c) ==
  /\ StartFade(c)
  /\ mix' = OnTransitionStart(mix, ctl[c].from, ctl[c].to, FadeMode(ctl[c].kind))
  /\ UNCHANGED <<syncProgram, wiring>>

\* Phase 3 of a start: the audio crossfade begins before the engine is published.
AVStartFade(c) ==
  /\ StartFade(c)
  /\ LET r == ctl[c]
         open == IF r.kind = "ftb_reverse" THEN SetProgramMute(mix, FALSE) ELSE mix
     IN mix' = OnTransitionStart(open, r.from, r.to, FadeMode(r.kind))
  /\ UNCHANGED <<syncProgram, wiring>>

\* The incoming source of a mix paces the output; a fade leaves the pace alone.
AVPublish(c) ==
  /\ Publish(c)
  /\ syncProgram' = IF ctl[c].kind = "mix" THEN ctl[c].to ELSE syncProgram
  /\ UNCHANGED <<mix, wiring>>

AVCut(c, s) == Wired /\ Cut(c, s) /\ syncProgram' = s /\ UNCHANGED <<mix, wiring>>

AVAbortFade(c) == AbortFade(c) /\ mix' = ClearFade(mix) /\ UNCHANGED <<syncProgram, wiring>>

AVCutFade(c) ==
  /\ CutFade(c)
  /\ mix' = IF ctl[c].from = NoSource THEN mix ELSE OnCut(mix, ctl[c].from, ctl[c].to)
  /\ UNCHANGED <<syncProgram, wiring>>

AVCutFollow(c) ==
  /\ CutFollow(c)
  /\ mix' = OnProgramChange(mix, ctl[c].to)
  /\ UNCHANGED <<syncProgram, wiring>>

\* Mutant: an aborted mix leaves the pace with the incoming source.
AVCompleteSync_OnlyCompleted(e) ==
  /\ CompleteSync(e)
  /\ syncProgram' = IF comp[e].follow THEN comp[e].snap ELSE syncProgram
  /\ UNCHANGED <<mix, wiring>>

\* The program captured under the lock is handed on after the unlock.
AVCompleteSync(e) == CompleteSync(e) /\ syncProgram' = comp[e].snap /\ UNCHANGED <<mix, wiring>>

AVCompleteAudio(e) == CompleteAudio(e) /\ mix' = ClearFade(mix) /\ UNCHANGED <<syncProgram, wiring>>

\* AFV follows a completed mix; a fade held at black mutes the program.
AVCompleteFollow(e) ==
  /\ CompleteFollow(e)
  /\ mix' = IF engine[e].kind = "mix" THEN OnProgramChange(mix, comp[e].snap)
                                      ELSE SetProgramMute(mix, TRUE)
  /\ UNCHANGED <<syncProgram, wiring>>

\* Every other step of the switcher: neither the mixer nor the pace is touched.
AVOther ==
  /\ \/ \E c \in Controllers :
          \/ Wired /\ (MarkFadeToBlack(c) \/ MarkFadeReverse(c) \/ TBarRead(c) \/ Abort(c))
          \/ Wired /\ \E s \in Sources : MarkTransition(c, s) \/ SetPreview(c, s)
          \/ StartRollback(c) \/ StartEngine(c) \/ StopEngine(c)
          \/ \E position \in {"zero", "moved", "end"} : TBarMove(c, position)
     \/ \E e \in Engines : CompleteLate(e) \/ CompleteMix(e) \/ CompleteFade(e) \/ Watchdog(e)
     \/ \E s \in Sources : FrameRoute(s) \/ FrameIngest(s) \/ FrameComplete(s)
  /\ UNCHANGED <<mix, syncProgram, wiring>>

\* The mixer's output tick, for as long as a cut is being crossfaded.
MixerTick ==
  /\ mix.cutLeft > 0
  /\ mix' = Tick(mix)
  /\ UNCHANGED <<vars, syncProgram, wiring>>

AVNext ==
  \/ \E c \in Controllers : \/ AVStartFade(c) \/ AVPublish(c) \/ AVAbortFade(c)
                            \/ AVCutFade(c) \/ AVCutFollow(c)
                            \/ \E s \in Sources : AVCut(c, s)
  \/ \E e \in Engines : AVCompleteSync(e) \/ AVCompleteAudio(e) \/ AVCompleteFollow(e)
  \/ \E s \in Sources : AVRegister(s) \/ AVUnregister(s) \/ WireMixer(s)
  \/ AVOther
  \/ MixerTick

AVSpec == AVInit /\ [][AVNext]_avVars
-----------------------------------------------------------------------------
\* Nothing is under way: no request, no callback, no registration, no crossfade, no
\* transition.
Quiet ==
  /\ \A s \in Sources : wiring[s] = "done"
  /\ \A c \in Controllers : ctl[c].pc = "idle"
  /\ \A e \in Engines : comp[e].pc = "none"
  /\ mix.cutLeft = 0 /\ ~ InTransition(state)

\* When all is quiet the audio has followed the video: the program's channel is on
\* air, no crossfade is left over, and the output is muted exactly when it is held
\* at black (OnProgramChange, OnTransitionComplete, SetProgramMute reached the mixer
\* in an order that agrees with the order in which s.mu was taken).
AudioFollowed ==
  Quiet => /\ program # NoSource => program \in mix.active
           /\ mix.fade = NoFade
           /\ mix.muted = (state = "ftb")

\* ... and the frame synchronizer paces its releases on the program.
PaceFollowed == Quiet /\ program # NoSource => syncProgram = program

\* During a published mix the incoming source paces the output.
PaceFollowsTarget ==
  transEngine # NoEngine /\ engine[transEngine].kind = "mix" /\ engine[transEngine].st = "active"
    => syncProgram = engine[transEngine].to

\* When all is quiet no channel but the program's is left on air.
OnlyProgramOnAir == Quiet /\ program # NoSource => mix.active \subseteq {program}

\* While a published transition runs, the mixer crossfades between its two sources.
FadeFollowsEngine ==
  transEngine # NoEngine /\ engine[transEngine].st = "active" =>
    mix.fade = [from |-> engine[transEngine].from, to |-> engine[transEngine].to,
                mode |-> FadeMode(engine[transEngine].kind)]

=============================================================================
