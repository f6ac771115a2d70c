------------------------------ MODULE Switcher ------------------------------
(***************************************************************************)
(* The switching engine (server/switcher/switcher.go): the state machine   *)
(* of cuts, transitions and fade-to-black, the transition engines it       *)
(* starts, and their completion callbacks.  The audio mixer and the frame   *)
(* synchronizer, which it calls on the way, are added by SwitcherAV; the   *)
(* program epoch, which it bumps for the processing loop, is in FramePath. *)
(*                                                                         *)
(* Threads: the goroutines of the control API (Controllers), the delivery  *)
(* goroutine of every source (frame), and for each engine the goroutine    *)
(* its completion callback runs in (comp).  A step is what a goroutine     *)
(* does between two points at which another may get in: one critical       *)
(* section of s.mu, of an engine's or of the mixer's mutex.                *)
(***************************************************************************)
EXTENDS Integers, FiniteSets

CONSTANTS
  Sources,      \* source keys
  NoSource,     \* the empty key ""
  Controllers,  \* goroutines serving control requests
  Engines,      \* engine objects; one is reused when nothing refers to it
  NoEngine,     \* the nil engine
  GPU,          \* TRUE: a GPU runner is installed
  Delivering,   \* sources that never stop sending frames; the others fall silent
  Operations,   \* the operations the environment may use (see Can)
  Patient       \* TRUE: requests wait until no completion callback is under way

ASSUME SourceAssumption == NoSource \notin Sources
ASSUME EngineAssumption == NoEngine \notin Engines
ASSUME FlagAssumption == GPU \in BOOLEAN /\ Patient \in BOOLEAN
ASSUME DeliveringAssumption == Delivering \subseteq Sources

VARIABLES
  state,        \* s.state
  program,      \* s.programSource
  preview,      \* s.previewSource
  registered,   \* keys of s.sources
  transEngine,  \* s.transEngine, the published engine
  gate,         \* s.gpuTransActive: the processing loop drops program frames
  engine,       \* the engine objects
  comp,         \* per engine: the completion callback under way
  ctl,          \* per controller: the request under way
  frame         \* per source: the engine its frame in flight was routed to

busVars == <<state, program, preview, registered, transEngine, gate>>
vars == <<busVars, engine, comp, ctl, frame>>

Keys == Sources \cup {NoSource}
States == {"idle", "transitioning", "ftb_transitioning", "ftb", "ftb_reversing"}
Kinds == {"mix", "ftb", "ftb_reverse"}   \* mix: mix, dip, wipe and stinger alike

InTransition(st) == st \in {"transitioning", "ftb_transitioning", "ftb_reversing"}

\* validTransitions; transitionState only warns about any other change.
ValidNext(st) ==
  CASE st = "idle"              -> {"transitioning", "ftb_transitioning"}
    [] st = "transitioning"     -> {"idle"}
    [] st = "ftb_transitioning" -> {"ftb", "idle"}
    [] st = "ftb"               -> {"ftb_reversing"}
    [] st = "ftb_reversing"     -> {"ftb", "idle"}

\* The state a transition of a kind is marked with ...
Marked(kind) == CASE kind = "mix" -> "transitioning"
                  [] kind = "ftb" -> "ftb_transitioning"
                  [] kind = "ftb_reverse" -> "ftb_reversing"
\* ... the one it returns to when it is rolled back or aborted ...
Aborted(kind) == IF kind = "ftb_reverse" THEN "ftb" ELSE "idle"
\* ... and the one it ends in.
Completed(kind) == IF kind = "ftb" THEN "ftb" ELSE "idle"

NewEngine == [st |-> "idle", kind |-> "ftb", from |-> NoSource, to |-> NoSource,
              bar |-> "auto", fed |-> FALSE]
NoRequest == [pc |-> "idle", kind |-> "mix", from |-> NoSource, to |-> NoSource, engine |-> NoEngine]
NoCallback == [pc |-> "none", aborted |-> FALSE, by |-> "watchdog", snap |-> NoSource, follow |-> FALSE]
-----------------------------------------------------------------------------
\* A mix leads to a source, a fade to nothing.
EngineRecords ==
  {r \in [st : {"idle", "active"}, kind : Kinds, from : Keys, to : Keys,
          bar : {"auto", "zero", "moved"}, fed : BOOLEAN] : r.kind = "mix" => r.to \in Sources}

Callbacks == [pc : {"none", "lock", "sync", "audio", "follow"}, aborted : BOOLEAN,
              by : Controllers \cup Sources \cup {"watchdog"}, snap : Keys, follow : BOOLEAN]

\* A request that starts a transition knows its kind, one past a read of the engine has it.
Requests ==
  {r \in [pc : {"idle", "starting", "fading", "publishing", "tbar", "stopping",
                "unfading", "cutting", "following"},
          kind : Kinds \cup {"cut", "abort"}, from : Keys, to : Keys,
          engine : Engines \cup {NoEngine}] :
     /\ r.pc \in {"starting", "fading", "publishing"} =>
          r.kind \in Kinds /\ (r.kind = "mix" => r.to \in Sources)
     /\ r.pc \in {"fading", "publishing", "tbar", "stopping"} => r.engine \in Engines}

TypeOK ==
  /\ state \in States
  /\ program \in Keys /\ preview \in Keys
  /\ registered \in SUBSET Sources
  /\ transEngine \in Engines \cup {NoEngine}
  /\ gate \in BOOLEAN
  /\ engine \in [Engines -> EngineRecords]
  /\ comp \in [Engines -> Callbacks]
  /\ ctl \in [Controllers -> Requests]
  /\ frame \in [Sources -> Engines \cup {NoEngine}]

Init ==
  /\ state = "idle"
  /\ program = NoSource /\ preview = NoSource
  /\ registered = {}
  /\ transEngine = NoEngine
  /\ gate = FALSE
  /\ engine = [e \in Engines |-> NewEngine]
  /\ comp = [e \in Engines |-> NoCallback]
  /\ ctl = [c \in Controllers |-> NoRequest]
  /\ frame = [s \in Sources |-> NoEngine]
-----------------------------------------------------------------------------
\* A goroutine that is inside a completion callback does nothing else.
Busy(p) == \E e \in Engines : comp[e].by = p /\ comp[e].pc # "none"

\* A request of an operation the environment uses reaches an idle controller.
Can(c, operation) ==
  /\ operation \in Operations
  /\ ctl[c].pc = "idle"
  /\ ~ Busy(c)
  /\ Patient => \A e \in Engines : comp[e].pc = "none"

\* No pointer to e is left: a new engine may take its place.
Fresh(e) ==
  /\ engine[e].st = "idle" /\ comp[e].pc = "none" /\ transEngine # e
  /\ \A c \in Controllers : ctl[c].engine # e
  /\ \A s \in Sources : frame[s] # e

\* Mutant: the engine calls back but stays active, and calls back again.
Finish_Again(e, aborted, p) ==
  /\ comp' = [comp EXCEPT ![e] = [NoCallback EXCEPT !.pc = "lock", !.aborted = aborted, !.by = p]]
  /\ UNCHANGED engine

\* The engine leaves StateActive (cleanup) and its callback is about to be called.
Finish(e, aborted, p) ==
  /\ engine' = [engine EXCEPT ![e].st = "idle"]
  /\ comp' = [comp EXCEPT ![e] = [NoCallback EXCEPT !.pc = "lock", !.aborted = aborted, !.by = p]]

\* The sources that transitions being started or under way lead to.
Targets ==
  {ctl[c].to : c \in {d \in Controllers : ctl[d].pc \in {"starting", "fading", "publishing"}}}
    \cup {engine[e].to : e \in {transEngine} \cap Engines}
-----------------------------------------------------------------------------
(* RegisterSource and its variants, UnregisterSource, SetPreview *)

Register(s) ==
  /\ s \notin registered
  /\ registered' = registered \cup {s}
  /\ UNCHANGED <<state, program, preview, transEngine, gate, engine, comp, ctl, frame>>

Unregister(s) ==
  /\ "unregister" \in Operations
  /\ s \in Targets => "unregister_target" \in Operations
  /\ s \in registered
  /\ registered' = registered \ {s}
  /\ program' = IF program = s THEN NoSource ELSE program
  /\ preview' = IF preview = s THEN NoSource ELSE preview
  /\ UNCHANGED <<state, transEngine, gate, engine, comp, ctl, frame>>

SetPreview(c, s) ==
  /\ Can(c, "preview")
  /\ s \in registered
  /\ preview' = s
  /\ UNCHANGED <<state, program, registered, transEngine, gate, engine, comp, ctl, frame>>
-----------------------------------------------------------------------------
(* StartTransition and FadeToBlack: mark the state under the lock, create  *)
(* the engine and start the audio without it, publish under it again.      *)

Mark(c, kind, to) ==
  /\ program # NoSource
  /\ state' = Marked(kind)
  /\ ctl' = [ctl EXCEPT ![c] = [pc |-> "starting", kind |-> kind, from |-> program, to |-> to,
                                engine |-> NoEngine]]
  /\ UNCHANGED <<program, preview, registered, transEngine, gate, engine, comp, frame>>

\* Mutant: the target is not looked up.
MarkTransition_Unknown(c, to) == Can(c, "start") /\ state = "idle" /\ to # program /\ Mark(c, "mix", to)

MarkTransition(c, to) ==
  /\ Can(c, "start")
  /\ state = "idle"
  /\ to \in registered /\ to # program
  /\ Mark(c, "mix", to)

\* Mutant: the fade held at black is not looked at.
MarkFadeToBlack_AtBlack(c) == Can(c, "ftb") /\ ~ InTransition(state) /\ Mark(c, "ftb", NoSource)

\* Only StateTransitioning and StateFTB are looked at: a second request during
\* a fade is taken for a fresh fade to black.
MarkFadeToBlack(c) ==
  /\ Can(c, "ftb")
  /\ state \notin {"transitioning", "ftb"}
  /\ InTransition(state) => "ftb_again" \in Operations
  /\ Mark(c, "ftb", NoSource)

\* Mutant: the toggle turns a fade round that is still under way.
MarkFadeReverse_Early(c) ==
  Can(c, "ftb") /\ state \in {"ftb", "ftb_transitioning"} /\ Mark(c, "ftb_reverse", NoSource)

MarkFadeReverse(c) ==
  /\ Can(c, "ftb")
  /\ state = "ftb"
  /\ Mark(c, "ftb_reverse", NoSource)

\* The context was cancelled or engine.Start failed.
StartRollback(c) ==
  /\ ctl[c].pc = "starting"
  /\ state' = Aborted(ctl[c].kind)
  /\ ctl' = [ctl EXCEPT ![c] = NoRequest]
  /\ UNCHANGED <<program, preview, registered, transEngine, gate, engine, comp, frame>>

StartEngine(c) ==
  /\ ctl[c].pc = "starting"
  /\ \E e \in Engines :
       /\ Fresh(e)
       /\ engine' = [engine EXCEPT ![e] = [NewEngine EXCEPT !.st = "active", !.kind = ctl[c].kind,
                                                   !.from = ctl[c].from, !.to = ctl[c].to]]
       /\ ctl' = [ctl EXCEPT ![c].pc = "fading", ![c].engine = e]
  /\ UNCHANGED <<busVars, comp, frame>>

StartFade(c) ==
  /\ ctl[c].pc = "fading"
  /\ ctl' = [ctl EXCEPT ![c].pc = "publishing"]
  /\ UNCHANGED <<busVars, engine, comp, frame>>

Publish(c) ==
  /\ ctl[c].pc = "publishing"
  /\ transEngine' = ctl[c].engine
  /\ IF ctl[c].kind = "mix"
       THEN preview' = ctl[c].to /\ gate' = (gate \/ GPU)
       ELSE UNCHANGED <<preview, gate>>
  /\ ctl' = [ctl EXCEPT ![c] = NoRequest]
  /\ UNCHANGED <<state, program, registered, engine, comp, frame>>
-----------------------------------------------------------------------------
(* SetTransitionPosition: the engine is read under the lock, moved without it. *)

TBarRead(c) ==
  /\ Can(c, "tbar")
  /\ InTransition(state) /\ transEngine # NoEngine
  /\ ctl' = [ctl EXCEPT ![c] = [NoRequest EXCEPT !.pc = "tbar", !.engine = transEngine]]
  /\ UNCHANGED <<busVars, engine, comp, frame>>

\* Engine.SetPosition: at the far end it completes, back at zero it aborts
\* if it was ever past zero.
TBarMove(c, position) ==
  /\ ctl[c].pc = "tbar"
  /\ LET e == ctl[c].engine IN
       CASE engine[e].st # "active" -> UNCHANGED <<engine, comp>>
         [] engine[e].st = "active" /\ position = "end" -> Finish(e, FALSE, c)
         [] engine[e].st = "active" /\ position = "zero" /\ engine[e].bar = "moved" -> Finish(e, TRUE, c)
         [] OTHER -> /\ engine' = [engine EXCEPT ![e].bar = position]
                     /\ UNCHANGED comp
  /\ ctl' = [ctl EXCEPT ![c] = NoRequest]
  /\ UNCHANGED <<busVars, frame>>
-----------------------------------------------------------------------------
(* Cut and AbortTransition *)

Cut(c, s) ==
  /\ Can(c, "cut")
  /\ InTransition(state) => "cut_override" \in Operations
  /\ s \in registered /\ s # program
  /\ LET stop == IF InTransition(state) THEN transEngine ELSE NoEngine IN
       ctl' = [ctl EXCEPT ![c] = [pc |-> IF stop = NoEngine THEN "cutting" ELSE "stopping",
                                  kind |-> "cut", from |-> program, to |-> s, engine |-> stop]]
  /\ state' = IF InTransition(state) THEN "idle" ELSE state
  /\ transEngine' = IF InTransition(state) THEN NoEngine ELSE transEngine
  /\ program' = s
  /\ preview' = IF program = NoSource THEN preview ELSE program
  /\ UNCHANGED <<registered, gate, engine, comp, frame>>

Abort(c) ==
  /\ Can(c, "abort")
  /\ InTransition(state) \/ transEngine # NoEngine
  /\ state' = CASE state = "ftb_reversing" -> "ftb"
                [] state \in {"transitioning", "ftb_transitioning"} -> "idle"
                [] OTHER -> state
  /\ transEngine' = IF InTransition(state) THEN NoEngine ELSE transEngine
  /\ ctl' = [ctl EXCEPT ![c] = [NoRequest EXCEPT
                 !.pc = IF transEngine = NoEngine THEN "unfading" ELSE "stopping",
                 !.kind = IF InTransition(state) THEN "abort" ELSE "mix",
                 !.engine = transEngine]]
  /\ UNCHANGED <<program, preview, registered, gate, engine, comp, frame>>

\* Engine.Stop, outside s.mu: cleanup without a callback.
StopEngine(c) ==
  /\ ctl[c].pc = "stopping"
  /\ engine' = [engine EXCEPT ![ctl[c].engine].st = "idle"]
  /\ ctl' = [ctl EXCEPT ![c] = IF ctl[c].kind \in {"cut", "abort"}
                                 THEN [ctl[c] EXCEPT !.pc = "unfading", !.engine = NoEngine]
                                 ELSE NoRequest]
  /\ UNCHANGED <<busVars, comp, frame>>

AbortFade(c) ==
  /\ ctl[c].pc = "unfading"
  /\ ctl' = [ctl EXCEPT ![c] = IF ctl[c].kind = "cut" THEN [ctl[c] EXCEPT !.pc = "cutting"]
                                                      ELSE NoRequest]
  /\ UNCHANGED <<busVars, engine, comp, frame>>

CutFade(c) ==
  /\ ctl[c].pc = "cutting"
  /\ ctl' = [ctl EXCEPT ![c].pc = "following"]
  /\ UNCHANGED <<busVars, engine, comp, frame>>

CutFollow(c) ==
  /\ ctl[c].pc = "following"
  /\ ctl' = [ctl EXCEPT ![c] = NoRequest]
  /\ UNCHANGED <<busVars, engine, comp, frame>>
-----------------------------------------------------------------------------
(* Frames of the two sources of a transition, routed by handleRawVideoFrame *)

Feeds(s, e) == s \in {engine[e].from, engine[e].to}

\* The incoming source's frames blend and finish; a fade has only the outgoing one.
Triggers(s, e) == s = IF engine[e].kind = "mix" THEN engine[e].to ELSE engine[e].from

FrameRoute(s) ==
  /\ frame[s] = NoEngine /\ ~ Busy(s)
  /\ s \in registered
  /\ InTransition(state) /\ transEngine # NoEngine
  /\ Feeds(s, transEngine)
  /\ frame' = [frame EXCEPT ![s] = transEngine]
  /\ UNCHANGED <<busVars, engine, comp, ctl>>

\* The engine takes the frame (or, no longer active, drops it) and goes on.
FrameIngest(s) ==
  /\ frame[s] # NoEngine
  /\ LET e == frame[s] IN
       engine' = IF engine[e].st = "active" /\ s = engine[e].from
                   THEN [engine EXCEPT ![e].fed = TRUE] ELSE engine
  /\ frame' = [frame EXCEPT ![s] = NoEngine]
  /\ UNCHANGED <<busVars, comp, ctl>>

\* The frame finds that the duration has passed: auto-complete, or ForceComplete
\* on the GPU path.  The CPU blend waits for a first frame of the outgoing source.
FrameComplete(s) ==
  /\ frame[s] # NoEngine
  /\ LET e == frame[s] IN
       /\ engine[e].st = "active" /\ engine[e].bar = "auto" /\ Triggers(s, e)
       /\ GPU \/ engine[e].fed \/ engine[e].kind # "mix"
       /\ Finish(e, FALSE, s)
  /\ frame' = [frame EXCEPT ![s] = NoEngine]
  /\ UNCHANGED <<busVars, ctl>>

\* Mutant: only the published engine is watched.
Starved_Published(e) ==
  transEngine = e /\ {engine[e].from, engine[e].to} \cap Delivering \cap registered = {}

\* No frame reached e for the timeout: nothing routes to it, or its sources are silent.
Starved(e) == \/ transEngine # e
              \/ {engine[e].from, engine[e].to} \cap Delivering \cap registered = {}

\* The timeout (10 s) is taken to be longer than the start of a transition.
Watchdog(e) ==
  /\ engine[e].st = "active" /\ Starved(e)
  /\ \A s \in Sources : frame[s] # e
  /\ \A c \in Controllers : ctl[c].engine = e => ctl[c].pc \notin {"fading", "publishing"}
  /\ Finish(e, TRUE, "watchdog")
  /\ UNCHANGED <<busVars, ctl, frame>>
-----------------------------------------------------------------------------
(* handleTransitionComplete, handleFTBComplete, handleFTBReverseComplete *)

\* The callback comes too late: whoever ended the transition has done the work.
CompleteLate(e) ==
  /\ comp[e].pc = "lock"
  /\ ~ InTransition(state)
  /\ comp' = [comp EXCEPT ![e] = NoCallback]
  /\ UNCHANGED <<busVars, engine, ctl, frame>>

\* The target is read from the published engine, whichever engine called back.
CompleteMix(e) ==
  /\ comp[e].pc = "lock" /\ engine[e].kind = "mix"
  /\ InTransition(state)
  /\ LET target == IF comp[e].aborted \/ transEngine = NoEngine THEN NoSource
                                                              ELSE engine[transEngine].to
         new == IF target = NoSource THEN program ELSE target
     IN /\ program' = new
        /\ preview' = IF target = NoSource THEN preview ELSE program
        /\ comp' = [comp EXCEPT ![e].pc = "sync", ![e].snap = new,
                                ![e].follow = (target # NoSource)]
  /\ state' = "idle"
  /\ transEngine' = NoEngine
  /\ gate' = FALSE
  /\ UNCHANGED <<registered, engine, ctl, frame>>

\* Mutant: the finished engine stays published.
CompleteFade_KeepsEngine(e) ==
  /\ comp[e].pc = "lock" /\ engine[e].kind # "mix" /\ InTransition(state)
  /\ state' = IF comp[e].aborted THEN Aborted(engine[e].kind) ELSE Completed(engine[e].kind)
  /\ comp' = [comp EXCEPT ![e].pc = "audio", ![e].follow = (state' = "ftb")]
  /\ UNCHANGED <<program, preview, registered, transEngine, gate, engine, ctl, frame>>

CompleteFade(e) ==
  /\ comp[e].pc = "lock" /\ engine[e].kind # "mix"
  /\ InTransition(state)
  /\ LET end == IF comp[e].aborted THEN Aborted(engine[e].kind) ELSE Completed(engine[e].kind)
     IN /\ state' = end
        /\ comp' = [comp EXCEPT ![e].pc = "audio", ![e].follow = (end = "ftb")]
  /\ transEngine' = NoEngine
  /\ UNCHANGED <<program, preview, registered, gate, engine, ctl, frame>>

\* After the unlock: the frame synchronizer ...
CompleteSync(e) ==
  /\ comp[e].pc = "sync"
  /\ comp' = [comp EXCEPT ![e].pc = "audio"]
  /\ UNCHANGED <<state, program, preview, registered, transEngine, gate, engine, ctl, frame>>

\* ... then the mixer's crossfade ...
CompleteAudio(e) ==
  /\ comp[e].pc = "audio"
  /\ comp' = [comp EXCEPT ![e] = IF comp[e].follow THEN [comp[e] EXCEPT !.pc = "follow"]
                                                   ELSE NoCallback]
  /\ UNCHANGED <<busVars, engine, ctl, frame>>

\* ... then the new program's channel, or the mute of a program held at black.
CompleteFollow(e) ==
  /\ comp[e].pc = "follow"
  /\ comp' = [comp EXCEPT ![e] = NoCallback]
  /\ UNCHANGED <<busVars, engine, ctl, frame>>

-----------------------------------------------------------------------------
Request(c) ==
  \/ MarkFadeToBlack(c) \/ MarkFadeReverse(c) \/ TBarRead(c) \/ Abort(c)
  \/ \E s \in Sources : MarkTransition(c, s) \/ Cut(c, s) \/ SetPreview(c, s)

Continue(c) ==
  \/ StartRollback(c) \/ StartEngine(c) \/ StartFade(c) \/ Publish(c)
  \/ \E position \in {"zero", "moved", "end"} : TBarMove(c, position)
  \/ StopEngine(c) \/ AbortFade(c) \/ CutFade(c) \/ CutFollow(c)

Callback(e) == \/ CompleteLate(e) \/ CompleteMix(e) \/ CompleteFade(e)
               \/ CompleteSync(e) \/ CompleteAudio(e) \/ CompleteFollow(e)

Next ==
  \/ \E c \in Controllers : Request(c) \/ Continue(c)
  \/ \E e \in Engines : Callback(e) \/ Watchdog(e)
  \/ \E s \in Sources : \/ Register(s) \/ Unregister(s)
                        \/ FrameRoute(s) \/ FrameIngest(s) \/ FrameComplete(s)

Spec == Init /\ [][Next]_vars

(* Goroutines that can run do run; the cameras in Delivering keep sending, *)
(* and a transition's duration passes: a source whose frames keep reaching *)
(* an engine eventually brings the one that finds the duration over.       *)
Fairness ==
  /\ \A c \in Controllers : WF_vars(Continue(c))
  /\ \A e \in Engines : WF_vars(Callback(e)) /\ WF_vars(Watchdog(e))
  /\ \A s \in Sources : WF_vars(FrameIngest(s) \/ FrameComplete(s)) /\ SF_vars(FrameComplete(s))
  /\ \A s \in Delivering : WF_vars(FrameRoute(s))

FairSpec == Spec /\ Fairness
=============================================================================
