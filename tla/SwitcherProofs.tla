--------------------------- MODULE SwitcherProofs ---------------------------
(***************************************************************************)
(* Theorems about the switching engine, for every set of sources,          *)
(* controllers and engines: its type invariant; the hand-off of a          *)
(* transition, without a gap, from the request that starts it to its       *)
(* engine and on to the completion callback, as long as requests wait      *)
(* their turn; that it then implements the program bus; and that the mixer *)
(* and the frame synchronizer follow the program, cuts into transitions    *)
(* included, as long as requests come one at a time.                       *)
(***************************************************************************)
EXTENDS SwitcherBus, SwitcherAV, TLAPS

USE DEF Keys

LEMMA BlankTypes == NewEngine \in EngineRecords /\ NoCallback \in Callbacks /\ NoRequest \in Requests
<1>1. NewEngine \in EngineRecords
  BY DEF NewEngine, EngineRecords, Kinds
<1>2. NoCallback \in Callbacks
  BY DEF NoCallback, Callbacks
<1>3. NoRequest \in Requests
  BY DEF NoRequest, Requests, Kinds
<1>. QED BY <1>1, <1>2, <1>3

LEMMA InitTypeOK == Init => TypeOK
  BY BlankTypes DEF Init, TypeOK, States

\* A finished engine leaves well-typed engines and callbacks behind, whoever finished it.
LEMMA FinishTypeOK ==
  ASSUME TypeOK, NEW e \in Engines, NEW aborted \in BOOLEAN,
         NEW p \in Controllers \cup Sources \cup {"watchdog"}, Finish(e, aborted, p)
  PROVE  engine' \in [Engines -> EngineRecords] /\ comp' \in [Engines -> Callbacks]
<1>1. engine' \in [Engines -> EngineRecords]
  BY DEF TypeOK, Finish, EngineRecords
<1>2. [NoCallback EXCEPT !.pc = "lock", !.aborted = aborted, !.by = p] \in Callbacks
  BY DEF NoCallback, Callbacks
<1>3. comp' \in [Engines -> Callbacks]
  BY <1>2 DEF TypeOK, Finish
<1>. QED BY <1>1, <1>3

\* A request's step keeps the types.
LEMMA RequestTypeOK ==
  ASSUME TypeOK, NEW c \in Controllers, Request(c) PROVE TypeOK'
<1>m. ASSUME NEW kind \in Kinds, NEW to \in Keys, Mark(c, kind, to),
             kind = "mix" => to \in Sources
      PROVE  TypeOK'
  <2>1. [pc |-> "starting", kind |-> kind, from |-> program, to |-> to, engine |-> NoEngine] \in Requests
    BY <1>m DEF TypeOK, Requests
  <2>2. ctl' \in [Controllers -> Requests]
    BY <1>m, <2>1 DEF TypeOK, Mark
  <2>3. state' \in States
    BY <1>m DEF Mark, Marked, Kinds, States
  <2>. QED BY <1>m, <2>2, <2>3 DEF TypeOK, Mark
<1>1. CASE MarkFadeToBlack(c)
  BY <1>1, <1>m DEF MarkFadeToBlack, Kinds
<1>2. CASE MarkFadeReverse(c)
  BY <1>2, <1>m DEF MarkFadeReverse, Kinds
<1>3. CASE TBarRead(c)
  <2>1. [NoRequest EXCEPT !.pc = "tbar", !.engine = transEngine] \in Requests
    BY <1>3 DEF TypeOK, TBarRead, Requests, NoRequest, Kinds
  <2>. QED BY <1>3, <2>1 DEF TypeOK, TBarRead, busVars
<1>4. CASE Abort(c)
  <2>1. [NoRequest EXCEPT !.pc = IF transEngine = NoEngine THEN "unfading" ELSE "stopping",
                          !.kind = IF InTransition(state) THEN "abort" ELSE "mix",
                          !.engine = transEngine] \in Requests
    <3>1. CASE transEngine = NoEngine
      BY <3>1 DEF TypeOK, Requests, NoRequest, Kinds
    <3>2. CASE transEngine # NoEngine
      BY <3>2 DEF TypeOK, Requests, NoRequest, Kinds
    <3>. QED BY <3>1, <3>2
  <2>2. state' \in States /\ transEngine' \in Engines \cup {NoEngine}
    BY <1>4 DEF TypeOK, Abort, States
  <2>. QED BY <1>4, <2>1, <2>2 DEF TypeOK, Abort
<1>5. ASSUME NEW s \in Sources, MarkTransition(c, s) PROVE TypeOK'
  BY <1>5, <1>m DEF MarkTransition, Kinds
<1>6. ASSUME NEW s \in Sources, Cut(c, s) PROVE TypeOK'
  <2>. DEFINE stop == IF InTransition(state) THEN transEngine ELSE NoEngine
  <2>1. [pc |-> IF stop = NoEngine THEN "cutting" ELSE "stopping",
         kind |-> "cut", from |-> program, to |-> s, engine |-> stop] \in Requests
    BY DEF TypeOK, Requests
  <2>2. ctl' \in [Controllers -> Requests]
    BY <1>6, <2>1 DEF TypeOK, Cut
  <2>3. /\ state' \in States /\ transEngine' \in Engines \cup {NoEngine}
        /\ program' \in Keys /\ preview' \in Keys
    BY <1>6 DEF TypeOK, Cut, States
  <2>. QED BY <1>6, <2>2, <2>3 DEF TypeOK, Cut
<1>7. ASSUME NEW s \in Sources, SetPreview(c, s) PROVE TypeOK'
  BY <1>7 DEF TypeOK, SetPreview
<1>. QED BY <1>1, <1>2, <1>3, <1>4, <1>5, <1>6, <1>7 DEF Request

\* A step in the middle of a request keeps the types.
LEMMA ContinueTypeOK ==
  ASSUME TypeOK, NEW c \in Controllers, Continue(c) PROVE TypeOK'
<1>0. ctl[c] \in Requests
  BY DEF TypeOK
<1>1. CASE StartRollback(c)
  <2>1. state' \in States
    BY <1>1 DEF StartRollback, Aborted, States
  <2>. QED BY <1>1, <2>1, BlankTypes DEF TypeOK, StartRollback
<1>2. CASE StartEngine(c)
  <2>1. PICK e \in Engines :
           /\ engine' = [engine EXCEPT ![e] = [NewEngine EXCEPT !.st = "active", !.kind = ctl[c].kind,
                                                   !.from = ctl[c].from, !.to = ctl[c].to]]
           /\ ctl' = [ctl EXCEPT ![c].pc = "fading", ![c].engine = e]
    BY <1>2 DEF StartEngine
  <2>2. /\ ctl[c].kind \in Kinds /\ ctl[c].from \in Keys /\ ctl[c].to \in Keys
        /\ ctl[c].kind = "mix" => ctl[c].to \in Sources
    BY <1>0, <1>2 DEF StartEngine, Requests
  <2>3. [NewEngine EXCEPT !.st = "active", !.kind = ctl[c].kind, !.from = ctl[c].from, !.to = ctl[c].to]
          \in EngineRecords
    BY <2>2 DEF NewEngine, EngineRecords
  <2>4. [ctl[c] EXCEPT !.pc = "fading", !.engine = e] \in Requests
    BY <1>0, <2>2 DEF Requests
  <2>5. ctl' = [ctl EXCEPT ![c] = [ctl[c] EXCEPT !.pc = "fading", !.engine = e]]
    BY <2>1 DEF TypeOK
  <2>6. engine' \in [Engines -> EngineRecords]
    BY <2>1, <2>3 DEF TypeOK
  <2>7. ctl' \in [Controllers -> Requests]
    BY <2>4, <2>5 DEF TypeOK
  <2>8. UNCHANGED <<busVars, comp, frame>>
    BY <1>2 DEF StartEngine
  <2>. QED BY <2>6, <2>7, <2>8 DEF TypeOK, busVars
<1>3. CASE StartFade(c)
  <2>1. [ctl[c] EXCEPT !.pc = "publishing"] \in Requests
    BY <1>0, <1>3 DEF Requests, StartFade
  <2>. QED BY <1>3, <2>1 DEF TypeOK, StartFade, busVars
<1>4. CASE Publish(c)
  <2>1. ctl[c].engine \in Engines /\ ctl[c].to \in Keys
    BY <1>0, <1>4 DEF Requests, Publish
  <2>2. preview' \in Keys /\ gate' \in BOOLEAN
    <3>1. CASE ctl[c].kind = "mix"
      BY <1>4, <2>1, <3>1, FlagAssumption DEF Publish, TypeOK
    <3>2. CASE ctl[c].kind # "mix"
      BY <1>4, <3>2 DEF Publish, TypeOK
    <3>. QED BY <3>1, <3>2
  <2>. QED BY <1>4, <2>1, <2>2, BlankTypes DEF TypeOK, Publish
<1>5. ASSUME NEW position \in {"zero", "moved", "end"}, TBarMove(c, position) PROVE TypeOK'
  <2>. DEFINE e == ctl[c].engine
  <2>1. e \in Engines
    BY <1>0, <1>5 DEF Requests, TBarMove
  <2>2. engine' \in [Engines -> EngineRecords] /\ comp' \in [Engines -> Callbacks]
    <3>1. CASE Finish(e, FALSE, c)
      BY <2>1, <3>1, FinishTypeOK
    <3>2. CASE Finish(e, TRUE, c)
      BY <2>1, <3>2, FinishTypeOK
    <3>3. CASE UNCHANGED <<engine, comp>>
      BY <3>3 DEF TypeOK
    <3>4. CASE engine' = [engine EXCEPT ![e].bar = position] /\ position # "end" /\ UNCHANGED comp
      BY <2>1, <3>4 DEF TypeOK, EngineRecords
    <3>5. engine[e].st \in {"active", "idle"}
      BY <2>1 DEF TypeOK, EngineRecords
    <3>. QED BY <1>5, <3>1, <3>2, <3>3, <3>4, <3>5 DEF TBarMove
  <2>. QED BY <1>5, <2>2, BlankTypes DEF TypeOK, TBarMove, busVars
<1>6. CASE StopEngine(c)
  <2>1. ctl[c].engine \in Engines
    BY <1>0, <1>6 DEF Requests, StopEngine
  <2>2. [ctl[c] EXCEPT !.pc = "unfading", !.engine = NoEngine] \in Requests
    BY <1>0 DEF Requests
  <2>3. engine' \in [Engines -> EngineRecords]
    BY <1>6, <2>1 DEF TypeOK, EngineRecords, StopEngine
  <2>4. ctl' \in [Controllers -> Requests]
    BY <1>6, <2>2, BlankTypes DEF TypeOK, StopEngine
  <2>. QED BY <1>6, <2>3, <2>4 DEF TypeOK, StopEngine, busVars
<1>7. CASE AbortFade(c)
  <2>1. [ctl[c] EXCEPT !.pc = "cutting"] \in Requests
    BY <1>0 DEF Requests
  <2>2. ctl' \in [Controllers -> Requests]
    BY <1>7, <2>1, BlankTypes DEF TypeOK, AbortFade
  <2>. QED BY <1>7, <2>2 DEF TypeOK, AbortFade, busVars
<1>8. CASE CutFade(c)
  <2>1. [ctl[c] EXCEPT !.pc = "following"] \in Requests
    BY <1>0 DEF Requests
  <2>. QED BY <1>8, <2>1 DEF TypeOK, CutFade, busVars
<1>9. CASE CutFollow(c)
  BY <1>9, BlankTypes DEF TypeOK, CutFollow, busVars
<1>. QED BY <1>1, <1>2, <1>3, <1>4, <1>5, <1>6, <1>7, <1>8, <1>9 DEF Continue

\* A callback's step and the watchdog keep the types.
LEMMA EngineStepTypeOK ==
  ASSUME TypeOK, NEW e \in Engines, Callback(e) \/ Watchdog(e) PROVE TypeOK'
<1>0. comp[e] \in Callbacks /\ engine[e] \in EngineRecords
  BY DEF TypeOK
<1>1. CASE CompleteLate(e)
  BY <1>1, BlankTypes DEF TypeOK, CompleteLate, busVars
<1>2. CASE CompleteMix(e)
  <2>. DEFINE target == IF comp[e].aborted \/ transEngine = NoEngine THEN NoSource
                                                              ELSE engine[transEngine].to
              new == IF target = NoSource THEN program ELSE target
  <2>1. target \in Keys
    BY DEF TypeOK, EngineRecords
  <2>2. new \in Keys
    BY <2>1 DEF TypeOK
  <2>3. program' = new /\ preview' = IF target = NoSource THEN preview ELSE program
    BY <1>2 DEF CompleteMix
  <2>4. comp' = [comp EXCEPT ![e] = [comp[e] EXCEPT !.pc = "sync", !.snap = new, !.follow = (target # NoSource)]]
    BY <1>2 DEF CompleteMix, TypeOK
  <2>. HIDE DEF target, new
  <2>5. [comp[e] EXCEPT !.pc = "sync", !.snap = new, !.follow = (target # NoSource)] \in Callbacks
    BY <1>0, <2>2 DEF Callbacks
  <2>6. comp' \in [Engines -> Callbacks]
    BY <2>4, <2>5 DEF TypeOK
  <2>7. program' \in Keys /\ preview' \in Keys
    BY <2>2, <2>3 DEF TypeOK
  <2>. QED BY <1>2, <2>6, <2>7 DEF TypeOK, CompleteMix, States
<1>3. CASE CompleteFade(e)
  <2>. DEFINE end == IF comp[e].aborted THEN Aborted(engine[e].kind) ELSE Completed(engine[e].kind)
  <2>1. end \in States
    BY DEF Aborted, Completed, States
  <2>2. comp' = [comp EXCEPT ![e] = [comp[e] EXCEPT !.pc = "audio", !.follow = (end = "ftb")]]
    BY <1>3 DEF CompleteFade, TypeOK
  <2>3. state' = end
    BY <1>3 DEF CompleteFade
  <2>. HIDE DEF end
  <2>4. [comp[e] EXCEPT !.pc = "audio", !.follow = (end = "ftb")] \in Callbacks
    BY <1>0 DEF Callbacks
  <2>5. comp' \in [Engines -> Callbacks]
    BY <2>2, <2>4 DEF TypeOK
  <2>. QED BY <1>3, <2>1, <2>3, <2>5 DEF TypeOK, CompleteFade
<1>4. CASE CompleteSync(e)
  <2>1. [comp[e] EXCEPT !.pc = "audio"] \in Callbacks
    BY <1>0 DEF Callbacks
  <2>. QED BY <1>4, <2>1 DEF TypeOK, CompleteSync
<1>5. CASE CompleteAudio(e)
  <2>1. [comp[e] EXCEPT !.pc = "follow"] \in Callbacks
    BY <1>0 DEF Callbacks
  <2>2. comp' \in [Engines -> Callbacks]
    BY <1>5, <2>1, BlankTypes DEF TypeOK, CompleteAudio
  <2>. QED BY <1>5, <2>2 DEF TypeOK, CompleteAudio, busVars
<1>6. CASE CompleteFollow(e)
  BY <1>6, BlankTypes DEF TypeOK, CompleteFollow, busVars
<1>7. CASE Watchdog(e)
  <2>1. engine' \in [Engines -> EngineRecords] /\ comp' \in [Engines -> Callbacks]
    BY <1>7, FinishTypeOK DEF Watchdog
  <2>. QED BY <1>7, <2>1 DEF TypeOK, Watchdog, busVars
<1>. QED BY <1>1, <1>2, <1>3, <1>4, <1>5, <1>6, <1>7 DEF Callback

\* Registrations and frames keep the types.
LEMMA SourceStepTypeOK ==
  ASSUME TypeOK, NEW s \in Sources,
         \/ Register(s) \/ Unregister(s) \/ FrameRoute(s) \/ FrameIngest(s) \/ FrameComplete(s)
  PROVE  TypeOK'
<1>1. CASE Register(s)
  BY <1>1 DEF TypeOK, Register
<1>2. CASE Unregister(s)
  BY <1>2 DEF TypeOK, Unregister
<1>3. CASE FrameRoute(s)
  BY <1>3 DEF TypeOK, FrameRoute, busVars
<1>4. CASE FrameIngest(s)
  <2>1. frame[s] \in Engines
    BY <1>4 DEF TypeOK, FrameIngest
  <2>2. engine' \in [Engines -> EngineRecords]
    <3>0. engine[frame[s]] \in EngineRecords
      BY <2>1 DEF TypeOK
    <3>1. [engine[frame[s]] EXCEPT !.fed = TRUE] \in EngineRecords
      BY <3>0 DEF EngineRecords
    <3>2. engine' = engine \/ engine' = [engine EXCEPT ![frame[s]] = [engine[frame[s]] EXCEPT !.fed = TRUE]]
      BY <1>4, <2>1 DEF FrameIngest, TypeOK
    <3>. QED BY <2>1, <3>1, <3>2 DEF TypeOK
  <2>. QED BY <1>4, <2>2 DEF TypeOK, FrameIngest, busVars
<1>5. CASE FrameComplete(s)
  <2>1. frame[s] \in Engines /\ Finish(frame[s], FALSE, s)
    BY <1>5 DEF TypeOK, FrameComplete
  <2>2. engine' \in [Engines -> EngineRecords] /\ comp' \in [Engines -> Callbacks]
    BY <2>1, FinishTypeOK
  <2>. QED BY <1>5, <2>2 DEF TypeOK, FrameComplete, busVars
<1>. QED BY <1>1, <1>2, <1>3, <1>4, <1>5

LEMMA NextTypeOK == TypeOK /\ [Next]_vars => TypeOK'
<1>1. ASSUME TypeOK, Next PROVE TypeOK'
  BY <1>1, RequestTypeOK, ContinueTypeOK, EngineStepTypeOK, SourceStepTypeOK DEF Next
<1>2. ASSUME TypeOK, UNCHANGED vars PROVE TypeOK'
  BY <1>2 DEF TypeOK, vars, busVars
<1>. QED BY <1>1, <1>2

\* Whatever the environment does, every variable keeps its type; in particular a
\* request that has started a transition holds an engine until it has published it.
THEOREM Typing == Spec => []TypeOK
  BY InitTypeOK, NextTypeOK, PTL DEF Spec
-----------------------------------------------------------------------------
(***************************************************************************)
(* As long as requests wait their turn, a transition is handed on without  *)
(* a gap: HandOff is inductive, and the safety properties of the runs      *)
(* follow from it.                                                         *)
(***************************************************************************)

\* A kind's mark is a state in transition, and a different one for each kind.
LEMMA MarkFacts ==
  /\ \A k \in Kinds : InTransition(Marked(k))
  /\ \A k, l \in Kinds : Marked(k) = Marked(l) => k = l
  /\ \A k \in Kinds : ~ InTransition(Aborted(k)) /\ ~ InTransition(Completed(k))
  BY DEF Kinds, InTransition, Marked, Aborted, Completed

LEMMA HandOffInit == Init => HandOff
<1>. SUFFICES ASSUME Init PROVE HandOff
  OBVIOUS
<1>1. TypeOK
  BY InitTypeOK
<1>2. /\ \A c \in Controllers : ctl[c].pc = "idle"
      /\ \A e \in Engines : engine[e].st = "idle" /\ comp[e].pc = "none"
      /\ \A s \in Sources : frame[s] = NoEngine
  BY DEF Init, NoRequest, NewEngine, NoCallback
<1>. QED
  BY <1>1, <1>2 DEF Init, HandOff, OneTransition, Starting, Holding, InTransition, StarterOwnsState,
     StarterHoldsEngine, PublishedOwnsState, RunningIsKnown, CallbackIsPublished, HandsOnPublished,
     NobodyStops, GateIsPublished

\* What a request that starts a transition, and a published engine, say of the state.
LEMMA HandOffFacts ==
  ASSUME HandOff
  PROVE  /\ transEngine # NoEngine => InTransition(state) /\ transEngine \in Engines
         /\ \A c \in Controllers : Starting(c) =>
              InTransition(state) /\ transEngine = NoEngine /\ ctl[c].kind \in Kinds
         /\ \A c \in Controllers : Holding(c) => Starting(c) /\ ctl[c].engine \in Engines
         /\ \A c \in Controllers : ctl[c].pc = "tbar" => ctl[c].engine \in Engines
<1>1. \A c \in Controllers : ctl[c] \in Requests
  BY DEF HandOff, TypeOK
<1>2. \A e \in Engines : engine[e].kind \in Kinds
  BY DEF HandOff, TypeOK, EngineRecords
<1>3. transEngine # NoEngine => InTransition(state) /\ transEngine \in Engines
  BY <1>2, MarkFacts DEF HandOff, TypeOK, PublishedOwnsState
<1>4. \A c \in Controllers : Starting(c) => InTransition(state) /\ transEngine = NoEngine /\ ctl[c].kind \in Kinds
  BY <1>1, MarkFacts DEF HandOff, OneTransition, StarterOwnsState, Starting, Requests
<1>. QED BY <1>1, <1>3, <1>4 DEF Holding, Starting, Requests

\* A request marks the state while no transition is being started or published.
LEMMA MarkHandOff ==
  ASSUME HandOff, TypeOK', NEW c \in Controllers, NEW kind \in Kinds, NEW to, Mark(c, kind, to),
         ~ InTransition(state)
  PROVE  HandOff'
<1>1. transEngine = NoEngine /\ \A d \in Controllers : ~ Starting(d) /\ ~ Holding(d)
  BY HandOffFacts
<1>2. /\ \A d \in Controllers : d # c => ctl'[d] = ctl[d]
      /\ ctl'[c].pc = "starting" /\ ctl'[c].kind = kind
  BY DEF Mark, HandOff, TypeOK
<1>3. UNCHANGED <<transEngine, gate, engine, comp, frame>> /\ state' = Marked(kind)
  BY DEF Mark
<1>4. OneTransition'
  BY <1>1, <1>2, <1>3 DEF OneTransition, Starting
<1>5. StarterOwnsState' /\ StarterHoldsEngine' /\ NobodyStops'
  BY <1>1, <1>2, <1>3 DEF HandOff, StarterOwnsState, StarterHoldsEngine, NobodyStops, Starting, Holding
<1>6. PublishedOwnsState' /\ CallbackIsPublished' /\ RunningIsKnown'
  BY <1>1, <1>2, <1>3 DEF HandOff, PublishedOwnsState, CallbackIsPublished, RunningIsKnown
<1>7. HandsOnPublished'
  BY <1>2, <1>3 DEF HandOff, HandsOnPublished
<1>8. GateIsPublished'
  BY <1>1, <1>3 DEF HandOff, GateIsPublished
<1>9. Starting(c)'
  BY <1>2 DEF Starting
<1>. QED BY <1>4, <1>5, <1>6, <1>7, <1>8, <1>9 DEF HandOff

\* A step that ends no transition and begins none: one request moves among the
\* program counters that have nothing to do with a transition.
LEMMA BystanderHandOff ==
  ASSUME HandOff, TypeOK', NEW c \in Controllers,
         UNCHANGED <<state, transEngine, gate, engine, comp, frame>>,
         \A d \in Controllers : d # c => ctl'[d] = ctl[d],
         ~ Starting(c), ctl'[c].pc \in {"idle", "cutting", "following"}
  PROVE  HandOff'
<1>1. \A d \in Controllers :
        /\ Starting(d)' <=> Starting(d)
        /\ Holding(d)' <=> Holding(d)
        /\ Starting(d) \/ Holding(d) => ctl'[d] = ctl[d]
        /\ ctl'[d].pc = "tbar" => ctl'[d] = ctl[d]
  BY DEF Starting, Holding
<1>2. OneTransition' /\ StarterOwnsState'
  BY <1>1 DEF HandOff, OneTransition, StarterOwnsState
<1>3. StarterHoldsEngine'
  BY <1>1 DEF HandOff, StarterHoldsEngine
<1>4. PublishedOwnsState' /\ CallbackIsPublished' /\ RunningIsKnown'
  BY <1>1 DEF HandOff, PublishedOwnsState, CallbackIsPublished, RunningIsKnown
<1>5. HandsOnPublished' /\ NobodyStops' /\ GateIsPublished'
  BY <1>1 DEF HandOff, HandsOnPublished, NobodyStops, GateIsPublished
<1>. QED BY <1>1, <1>2, <1>3, <1>4, <1>5 DEF HandOff

\* A step that touches nothing but the program, the preview and the registered sources.
LEMMA SourcesHandOff ==
  ASSUME HandOff, TypeOK', UNCHANGED <<state, transEngine, gate, engine, comp, ctl, frame>>
  PROVE  HandOff'
<1>1. OneTransition' /\ StarterOwnsState' /\ StarterHoldsEngine' /\ NobodyStops'
  BY DEF HandOff, OneTransition, StarterOwnsState, StarterHoldsEngine, NobodyStops, Starting, Holding
<1>2. PublishedOwnsState' /\ RunningIsKnown' /\ CallbackIsPublished'
  BY DEF HandOff, PublishedOwnsState, RunningIsKnown, CallbackIsPublished, Holding
<1>3. HandsOnPublished' /\ GateIsPublished'
  BY DEF HandOff, HandsOnPublished, GateIsPublished
<1>. QED BY <1>1, <1>2, <1>3 DEF HandOff, Starting

\* The published engine finishes: its callback takes its place.
LEMMA FinishHandOff ==
  ASSUME HandOff, TypeOK', NEW e \in Engines, NEW aborted \in BOOLEAN,
         NEW p \in Controllers \cup Sources \cup {"watchdog"}, Finish(e, aborted, p),
         transEngine = e,
         UNCHANGED <<state, transEngine, gate>>,
         \A d \in Controllers : ctl'[d] = ctl[d] \/ (ctl[d].pc = "tbar" /\ ctl'[d].pc = "idle"),
         \A s \in Sources : frame'[s] = frame[s] \/ frame'[s] = NoEngine
  PROVE  HandOff'
<1>0. e # NoEngine
  BY EngineAssumption
<1>1. \A d \in Controllers : ~ Starting(d) /\ ~ Holding(d) /\ ~ Starting(d)' /\ ~ Holding(d)'
  BY <1>0, HandOffFacts DEF Starting, Holding
<1>2. /\ engine'[e].st = "idle" /\ engine'[e].kind = engine[e].kind /\ comp'[e].pc = "lock"
      /\ \A f \in Engines : f # e => engine'[f] = engine[f] /\ comp'[f] = comp[f]
  BY DEF Finish, HandOff, TypeOK, EngineRecords, Callbacks, NoCallback
<1>3. OneTransition' /\ StarterOwnsState' /\ StarterHoldsEngine' /\ NobodyStops'
  BY <1>1 DEF HandOff, OneTransition, StarterOwnsState, StarterHoldsEngine, NobodyStops
<1>4. PublishedOwnsState'
  BY <1>2, <1>0 DEF HandOff, PublishedOwnsState
<1>5. \A f \in Engines : engine'[f].st # "active"
  BY <1>1, <1>2 DEF HandOff, RunningIsKnown
<1>6. RunningIsKnown' /\ CallbackIsPublished'
  BY <1>2, <1>5 DEF HandOff, RunningIsKnown, CallbackIsPublished
<1>7. HandsOnPublished'
  <2>1. \A s \in Sources : frame'[s] # NoEngine => frame'[s] \in Engines
    BY DEF TypeOK
  <2>2. \A d \in Controllers : ctl'[d].pc = "tbar" => ctl'[d].engine \in Engines
    BY HandOffFacts
  <2>. QED BY <1>5, <2>1, <2>2 DEF HandsOnPublished
<1>8. GateIsPublished'
  BY DEF HandOff, GateIsPublished
<1>. QED BY <1>0, <1>3, <1>4, <1>6, <1>7, <1>8 DEF HandOff

\* A callback past s.mu: its engine is idle and stays so.
LEMMA LateHandOff ==
  ASSUME HandOff, TypeOK', NEW e \in Engines,
         comp[e].pc \in {"sync", "audio", "follow"}, comp'[e].pc # "lock",
         \A f \in Engines : f # e => comp'[f] = comp[f],
         UNCHANGED <<state, transEngine, gate, engine, ctl, frame>>
  PROVE  HandOff'
<1>1. engine[e].st # "active" /\ transEngine # e
  BY EngineAssumption DEF HandOff, RunningIsKnown, PublishedOwnsState
<1>2. PublishedOwnsState' /\ RunningIsKnown' /\ CallbackIsPublished'
  <2>1. \A c \in Controllers : Holding(c)' <=> Holding(c)
    BY DEF Holding
  <2>2. transEngine # NoEngine => transEngine \in Engines
    BY HandOffFacts
  <2>. QED BY <1>1, <2>1, <2>2 DEF HandOff, PublishedOwnsState, RunningIsKnown, CallbackIsPublished
<1>3. OneTransition' /\ StarterOwnsState' /\ StarterHoldsEngine' /\ NobodyStops' /\ HandsOnPublished'
      /\ GateIsPublished'
  BY DEF HandOff, OneTransition, StarterOwnsState, StarterHoldsEngine, NobodyStops, HandsOnPublished,
     GateIsPublished, Starting, Holding
<1>. QED BY <1>2, <1>3 DEF HandOff, Starting

\* A request of a disciplined client.
LEMMA RequestHandOff ==
  ASSUME HandOff, Disciplined, NEW c \in Controllers, Request(c) PROVE HandOff'
<1>0. TypeOK'
  BY RequestTypeOK DEF HandOff
<1>t. ctl[c].pc = "idle" => ~ Starting(c)
  BY DEF Starting
<1>1. CASE MarkFadeToBlack(c)
  BY <1>0, <1>1, MarkHandOff DEF MarkFadeToBlack, Disciplined, Kinds
<1>2. CASE MarkFadeReverse(c)
  BY <1>0, <1>2, MarkHandOff DEF MarkFadeReverse, InTransition, Kinds
<1>3. CASE TBarRead(c)
  <2>1. /\ \A d \in Controllers : d # c => ctl'[d] = ctl[d]
        /\ ctl'[c].pc = "tbar" /\ ctl'[c].engine = transEngine
        /\ ctl[c].pc = "idle" /\ transEngine # NoEngine
        /\ UNCHANGED <<state, transEngine, gate, engine, comp, frame>>
    BY <1>3 DEF TBarRead, Can, busVars, HandOff, TypeOK, NoRequest
  <2>2. \A d \in Controllers : /\ (Starting(d)' <=> Starting(d)) /\ (Holding(d)' <=> Holding(d))
                               /\ Starting(d) \/ Holding(d) => ctl'[d] = ctl[d]
    BY <2>1 DEF Starting, Holding
  <2>3. OneTransition' /\ StarterOwnsState' /\ StarterHoldsEngine' /\ NobodyStops'
    BY <2>1, <2>2 DEF HandOff, OneTransition, StarterOwnsState, StarterHoldsEngine, NobodyStops
  <2>4. PublishedOwnsState' /\ RunningIsKnown' /\ CallbackIsPublished'
    BY <2>1, <2>2 DEF HandOff, PublishedOwnsState, RunningIsKnown, CallbackIsPublished
  <2>5. HandsOnPublished' /\ GateIsPublished'
    BY <2>1 DEF HandOff, HandsOnPublished, GateIsPublished
  <2>. QED BY <1>0, <2>1, <2>2, <2>3, <2>4, <2>5 DEF HandOff
<1>4. CASE Abort(c)
  BY <1>4 DEF Abort, Can, Disciplined
<1>5. ASSUME NEW s \in Sources, MarkTransition(c, s) PROVE HandOff'
  BY <1>0, <1>5, MarkHandOff DEF MarkTransition, InTransition, Kinds
<1>6. ASSUME NEW s \in Sources, Cut(c, s) PROVE HandOff'
  <2>1. ~ InTransition(state) /\ ~ Starting(c)
    BY <1>6, <1>t DEF Cut, Can, Disciplined
  <2>2. UNCHANGED <<state, transEngine, gate, engine, comp, frame>>
    BY <1>6, <2>1 DEF Cut
  <2>3. ctl'[c].pc = "cutting" /\ \A d \in Controllers : d # c => ctl'[d] = ctl[d]
    BY <1>6, <2>1 DEF Cut, HandOff, TypeOK
  <2>. QED BY <1>0, <2>1, <2>2, <2>3, BystanderHandOff
<1>7. ASSUME NEW s \in Sources, SetPreview(c, s) PROVE HandOff'
  BY <1>0, <1>7, SourcesHandOff DEF SetPreview
<1>. QED BY <1>1, <1>2, <1>3, <1>4, <1>5, <1>6, <1>7 DEF Request

\* The next step of a request under way.
LEMMA ContinueHandOff ==
  ASSUME HandOff, NEW c \in Controllers, Continue(c) PROVE HandOff'
<1>0. TypeOK' /\ ctl[c] \in Requests /\ ctl[c].pc \notin {"stopping", "unfading"}
  BY ContinueTypeOK DEF HandOff, TypeOK, NobodyStops
<1>1. CASE StartRollback(c)
  <2>1. Starting(c) /\ ~ Holding(c)
    BY <1>1 DEF StartRollback, Starting, Holding
  <2>2. transEngine = NoEngine /\ \A d \in Controllers : d # c => ~ Starting(d) /\ ~ Holding(d)
    BY <2>1, HandOffFacts DEF HandOff, OneTransition
  <2>3. /\ ctl'[c].pc = "idle" /\ \A d \in Controllers : d # c => ctl'[d] = ctl[d]
        /\ UNCHANGED <<transEngine, gate, engine, comp, frame>>
        /\ ~ InTransition(state')
    BY <1>1, <2>1, MarkFacts, HandOffFacts DEF StartRollback, HandOff, TypeOK, NoRequest
  <2>4. \A d \in Controllers : ~ Starting(d)' /\ ~ Holding(d)'
    BY <2>2, <2>3 DEF Starting, Holding
  <2>5. \A e \in Engines : engine[e].st # "active"
    BY <2>1, <2>2, EngineAssumption DEF HandOff, RunningIsKnown
  <2>6. ~ gate
    BY <2>2 DEF HandOff, GateIsPublished
  <2>7. \A e \in Engines : comp[e].pc # "lock"
    BY <2>2, EngineAssumption DEF HandOff, CallbackIsPublished
  <2>8. OneTransition' /\ StarterOwnsState' /\ StarterHoldsEngine' /\ GateIsPublished'
    BY <2>3, <2>4, <2>6 DEF OneTransition, StarterOwnsState, StarterHoldsEngine, GateIsPublished
  <2>9. PublishedOwnsState' /\ RunningIsKnown' /\ CallbackIsPublished'
    BY <2>2, <2>3, <2>5, <2>7 DEF PublishedOwnsState, RunningIsKnown, CallbackIsPublished
  <2>10. HandsOnPublished' /\ NobodyStops'
    BY <2>3 DEF HandOff, HandsOnPublished, NobodyStops
  <2>. QED BY <1>0, <2>3, <2>8, <2>9, <2>10 DEF HandOff
<1>2. CASE StartEngine(c)
  <2>1. PICK e \in Engines :
           /\ Fresh(e)
           /\ engine' = [engine EXCEPT ![e] = [NewEngine EXCEPT !.st = "active", !.kind = ctl[c].kind,
                                                   !.from = ctl[c].from, !.to = ctl[c].to]]
           /\ ctl' = [ctl EXCEPT ![c].pc = "fading", ![c].engine = e]
    BY <1>2 DEF StartEngine
  <2>2. /\ engine'[e].st = "active" /\ engine'[e].kind = ctl[c].kind /\ engine'[e].to = ctl[c].to
        /\ \A f \in Engines : f # e => engine'[f] = engine[f]
    BY <2>1 DEF HandOff, TypeOK, NewEngine
  <2>3. /\ ctl'[c].pc = "fading" /\ ctl'[c].engine = e
        /\ ctl'[c].kind = ctl[c].kind /\ ctl'[c].to = ctl[c].to
        /\ \A d \in Controllers : d # c => ctl'[d] = ctl[d]
    BY <2>1 DEF HandOff, TypeOK, Requests
  <2>4. /\ transEngine # e /\ comp[e].pc = "none"
        /\ \A d \in Controllers : ctl[d].engine # e
        /\ \A s \in Sources : frame[s] # e
    BY <2>1 DEF Fresh
  <2>5. UNCHANGED <<state, transEngine, gate, comp, frame>> /\ Starting(c) /\ ~ Holding(c)
    BY <1>2 DEF StartEngine, busVars, Starting, Holding
  <2>6. \A d \in Controllers : /\ (Starting(d)' <=> Starting(d))
                               /\ (Holding(d)' <=> d = c \/ Holding(d))
    BY <2>3, <2>5 DEF Starting, Holding
  <2>7. \A d \in Controllers : d # c => ~ Starting(d) /\ ~ Holding(d)
    BY <2>5, HandOffFacts DEF HandOff, OneTransition
  <2>8. transEngine = NoEngine
    BY <2>5, HandOffFacts
  <2>9. OneTransition' /\ StarterOwnsState' /\ NobodyStops' /\ GateIsPublished'
    BY <2>3, <2>5, <2>6, <2>7, <2>8
       DEF HandOff, OneTransition, StarterOwnsState, NobodyStops, GateIsPublished
  <2>10. StarterHoldsEngine'
    BY <2>2, <2>3, <2>6, <2>7 DEF StarterHoldsEngine
  <2>11. PublishedOwnsState' /\ CallbackIsPublished' /\ RunningIsKnown'
    BY <2>2, <2>3, <2>4, <2>5, <2>6, <2>7, <2>8
       DEF HandOff, PublishedOwnsState, CallbackIsPublished, RunningIsKnown
  <2>12. HandsOnPublished'
    <3>1. \A s \in Sources : frame[s] # NoEngine => frame[s] \in Engines
      BY DEF HandOff, TypeOK
    <3>. QED BY <2>2, <2>3, <2>4, <2>5, <3>1, HandOffFacts DEF HandOff, HandsOnPublished
  <2>. QED BY <1>0, <2>5, <2>6, <2>9, <2>10, <2>11, <2>12 DEF HandOff
<1>3. CASE StartFade(c)
  <2>1. /\ UNCHANGED <<state, transEngine, gate, engine, comp, frame>>
        /\ \A d \in Controllers : d # c => ctl'[d] = ctl[d]
        /\ ctl'[c].pc = "publishing" /\ ctl'[c].engine = ctl[c].engine
        /\ ctl'[c].kind = ctl[c].kind /\ ctl'[c].to = ctl[c].to
        /\ ctl[c].pc = "fading"
    BY <1>0, <1>3 DEF StartFade, busVars, HandOff, TypeOK, Requests
  <2>2. \A d \in Controllers : /\ (Starting(d)' <=> Starting(d)) /\ (Holding(d)' <=> Holding(d))
                               /\ ctl'[d].engine = ctl[d].engine
                               /\ ctl'[d].kind = ctl[d].kind /\ ctl'[d].to = ctl[d].to
    BY <2>1 DEF Starting, Holding
  <2>3. OneTransition' /\ StarterOwnsState' /\ StarterHoldsEngine' /\ NobodyStops' /\ GateIsPublished'
    BY <2>1, <2>2
       DEF HandOff, OneTransition, StarterOwnsState, StarterHoldsEngine, NobodyStops, GateIsPublished
  <2>4. PublishedOwnsState' /\ CallbackIsPublished' /\ RunningIsKnown' /\ HandsOnPublished'
    BY <2>1, <2>2
       DEF HandOff, PublishedOwnsState, CallbackIsPublished, RunningIsKnown, HandsOnPublished
  <2>. QED BY <1>0, <2>1, <2>2, <2>3, <2>4 DEF HandOff
<1>4. CASE Publish(c)
  <2>1. Starting(c) /\ Holding(c) /\ ctl[c].engine \in Engines
    BY <1>0, <1>4 DEF Publish, Starting, Holding, Requests
  <2>2. /\ transEngine = NoEngine /\ state = Marked(ctl[c].kind)
        /\ \A d \in Controllers : d # c => ~ Starting(d) /\ ~ Holding(d)
        /\ engine[ctl[c].engine].st = "active" /\ engine[ctl[c].engine].kind = ctl[c].kind
    BY <2>1, HandOffFacts DEF HandOff, OneTransition, StarterOwnsState, StarterHoldsEngine
  <2>3. /\ transEngine' = ctl[c].engine /\ ctl'[c].pc = "idle"
        /\ \A d \in Controllers : d # c => ctl'[d] = ctl[d]
        /\ UNCHANGED <<state, engine, comp, frame>>
    BY <1>4 DEF Publish, HandOff, TypeOK, NoRequest
  <2>4. \A d \in Controllers : ~ Starting(d)' /\ ~ Holding(d)'
    BY <2>2, <2>3 DEF Starting, Holding
  <2>5. \A e \in Engines : engine[e].st = "active" => e = ctl[c].engine
    BY <2>2, EngineAssumption DEF HandOff, RunningIsKnown
  <2>6. \A e \in Engines : comp[e].pc # "lock"
    BY <2>2, EngineAssumption DEF HandOff, CallbackIsPublished
  <2>7. OneTransition' /\ StarterOwnsState' /\ StarterHoldsEngine' /\ NobodyStops'
    BY <2>3, <2>4 DEF HandOff, OneTransition, StarterOwnsState, StarterHoldsEngine, NobodyStops
  <2>8. PublishedOwnsState' /\ CallbackIsPublished' /\ RunningIsKnown'
    BY <2>2, <2>3, <2>5, <2>6
       DEF HandOff, PublishedOwnsState, CallbackIsPublished, RunningIsKnown
  <2>9. HandsOnPublished'
    <3>1. \A s \in Sources : frame[s] # NoEngine => frame[s] \in Engines
      BY DEF HandOff, TypeOK
    <3>. QED BY <2>3, <2>5, <3>1, HandOffFacts DEF HandsOnPublished
  <2>10. GateIsPublished'
    <3>1. ~ gate
      BY <2>2 DEF HandOff, GateIsPublished
    <3>. QED BY <1>4, <2>1, <2>2, <2>3, <3>1, EngineAssumption DEF Publish, GateIsPublished, Marked
  <2>11. transEngine' # NoEngine
    BY <2>1, <2>3, EngineAssumption
  <2>. QED BY <1>0, <2>7, <2>8, <2>9, <2>10, <2>11 DEF HandOff
<1>5. ASSUME NEW position \in {"zero", "moved", "end"}, TBarMove(c, position) PROVE HandOff'
  <2>. DEFINE e == ctl[c].engine
  <2>1. e \in Engines /\ ctl[c].pc = "tbar"
    BY <1>0, <1>5 DEF TBarMove, Requests
  <2>2. /\ UNCHANGED <<state, transEngine, gate, frame>>
        /\ ctl'[c].pc = "idle" /\ \A d \in Controllers : d # c => ctl'[d] = ctl[d]
    BY <1>5 DEF TBarMove, busVars, HandOff, TypeOK, NoRequest
  <2>3. CASE engine[e].st = "active" /\ (Finish(e, FALSE, c) \/ Finish(e, TRUE, c))
    <3>1. transEngine = e
      BY <2>1, <2>3 DEF HandOff, HandsOnPublished
    <3>. HIDE DEF e
    <3>2. /\ \A d \in Controllers : ctl'[d] = ctl[d] \/ (ctl[d].pc = "tbar" /\ ctl'[d].pc = "idle")
          /\ \A s \in Sources : frame'[s] = frame[s] \/ frame'[s] = NoEngine
          /\ UNCHANGED <<state, transEngine, gate>>
          /\ c \in Controllers \cup Sources \cup {"watchdog"}
      BY <2>1, <2>2
    <3>3. ASSUME NEW aborted \in BOOLEAN, Finish(e, aborted, c) PROVE HandOff'
      BY <1>0, <2>1, <3>1, <3>2, <3>3, FinishHandOff, Zenon
    <3>4. CASE Finish(e, FALSE, c)
      BY <3>3, <3>4, Zenon
    <3>5. CASE Finish(e, TRUE, c)
      BY <3>3, <3>5, Zenon
    <3>. QED BY <2>3, <3>4, <3>5
  <2>4. CASE UNCHANGED <<engine, comp>>
    BY <1>0, <2>1, <2>2, <2>4, BystanderHandOff DEF Starting
  <2>5. CASE engine' = [engine EXCEPT ![e].bar = position] /\ UNCHANGED comp
    <3>1. \A f \in Engines : /\ engine'[f].st = engine[f].st /\ engine'[f].kind = engine[f].kind
                            /\ engine'[f].to = engine[f].to
      BY <2>1, <2>5 DEF HandOff, TypeOK, EngineRecords
    <3>2. \A d \in Controllers : /\ (Starting(d)' <=> Starting(d)) /\ (Holding(d)' <=> Holding(d))
                                 /\ (Starting(d) \/ Holding(d) => ctl'[d] = ctl[d])
                                 /\ (ctl'[d].pc = "tbar" => ctl'[d] = ctl[d])
      BY <2>1, <2>2 DEF Starting, Holding
    <3>3. OneTransition' /\ StarterOwnsState' /\ NobodyStops' /\ GateIsPublished'
      BY <2>2, <3>2 DEF HandOff, OneTransition, StarterOwnsState, NobodyStops, GateIsPublished
    <3>4. StarterHoldsEngine'
      BY <3>1, <3>2, HandOffFacts DEF HandOff, StarterHoldsEngine
    <3>5. PublishedOwnsState' /\ CallbackIsPublished' /\ RunningIsKnown'
      BY <2>2, <2>5, <3>1, <3>2, HandOffFacts
         DEF HandOff, PublishedOwnsState, CallbackIsPublished, RunningIsKnown
    <3>6. HandsOnPublished'
      <4>1. \A s \in Sources : frame[s] # NoEngine => frame[s] \in Engines
        BY DEF HandOff, TypeOK
      <4>. QED BY <2>2, <3>1, <3>2, <4>1, HandOffFacts DEF HandOff, HandsOnPublished
    <3>. QED BY <1>0, <2>2, <3>2, <3>3, <3>4, <3>5, <3>6 DEF HandOff
  <2>6. engine[e].st \in {"active", "idle"}
    BY <2>1 DEF HandOff, TypeOK, EngineRecords
  <2>. QED BY <1>5, <2>3, <2>4, <2>5, <2>6 DEF TBarMove
<1>6. CASE StopEngine(c)
  BY <1>0, <1>6 DEF StopEngine
<1>7. CASE AbortFade(c)
  BY <1>0, <1>7 DEF AbortFade
<1>8. CASE CutFade(c)
  <2>1. /\ UNCHANGED <<state, transEngine, gate, engine, comp, frame>>
        /\ ctl'[c].pc = "following" /\ \A d \in Controllers : d # c => ctl'[d] = ctl[d]
        /\ ~ Starting(c)
    BY <1>0, <1>8 DEF CutFade, busVars, HandOff, TypeOK, Requests, Starting
  <2>. QED BY <1>0, <2>1, BystanderHandOff
<1>9. CASE CutFollow(c)
  <2>1. /\ UNCHANGED <<state, transEngine, gate, engine, comp, frame>>
        /\ ctl'[c].pc = "idle" /\ \A d \in Controllers : d # c => ctl'[d] = ctl[d]
        /\ ~ Starting(c)
    BY <1>0, <1>9 DEF CutFollow, busVars, HandOff, TypeOK, NoRequest, Starting
  <2>. QED BY <1>0, <2>1, BystanderHandOff
<1>. QED BY <1>1, <1>2, <1>3, <1>4, <1>5, <1>6, <1>7, <1>8, <1>9 DEF Continue

\* The callback of an engine takes the transition off the switcher.
LEMMA CompleteHandOff ==
  ASSUME HandOff, TypeOK', NEW e \in Engines, comp[e].pc = "lock",
         ~ InTransition(state'), transEngine' = NoEngine, gate' = FALSE,
         comp'[e].pc \in {"sync", "audio"},
         \A f \in Engines : f # e => comp'[f] = comp[f],
         UNCHANGED <<engine, ctl, frame>>
  PROVE  HandOff'
<1>1. transEngine = e /\ e # NoEngine
  BY EngineAssumption DEF HandOff, CallbackIsPublished
<1>2. \A d \in Controllers : ~ Starting(d) /\ ~ Holding(d) /\ ~ Starting(d)' /\ ~ Holding(d)'
  BY <1>1, HandOffFacts DEF Starting, Holding
<1>3. \A f \in Engines : engine[f].st # "active" /\ comp'[f].pc # "lock"
  BY <1>1, <1>2 DEF HandOff, RunningIsKnown, CallbackIsPublished
<1>4. OneTransition' /\ StarterOwnsState' /\ StarterHoldsEngine' /\ NobodyStops' /\ GateIsPublished'
  BY <1>2 DEF HandOff, OneTransition, StarterOwnsState, StarterHoldsEngine, NobodyStops, GateIsPublished
<1>5. PublishedOwnsState' /\ CallbackIsPublished' /\ RunningIsKnown'
  BY <1>3 DEF PublishedOwnsState, CallbackIsPublished, RunningIsKnown
<1>6. HandsOnPublished'
  <2>1. \A s \in Sources : frame[s] # NoEngine => frame[s] \in Engines
    BY DEF HandOff, TypeOK
  <2>. QED BY <1>3, <2>1, HandOffFacts DEF HandsOnPublished
<1>. QED BY <1>4, <1>5, <1>6 DEF HandOff

LEMMA EngineStepHandOff ==
  ASSUME HandOff, NEW e \in Engines, Callback(e) \/ Watchdog(e) PROVE HandOff'
<1>0. TypeOK' /\ comp[e] \in Callbacks
  BY EngineStepTypeOK DEF HandOff, TypeOK
<1>1. CASE CompleteLate(e)
  BY <1>1, HandOffFacts, EngineAssumption DEF CompleteLate, HandOff, CallbackIsPublished
<1>2. CASE CompleteMix(e)
  <2>1. /\ comp'[e].pc = "sync" /\ \A f \in Engines : f # e => comp'[f] = comp[f]
        /\ comp[e].pc = "lock" /\ ~ InTransition(state') /\ transEngine' = NoEngine /\ gate' = FALSE
        /\ UNCHANGED <<engine, ctl, frame>>
    BY <1>0, <1>2, SMTT(60) DEF CompleteMix, HandOff, TypeOK, Callbacks, InTransition
  <2>. QED BY <1>0, <2>1, CompleteHandOff
<1>3. CASE CompleteFade(e)
  <2>1. /\ comp'[e].pc = "audio" /\ \A f \in Engines : f # e => comp'[f] = comp[f]
        /\ comp[e].pc = "lock" /\ transEngine' = NoEngine
        /\ UNCHANGED <<gate, engine, ctl, frame>>
    BY <1>0, <1>3 DEF CompleteFade, HandOff, TypeOK, Callbacks
  <2>2. ~ InTransition(state')
    <3>1. engine[e].kind \in Kinds
      BY DEF HandOff, TypeOK, EngineRecords
    <3>. QED BY <1>3, <3>1, MarkFacts DEF CompleteFade
  <2>3. transEngine = e /\ e # NoEngine
    BY <2>1, EngineAssumption DEF HandOff, CallbackIsPublished
  <2>4. gate = FALSE
    <3>1. state = Marked(engine[e].kind) /\ engine[e].kind \in {"ftb", "ftb_reverse"}
      BY <1>3, <2>3 DEF CompleteFade, HandOff, TypeOK, EngineRecords, Kinds, PublishedOwnsState
    <3>2. state # "transitioning"
      BY <3>1 DEF Marked
    <3>. QED BY <3>2 DEF HandOff, TypeOK, GateIsPublished
  <2>. QED BY <1>0, <2>1, <2>2, <2>4, CompleteHandOff
<1>4. CASE CompleteSync(e)
  <2>1. /\ comp'[e].pc = "audio" /\ comp[e].pc = "sync" /\ \A f \in Engines : f # e => comp'[f] = comp[f]
        /\ UNCHANGED <<state, transEngine, gate, engine, ctl, frame>>
    BY <1>0, <1>4 DEF CompleteSync, HandOff, TypeOK, Callbacks
  <2>. QED BY <1>0, <2>1, LateHandOff
<1>5. CASE CompleteAudio(e)
  <2>1. /\ comp'[e].pc # "lock" /\ comp[e].pc = "audio" /\ \A f \in Engines : f # e => comp'[f] = comp[f]
        /\ UNCHANGED <<state, transEngine, gate, engine, ctl, frame>>
    BY <1>0, <1>5 DEF CompleteAudio, busVars, HandOff, TypeOK, Callbacks, NoCallback
  <2>. QED BY <1>0, <2>1, LateHandOff
<1>6. CASE CompleteFollow(e)
  <2>1. /\ comp'[e].pc # "lock" /\ comp[e].pc = "follow" /\ \A f \in Engines : f # e => comp'[f] = comp[f]
        /\ UNCHANGED <<state, transEngine, gate, engine, ctl, frame>>
    BY <1>6 DEF CompleteFollow, busVars, HandOff, TypeOK, NoCallback
  <2>. QED BY <1>0, <2>1, LateHandOff
<1>7. CASE Watchdog(e)
  <2>1. transEngine = e
    BY <1>7 DEF Watchdog, HandOff, RunningIsKnown, Holding
  <2>2. Finish(e, TRUE, "watchdog") /\ UNCHANGED <<state, transEngine, gate>>
    BY <1>7 DEF Watchdog, busVars
  <2>3. \A d \in Controllers : ctl'[d] = ctl[d] \/ (ctl[d].pc = "tbar" /\ ctl'[d].pc = "idle")
    BY <1>7 DEF Watchdog, busVars
  <2>4. \A s \in Sources : frame'[s] = frame[s] \/ frame'[s] = NoEngine
    BY <1>7 DEF Watchdog, busVars
  <2>5. TRUE \in BOOLEAN /\ "watchdog" \in Controllers \cup Sources \cup {"watchdog"} /\ TypeOK'
    BY <1>0
  <2>. QED BY <2>1, <2>2, <2>3, <2>4, <2>5, FinishHandOff, Zenon
<1>. QED BY <1>1, <1>2, <1>3, <1>4, <1>5, <1>6, <1>7 DEF Callback

LEMMA SourceStepHandOff ==
  ASSUME HandOff, NEW s \in Sources,
         \/ Register(s) \/ Unregister(s) \/ FrameRoute(s) \/ FrameIngest(s) \/ FrameComplete(s)
  PROVE  HandOff'
<1>0. TypeOK'
  BY SourceStepTypeOK DEF HandOff
<1>1. CASE Register(s)
  BY <1>0, <1>1, SourcesHandOff DEF Register
<1>2. CASE Unregister(s)
  BY <1>0, <1>2, SourcesHandOff DEF Unregister
<1>3. CASE FrameRoute(s)
  <2>1. /\ UNCHANGED <<state, transEngine, gate, engine, comp, ctl>>
        /\ frame'[s] = transEngine /\ \A r \in Sources : r # s => frame'[r] = frame[r]
    BY <1>3 DEF FrameRoute, busVars, HandOff, TypeOK
  <2>2. OneTransition' /\ StarterOwnsState' /\ StarterHoldsEngine' /\ NobodyStops' /\ GateIsPublished'
    BY <2>1 DEF HandOff, OneTransition, StarterOwnsState, StarterHoldsEngine, NobodyStops,
       GateIsPublished,
       Starting, Holding
  <2>3. PublishedOwnsState' /\ RunningIsKnown' /\ CallbackIsPublished' /\ HandsOnPublished'
    BY <2>1 DEF HandOff, PublishedOwnsState, RunningIsKnown, CallbackIsPublished, HandsOnPublished,
       Holding
  <2>. QED BY <1>0, <2>1, <2>2, <2>3 DEF HandOff, Starting
<1>4. CASE FrameIngest(s)
  <2>1. frame[s] \in Engines
    BY <1>4 DEF FrameIngest, HandOff, TypeOK
  <2>2. \A e \in Engines : /\ engine'[e].st = engine[e].st /\ engine'[e].kind = engine[e].kind
                          /\ engine'[e].to = engine[e].to
    BY <1>4, <2>1 DEF FrameIngest, HandOff, TypeOK, EngineRecords
  <2>3. /\ UNCHANGED <<state, transEngine, gate, comp, ctl>>
        /\ frame'[s] = NoEngine /\ \A r \in Sources : r # s => frame'[r] = frame[r]
    BY <1>4 DEF FrameIngest, busVars, HandOff, TypeOK
  <2>4. OneTransition' /\ StarterOwnsState' /\ NobodyStops' /\ GateIsPublished'
    BY <2>3 DEF HandOff, OneTransition, StarterOwnsState, NobodyStops, GateIsPublished, Starting
  <2>5. StarterHoldsEngine' /\ PublishedOwnsState' /\ RunningIsKnown' /\ CallbackIsPublished'
    BY <2>2, <2>3, HandOffFacts
       DEF HandOff, StarterHoldsEngine, PublishedOwnsState, RunningIsKnown, CallbackIsPublished, Holding
  <2>6. HandsOnPublished'
    <3>1. \A r \in Sources : frame[r] # NoEngine => frame[r] \in Engines
      BY DEF HandOff, TypeOK
    <3>. QED BY <2>2, <2>3, <3>1, HandOffFacts DEF HandOff, HandsOnPublished
  <2>. QED BY <1>0, <2>3, <2>4, <2>5, <2>6 DEF HandOff, Starting
<1>5. CASE FrameComplete(s)
  <2>1. /\ frame[s] \in Engines /\ frame[s] # NoEngine /\ engine[frame[s]].st = "active"
        /\ Finish(frame[s], FALSE, s)
        /\ UNCHANGED <<state, transEngine, gate, ctl>>
        /\ \A r \in Sources : frame'[r] = frame[r] \/ frame'[r] = NoEngine
    BY <1>5 DEF FrameComplete, busVars, HandOff, TypeOK
  <2>2. transEngine = frame[s]
    BY <2>1 DEF HandOff, HandsOnPublished
  <2>3. \A d \in Controllers : ctl'[d] = ctl[d] \/ (ctl[d].pc = "tbar" /\ ctl'[d].pc = "idle")
    BY <2>1
  <2>. QED BY <1>0, <2>1, <2>2, <2>3, FinishHandOff, Zenon
<1>. QED BY <1>1, <1>2, <1>3, <1>4, <1>5

LEMMA NextHandOff ==
  ASSUME Disciplined PROVE HandOff /\ [Next]_vars => HandOff'
<1>1. ASSUME HandOff, Next PROVE HandOff'
  <2>1. ASSUME NEW c \in Controllers, Request(c) \/ Continue(c) PROVE HandOff'
    BY <1>1, <2>1, RequestHandOff, ContinueHandOff
  <2>2. ASSUME NEW e \in Engines, Callback(e) \/ Watchdog(e) PROVE HandOff'
    BY <1>1, <2>2, EngineStepHandOff
  <2>3. ASSUME NEW s \in Sources,
               \/ Register(s) \/ Unregister(s) \/ FrameRoute(s) \/ FrameIngest(s) \/ FrameComplete(s)
        PROVE  HandOff'
    BY <1>1, <2>3, SourceStepHandOff
  <2>. QED BY <1>1, <2>1, <2>2, <2>3 DEF Next
<1>2. ASSUME HandOff, UNCHANGED vars PROVE HandOff'
  <2>1. TypeOK'
    BY <1>2, NextTypeOK DEF HandOff
  <2>. QED BY <1>2, <2>1, SourcesHandOff DEF vars, busVars
<1>. QED BY <1>1, <1>2

\* If no request cuts into, repeats or aborts a transition, every transition is handed
\* on from the request that marked the state to its engine and to its callback, with
\* nobody else's engine, callback, frame or T-bar in between (StartTransition and
\* FadeToBlack release s.mu while they work; the callbacks run without it).
THEOREM HandedOn ==
  ASSUME Disciplined PROVE Spec => []HandOff
<1>1. Init => HandOff
  BY HandOffInit
<1>2. HandOff /\ [Next]_vars => HandOff'
  BY NextHandOff
<1>. QED BY <1>1, <1>2, PTL DEF Spec

\* Every transition has somebody who will end it.
THEOREM TransitionsAreDriven ==
  ASSUME Disciplined PROVE Spec => []Driven
<1>1. HandOff => Driven
  BY HandOffFacts DEF HandOff, Driven, PublishedOwnsState, Starting
<1>. QED BY <1>1, HandedOn, PTL

\* The window in which a start works without the lock admits no second transition.
THEOREM OneTransitionAtATime ==
  ASSUME Disciplined PROVE Spec => []OneTransition
<1>1. HandOff => OneTransition
  BY DEF HandOff
<1>. QED BY <1>1, HandedOn, PTL

\* No engine is left running that nothing but its watchdog will stop.
THEOREM EnginesAreOwned ==
  ASSUME Disciplined PROVE Spec => []NoOrphan
<1>1. HandOff => NoOrphan
  BY DEF HandOff, RunningIsKnown, Holding, NoOrphan
<1>. QED BY <1>1, HandedOn, PTL

\* Whichever completion handler takes s.mu during a transition is that transition's own.
THEOREM CallbacksMatch ==
  ASSUME Disciplined PROVE Spec => []RightHandler
<1>1. HandOff => RightHandler
  BY EngineAssumption DEF HandOff, CallbackIsPublished, PublishedOwnsState, RightHandler
<1>. QED BY <1>1, HandedOn, PTL

\* The processing loop's drop flag is up only during a mix.
THEOREM GateIsMix ==
  ASSUME Disciplined PROVE Spec => []GateOnlyInMix
<1>1. HandOff => GateOnlyInMix
  BY DEF HandOff, GateIsPublished, GateOnlyInMix
<1>. QED BY <1>1, HandedOn, PTL

\* validTransitions, which transitionState only warns about, is never left.
THEOREM StatesFollow ==
  ASSUME Disciplined PROVE Spec => StateMachine
<1>1. HandOff /\ [Next]_vars => [state' # state => state' \in ValidNext(state)]_vars
  <2>. SUFFICES ASSUME HandOff, Next PROVE state' # state => state' \in ValidNext(state)
    OBVIOUS
  <2>1. ASSUME NEW c \in Controllers, Request(c) PROVE state' # state => state' \in ValidNext(state)
    <3>1. CASE MarkFadeToBlack(c)
      <4>1. state = "idle"
        BY <3>1 DEF MarkFadeToBlack, Disciplined, HandOff, TypeOK, States, InTransition
      <4>. QED BY <3>1, <4>1 DEF MarkFadeToBlack, Mark, Marked, ValidNext
    <3>2. CASE MarkFadeReverse(c)
      BY <3>2 DEF MarkFadeReverse, Mark, Marked, ValidNext
    <3>3. CASE TBarRead(c)
      BY <3>3 DEF TBarRead, busVars
    <3>4. CASE Abort(c)
      BY <3>4 DEF Abort, Can, Disciplined
    <3>5. ASSUME NEW s \in Sources, MarkTransition(c, s) PROVE state' # state => state' \in ValidNext(state)
      BY <3>5 DEF MarkTransition, Mark, Marked, ValidNext
    <3>6. ASSUME NEW s \in Sources, Cut(c, s) \/ SetPreview(c, s) PROVE state' = state
      BY <3>6 DEF Cut, SetPreview, Disciplined
    <3>. QED BY <2>1, <3>1, <3>2, <3>3, <3>4, <3>5, <3>6 DEF Request
  <2>2. ASSUME NEW c \in Controllers, Continue(c) PROVE state' # state => state' \in ValidNext(state)
    <3>1. CASE StartRollback(c)
      <4>1. state = Marked(ctl[c].kind) /\ ctl[c].kind \in Kinds
        BY <3>1, HandOffFacts DEF StartRollback, HandOff, StarterOwnsState, Starting
      <4>. QED BY <3>1, <4>1 DEF StartRollback, Marked, Aborted, ValidNext, Kinds
    <3>2. CASE ~ StartRollback(c)
      BY <2>2, <3>2 DEF Continue, StartEngine, StartFade, Publish, TBarMove, StopEngine, AbortFade,
         CutFade,
         CutFollow, busVars
    <3>. QED BY <3>1, <3>2
  <2>3. ASSUME NEW e \in Engines, Callback(e) \/ Watchdog(e)
        PROVE  state' # state => state' \in ValidNext(state)
    <3>1. comp[e].pc = "lock" => state = Marked(engine[e].kind) /\ engine[e].kind \in Kinds
      BY EngineAssumption DEF HandOff, TypeOK, EngineRecords, CallbackIsPublished, PublishedOwnsState
    <3>2. CASE CompleteMix(e)
      BY <3>1, <3>2 DEF CompleteMix, Marked, ValidNext
    <3>3. CASE CompleteFade(e)
      BY <3>1, <3>3 DEF CompleteFade, Marked, Aborted, Completed, ValidNext, Kinds
    <3>. QED BY <2>3, <3>2, <3>3 DEF Callback, CompleteLate, CompleteSync, CompleteAudio,
       CompleteFollow,
                Watchdog, busVars
  <2>4. ASSUME NEW s \in Sources,
               \/ Register(s) \/ Unregister(s) \/ FrameRoute(s) \/ FrameIngest(s) \/ FrameComplete(s)
        PROVE  state' = state
    BY <2>4 DEF Register, Unregister, FrameRoute, FrameIngest, FrameComplete, busVars
  <2>. QED BY <2>1, <2>2, <2>3, <2>4 DEF Next
<1>. QED BY <1>1, HandedOn, PTL DEF Spec, StateMachine
-----------------------------------------------------------------------------
(* The program is a registered source: a mix may arrive at its target only *)
(* because the target cannot have left while the mix was on its way.       *)

OnAir == HandOff /\ ProgramRegistered /\ TargetRegistered

LEMMA OnAirRequest ==
  ASSUME OnAir, Disciplined, NEW c \in Controllers, Request(c) PROVE (ProgramRegistered /\ TargetRegistered)'
<1>0. \A d \in Controllers : Starting(d) => transEngine = NoEngine /\ InTransition(state)
  BY HandOffFacts DEF OnAir
<1>m. ASSUME NEW kind \in Kinds, NEW to, Mark(c, kind, to), kind = "mix" => to \in registered
      PROVE  (ProgramRegistered /\ TargetRegistered)'
  <2>1. /\ ctl'[c].kind = kind /\ ctl'[c].to = to
        /\ \A d \in Controllers : d # c => ctl'[d] = ctl[d]
        /\ UNCHANGED <<program, registered, transEngine, engine>>
    BY <1>m DEF Mark, OnAir, HandOff, TypeOK
  <2>. QED BY <1>m, <2>1 DEF OnAir, ProgramRegistered, TargetRegistered, Starting
<1>k. ASSUME UNCHANGED <<program, registered, transEngine, engine>>,
             \A d \in Controllers : ctl'[d] = ctl[d] \/ ~ Starting(d)'
      PROVE  (ProgramRegistered /\ TargetRegistered)'
  BY <1>k DEF OnAir, ProgramRegistered, TargetRegistered, Starting
<1>1. CASE MarkFadeToBlack(c)
  BY <1>1, <1>m DEF MarkFadeToBlack, Kinds
<1>2. CASE MarkFadeReverse(c)
  BY <1>2, <1>m DEF MarkFadeReverse, Kinds
<1>3. CASE TBarRead(c)
  <2>1. /\ UNCHANGED <<program, registered, transEngine, engine>>
        /\ \A d \in Controllers : ctl'[d] = ctl[d] \/ ctl'[d].pc = "tbar"
    BY <1>3 DEF TBarRead, busVars, OnAir, HandOff, TypeOK, NoRequest
  <2>. QED BY <1>k, <2>1 DEF Starting
<1>4. CASE Abort(c)
  BY <1>4 DEF Abort, Can, Disciplined
<1>5. ASSUME NEW s \in Sources, MarkTransition(c, s) PROVE (ProgramRegistered /\ TargetRegistered)'
  BY <1>5, <1>m DEF MarkTransition, Kinds
<1>6. ASSUME NEW s \in Sources, Cut(c, s) PROVE (ProgramRegistered /\ TargetRegistered)'
  <2>1. ~ InTransition(state) /\ s \in registered /\ program' = s
        /\ UNCHANGED <<registered, engine>> /\ transEngine' = transEngine
    BY <1>6 DEF Cut, Can, Disciplined
  <2>2. \A d \in Controllers : ctl'[d] = ctl[d] \/ ctl'[d].pc = "cutting"
    BY <1>6, <2>1 DEF Cut, OnAir, HandOff, TypeOK
  <2>. QED BY <2>1, <2>2 DEF OnAir, ProgramRegistered, TargetRegistered, Starting
<1>7. ASSUME NEW s \in Sources, SetPreview(c, s) PROVE (ProgramRegistered /\ TargetRegistered)'
  BY <1>7, <1>k DEF SetPreview
<1>. QED BY <1>1, <1>2, <1>3, <1>4, <1>5, <1>6, <1>7 DEF Request

LEMMA OnAirContinue ==
  ASSUME OnAir, NEW c \in Controllers, Continue(c) PROVE (ProgramRegistered /\ TargetRegistered)'
<1>0. ctl[c] \in Requests /\ (transEngine # NoEngine => transEngine \in Engines)
  BY HandOffFacts DEF OnAir, HandOff, TypeOK
<1>r. program' = program /\ registered' = registered
  BY DEF Continue, StartRollback, StartEngine, StartFade, Publish, TBarMove, StopEngine, AbortFade,
     CutFade,
     CutFollow, busVars
<1>s. \A d \in Controllers : Starting(d)' => Starting(d) /\ ctl'[d].kind = ctl[d].kind /\ ctl'[d].to = ctl[d].to
  <2>1. \A d \in Controllers : d # c => ctl'[d] = ctl[d]
    BY DEF OnAir, HandOff, TypeOK, Continue, StartRollback, StartEngine, StartFade, Publish,
       TBarMove, StopEngine,
       AbortFade, CutFade, CutFollow
  <2>2. Starting(c)' => Starting(c) /\ ctl'[c].kind = ctl[c].kind /\ ctl'[c].to = ctl[c].to
    <3>1. CASE StartEngine(c) \/ StartFade(c)
      BY <1>0, <3>1 DEF StartEngine, StartFade, OnAir, HandOff, TypeOK, Requests, Starting
    <3>2. CASE ~ StartEngine(c) /\ ~ StartFade(c)
      <4>1. ctl'[c].pc \in {"idle", "unfading", "cutting", "following"}
        <5>1. CASE StopEngine(c)
          BY <5>1, HandOffFacts DEF StopEngine, OnAir, HandOff, NobodyStops
        <5>2. CASE AbortFade(c)
          BY <5>2 DEF AbortFade, OnAir, HandOff, NobodyStops
        <5>3. CASE CutFade(c) \/ CutFollow(c)
          BY <1>0, <5>3 DEF CutFade, CutFollow, OnAir, HandOff, TypeOK, Requests, NoRequest
        <5>4. CASE StartRollback(c) \/ Publish(c)
          BY <5>4 DEF StartRollback, Publish, OnAir, HandOff, TypeOK, NoRequest
        <5>5. ASSUME NEW position \in {"zero", "moved", "end"}, TBarMove(c, position) PROVE ctl'[c].pc = "idle"
          BY <5>5 DEF TBarMove, OnAir, HandOff, TypeOK, NoRequest
        <5>. QED BY <3>2, <5>1, <5>2, <5>3, <5>4, <5>5 DEF Continue
      <4>. QED BY <4>1 DEF Starting
    <3>. QED BY <3>1, <3>2
  <2>. QED BY <2>1, <2>2 DEF Starting
<1>t. transEngine' # NoEngine /\ engine'[transEngine'].kind = "mix" => engine'[transEngine'].to \in registered
  <2>1. CASE Publish(c)
    <3>1. Starting(c) /\ Holding(c)
      BY <2>1 DEF Publish, Starting, Holding
    <3>. QED BY <2>1, <3>1 DEF Publish, OnAir, HandOff, StarterHoldsEngine, TargetRegistered
  <2>2. CASE StartEngine(c)
    <3>1. Starting(c)
      BY <2>2 DEF StartEngine, Starting
    <3>2. transEngine' = NoEngine
      BY <2>2, <3>1, HandOffFacts DEF StartEngine, busVars, OnAir
    <3>. QED BY <3>2
  <2>3. CASE ~ Publish(c) /\ ~ StartEngine(c)
    <3>1. transEngine' = transEngine
      BY <2>3 DEF Continue, StartRollback, StartFade, TBarMove, StopEngine, AbortFade, CutFade,
         CutFollow, busVars
    <3>2. \A e \in Engines : engine'[e].kind = engine[e].kind /\ engine'[e].to = engine[e].to
      BY <1>0, <2>3, SMTT(60) DEF Continue, StartRollback, StartFade, TBarMove, StopEngine,
         AbortFade, CutFade, CutFollow,
         busVars, Finish, OnAir, HandOff, TypeOK, EngineRecords
    <3>. QED BY <1>0, <3>1, <3>2 DEF OnAir, TargetRegistered
  <2>. QED BY <2>1, <2>2, <2>3
<1>. QED BY <1>r, <1>s, <1>t DEF OnAir, ProgramRegistered, TargetRegistered

LEMMA OnAirEngineStep ==
  ASSUME OnAir, NEW e \in Engines, Callback(e) \/ Watchdog(e) PROVE (ProgramRegistered /\ TargetRegistered)'
<1>1. ctl' = ctl /\ registered' = registered
  BY DEF Callback, CompleteLate, CompleteMix, CompleteFade, CompleteSync, CompleteAudio,
     CompleteFollow, Watchdog,
     busVars
<1>2. \A f \in Engines : engine'[f].kind = engine[f].kind /\ engine'[f].to = engine[f].to
  BY DEF Callback, CompleteLate, CompleteMix, CompleteFade, CompleteSync, CompleteAudio,
     CompleteFollow, Watchdog,
     Finish, OnAir, HandOff, TypeOK, EngineRecords
<1>3. transEngine' = transEngine \/ transEngine' = NoEngine
  BY DEF Callback, CompleteLate, CompleteMix, CompleteFade, CompleteSync, CompleteAudio,
     CompleteFollow, Watchdog,
     busVars
<1>4. ProgramRegistered'
  <2>1. CASE CompleteMix(e)
    <3>1. transEngine = e
      BY <2>1 DEF CompleteMix, OnAir, HandOff, CallbackIsPublished
    <3>2. program' \in {program, engine[e].to}
      BY <2>1, <3>1, EngineAssumption DEF CompleteMix
    <3>3. engine[e].to \in registered
      BY <2>1, <3>1, EngineAssumption DEF CompleteMix, OnAir, TargetRegistered
    <3>. QED BY <1>1, <3>2, <3>3 DEF OnAir, ProgramRegistered
  <2>2. CASE ~ CompleteMix(e)
    <3>1. program' = program
      BY <2>2 DEF Callback, CompleteLate, CompleteFade, CompleteSync, CompleteAudio, CompleteFollow,
         Watchdog, busVars
    <3>. QED BY <1>1, <3>1 DEF OnAir, ProgramRegistered
  <2>. QED BY <2>1, <2>2
<1>5. TargetRegistered'
  <2>1. transEngine # NoEngine => transEngine \in Engines
    BY HandOffFacts DEF OnAir
  <2>. QED BY <1>1, <1>2, <1>3, <2>1 DEF OnAir, TargetRegistered, Starting
<1>. QED BY <1>4, <1>5

LEMMA OnAirSourceStep ==
  ASSUME OnAir, "unregister_target" \notin Operations, NEW s \in Sources,
         \/ Register(s) \/ Unregister(s) \/ FrameRoute(s) \/ FrameIngest(s) \/ FrameComplete(s)
  PROVE  (ProgramRegistered /\ TargetRegistered)'
<1>0. transEngine # NoEngine => transEngine \in Engines
  BY HandOffFacts DEF OnAir
<1>1. CASE Register(s)
  BY <1>1 DEF Register, OnAir, ProgramRegistered, TargetRegistered, Starting
<1>2. CASE Unregister(s)
  <2>1. s \notin Targets
    BY <1>2 DEF Unregister
  <2>2. \A c \in Controllers : Starting(c) => ctl[c].to # s
    BY <2>1 DEF Targets, Starting
  <2>3. transEngine # NoEngine => engine[transEngine].to # s
    BY <1>0, <2>1 DEF Targets
  <2>. QED BY <1>2, <2>2, <2>3 DEF Unregister, OnAir, ProgramRegistered, TargetRegistered, Starting
<1>3. CASE FrameRoute(s) \/ FrameIngest(s) \/ FrameComplete(s)
  <2>1. UNCHANGED <<program, registered, transEngine, ctl>>
    BY <1>3 DEF FrameRoute, FrameIngest, FrameComplete, busVars
  <2>2. frame[s] # NoEngine => frame[s] \in Engines
    BY DEF OnAir, HandOff, TypeOK
  <2>3. \A e \in Engines : engine'[e].kind = engine[e].kind /\ engine'[e].to = engine[e].to
    BY <1>3, <2>2 DEF FrameRoute, FrameIngest, FrameComplete, Finish, OnAir, HandOff, TypeOK,
       EngineRecords
  <2>. QED BY <1>0, <2>1, <2>3 DEF OnAir, ProgramRegistered, TargetRegistered, Starting
<1>. QED BY <1>1, <1>2, <1>3

\* With disciplined requests, and as long as no source is unregistered while a mix is on
\* its way to it, the program is a registered source or nothing (UnregisterSource).
THEOREM ProgramStaysRegistered ==
  ASSUME Disciplined, "unregister_target" \notin Operations PROVE Spec => []ProgramRegistered
<1>1. Init => OnAir
  <2>1. Init => \A c \in Controllers : ~ Starting(c)
    BY DEF Init, NoRequest, Starting
  <2>. QED BY <2>1, HandOffInit DEF Init, OnAir, ProgramRegistered, TargetRegistered
<1>2. OnAir /\ [Next]_vars => OnAir'
  <2>1. ASSUME OnAir, Next PROVE (ProgramRegistered /\ TargetRegistered)'
    <3>1. ASSUME NEW c \in Controllers, Request(c) \/ Continue(c) PROVE (ProgramRegistered /\ TargetRegistered)'
      BY <2>1, <3>1, OnAirRequest, OnAirContinue
    <3>2. ASSUME NEW e \in Engines, Callback(e) \/ Watchdog(e) PROVE (ProgramRegistered /\ TargetRegistered)'
      BY <2>1, <3>2, OnAirEngineStep
    <3>3. ASSUME NEW s \in Sources,
                 \/ Register(s) \/ Unregister(s) \/ FrameRoute(s) \/ FrameIngest(s) \/ FrameComplete(s)
          PROVE  (ProgramRegistered /\ TargetRegistered)'
      BY <2>1, <3>3, OnAirSourceStep
    <3>. QED BY <2>1, <3>1, <3>2, <3>3 DEF Next
  <2>2. ASSUME OnAir, UNCHANGED vars PROVE (ProgramRegistered /\ TargetRegistered)'
    BY <2>2 DEF vars, busVars, OnAir, ProgramRegistered, TargetRegistered, Starting
  <2>. QED BY <2>1, <2>2, NextHandOff DEF OnAir
<1>3. OnAir => ProgramRegistered
  BY DEF OnAir
<1>. QED BY <1>1, <1>2, <1>3, PTL DEF Spec
-----------------------------------------------------------------------------
(***************************************************************************)
(* The switching engine, driven by disciplined requests, implements the    *)
(* program bus: each of its steps is a step of the bus or a stutter.       *)
(***************************************************************************)

\* The target of the mix under way, wherever the hand-off has got to.
TargetHanded ==
  /\ state # "transitioning" => MixTarget = NoSource
  /\ state = "transitioning" /\ transEngine # NoEngine => MixTarget = engine[transEngine].to
  /\ \A c \in Controllers : state = "transitioning" /\ Starting(c) => MixTarget = ctl[c].to

LEMMA TargetFacts == HandOff => TargetHanded
<1>. SUFFICES ASSUME HandOff PROVE TargetHanded
  OBVIOUS
<1>1. ASSUME NEW c \in Controllers, state = "transitioning", Starting(c) PROVE MixTarget = ctl[c].to
  <2>1. transEngine = NoEngine /\ ctl[c].kind \in Kinds /\ state = Marked(ctl[c].kind)
    BY <1>1, HandOffFacts DEF HandOff, StarterOwnsState
  <2>2. ctl[c].kind = "mix"
    BY <1>1, <2>1 DEF Kinds, Marked
  <2>3. {d \in Controllers : Starting(d) /\ ctl[d].kind = "mix"} = {c}
    BY <1>1, <2>2 DEF HandOff, OneTransition
  <2>. QED BY <1>1, <2>1, <2>3 DEF MixTarget
<1>. QED BY <1>1 DEF MixTarget, TargetHanded

LEMMA TargetFactsNext == HandOff' => TargetHanded'
  BY TargetFacts, PTL

LEMMA BusInitial == Init => Bus!BusInit
  BY DEF Init, Bus!BusInit, MixTarget, Light

\* A step that leaves the program, the state and the target alone is no step of the bus.
LEMMA Stutter ==
  ASSUME UNCHANGED <<program, state>>, MixTarget' = MixTarget PROVE UNCHANGED Bus!busView
  BY DEF Bus!busView, Light

LEMMA BusRequest ==
  ASSUME HandOff, HandOff', Disciplined, NEW c \in Controllers, Request(c)
  PROVE  Bus!BusNext \/ UNCHANGED Bus!busView
<1>0. ~ InTransition(state) => MixTarget = NoSource /\ Light \in {"lit", "dark"}
  BY TargetFacts DEF TargetHanded, InTransition, Light
<1>1. CASE MarkFadeToBlack(c)
  <2>1. state = "idle" /\ state' = "ftb_transitioning" /\ program' = program
    BY <1>1 DEF MarkFadeToBlack, Disciplined, Mark, Marked, HandOff, TypeOK, States, InTransition
  <2>2. MixTarget = NoSource /\ MixTarget' = NoSource
    BY <2>1 DEF MixTarget
  <2>3. Bus!Dim
    BY <2>1, <2>2 DEF Bus!Dim, Bus!Moving, Light
  <2>. QED BY <2>3 DEF Bus!BusNext
<1>2. CASE MarkFadeReverse(c)
  <2>1. state = "ftb" /\ state' = "ftb_reversing" /\ program' = program
    BY <1>2 DEF MarkFadeReverse, Mark, Marked
  <2>2. MixTarget = NoSource /\ MixTarget' = NoSource
    BY <2>1 DEF MixTarget
  <2>3. Bus!Rise
    BY <2>1, <2>2 DEF Bus!Rise, Light
  <2>. QED BY <2>3 DEF Bus!BusNext
<1>3. CASE TBarRead(c)
  <2>1. UNCHANGED <<program, state, transEngine, engine>> /\ transEngine # NoEngine
    BY <1>3 DEF TBarRead, busVars
  <2>2. MixTarget' = MixTarget
    BY <2>1 DEF MixTarget
  <2>. QED BY <2>1, <2>2, Stutter
<1>4. CASE Abort(c)
  BY <1>4 DEF Abort, Can, Disciplined
<1>5. ASSUME NEW s \in Sources, MarkTransition(c, s) PROVE Bus!BusNext
  <2>1. /\ state = "idle" /\ state' = "transitioning" /\ program' = program
        /\ s # program /\ program # NoSource
        /\ Starting(c)' /\ ctl'[c].to = s
    BY <1>5 DEF MarkTransition, Mark, Marked, HandOff, TypeOK, Starting
  <2>2. MixTarget = NoSource
    BY <2>1 DEF MixTarget
  <2>3. MixTarget' = s
    BY <2>1, TargetFactsNext DEF TargetHanded
  <2>4. Bus!Begin(s)
    BY <2>1, <2>2, <2>3 DEF Bus!Begin, Bus!Moving, Light
  <2>. QED BY <2>4 DEF Bus!BusNext
<1>6. ASSUME NEW s \in Sources, Cut(c, s) PROVE Bus!BusNext
  <2>1. ~ InTransition(state) /\ state' = state /\ program' = s /\ s # program
    BY <1>6 DEF Cut, Can, Disciplined
  <2>2. MixTarget' = NoSource /\ Light' = Light /\ Light \in {"lit", "dark"}
    BY <1>0, <2>1 DEF MixTarget, Light, InTransition
  <2>3. Bus!Take(s)
    BY <2>1, <2>2 DEF Bus!Take
  <2>. QED BY <2>3 DEF Bus!BusNext
<1>7. ASSUME NEW s \in Sources, SetPreview(c, s) PROVE UNCHANGED Bus!busView
  <2>1. UNCHANGED <<program, state, transEngine, engine, ctl>>
    BY <1>7 DEF SetPreview
  <2>2. MixTarget' = MixTarget
    BY <2>1 DEF MixTarget, Starting
  <2>. QED BY <2>1, <2>2, Stutter
<1>. QED BY <1>1, <1>2, <1>3, <1>4, <1>5, <1>6, <1>7 DEF Request

LEMMA BusContinue ==
  ASSUME HandOff, HandOff', NEW c \in Controllers, Continue(c)
  PROVE  Bus!BusNext \/ UNCHANGED Bus!busView
<1>0. ctl[c] \in Requests /\ ctl[c].pc \notin {"stopping", "unfading"}
  BY DEF HandOff, TypeOK, NobodyStops
<1>1. CASE StartRollback(c)
  <2>1. Starting(c) /\ program' = program /\ state' = Aborted(ctl[c].kind)
    BY <1>1 DEF StartRollback, Starting
  <2>2. ctl[c].kind \in Kinds /\ state = Marked(ctl[c].kind)
    BY <2>1, HandOffFacts DEF HandOff, StarterOwnsState
  <2>3. MixTarget' = NoSource
    BY <2>1, <2>2 DEF MixTarget, Aborted, Kinds
  <2>4. CASE ctl[c].kind = "mix"
    <3>1. MixTarget = ctl[c].to
      BY <2>1, <2>2, <2>4, TargetFacts DEF TargetHanded, Marked
    <3>2. ctl[c].to # NoSource
      BY <1>0, <2>1, <2>4, SourceAssumption DEF Requests, Starting
    <3>3. Bus!GiveUp
      BY <2>1, <2>2, <2>3, <2>4, <3>1, <3>2 DEF Bus!GiveUp, Light, Marked, Aborted
    <3>. QED BY <3>3 DEF Bus!BusNext
  <2>5. CASE ctl[c].kind # "mix"
    <3>1. MixTarget = NoSource
      BY <2>2, <2>5, TargetFacts DEF TargetHanded, Kinds, Marked
    <3>2. Bus!GiveUp
      BY <2>1, <2>2, <2>3, <2>5, <3>1 DEF Bus!GiveUp, Light, Kinds, Marked, Aborted
    <3>. QED BY <3>2 DEF Bus!BusNext
  <2>. QED BY <2>4, <2>5
<1>2. CASE StartEngine(c) \/ StartFade(c)
  <2>1. Starting(c) /\ Starting(c)' /\ ctl'[c].to = ctl[c].to /\ UNCHANGED <<program, state>>
    BY <1>0, <1>2 DEF StartEngine, StartFade, busVars, HandOff, TypeOK, Requests, Starting
  <2>2. MixTarget' = MixTarget
    BY <2>1, TargetFacts, TargetFactsNext DEF TargetHanded
  <2>. QED BY <2>1, <2>2, Stutter
<1>3. CASE Publish(c)
  <2>1. /\ Starting(c) /\ Holding(c) /\ UNCHANGED <<program, state, engine>> /\ transEngine' = ctl[c].engine
        /\ ctl[c].engine # NoEngine
    BY <1>0, <1>3, EngineAssumption DEF Publish, Starting, Holding, Requests
  <2>2. engine[ctl[c].engine].to = ctl[c].to
    BY <2>1 DEF HandOff, StarterHoldsEngine
  <2>3. MixTarget' = MixTarget
    BY <2>1, <2>2, TargetFacts, TargetFactsNext DEF TargetHanded
  <2>. QED BY <2>1, <2>3, Stutter
<1>4. CASE ~ StartRollback(c) /\ ~ StartEngine(c) /\ ~ StartFade(c) /\ ~ Publish(c)
  <2>1. UNCHANGED <<program, state, transEngine>>
    BY <1>4 DEF Continue, TBarMove, StopEngine, AbortFade, CutFade, CutFollow, busVars
  <2>2. \A e \in Engines : engine'[e].to = engine[e].to
    BY <1>0, <1>4, SMTT(20) DEF Continue, TBarMove, StopEngine, AbortFade, CutFade, CutFollow,
       busVars, Finish,
       HandOff, TypeOK, EngineRecords
  <2>3. \A d \in Controllers : d # c => ctl'[d] = ctl[d]
    BY <1>4 DEF Continue, TBarMove, StopEngine, AbortFade, CutFade, CutFollow, HandOff, TypeOK
  <2>4. ~ Starting(c)
    BY <1>4 DEF Continue, TBarMove, StopEngine, AbortFade, CutFade, CutFollow, Starting
  <2>5. MixTarget' = MixTarget
    <3>1. CASE state # "transitioning"
      BY <2>1, <3>1 DEF MixTarget
    <3>2. CASE state = "transitioning" /\ transEngine # NoEngine
      BY <2>1, <2>2, <3>2, HandOffFacts DEF MixTarget
    <3>3. CASE state = "transitioning" /\ transEngine = NoEngine
      <4>1. PICK d \in Controllers : Starting(d)
        BY <3>3 DEF HandOff, InTransition
      <4>2. Starting(d)' /\ ctl'[d] = ctl[d]
        BY <2>3, <2>4, <4>1 DEF Starting
      <4>. QED BY <2>1, <3>3, <4>1, <4>2, TargetFacts, TargetFactsNext DEF TargetHanded
    <3>. QED BY <3>1, <3>2, <3>3
  <2>. QED BY <2>1, <2>5, Stutter
<1>. QED BY <1>1, <1>2, <1>3, <1>4

LEMMA BusEngineStep ==
  ASSUME HandOff, HandOff', NEW e \in Engines, Callback(e) \/ Watchdog(e)
  PROVE  Bus!BusNext \/ UNCHANGED Bus!busView
<1>0. comp[e].pc = "lock" =>
        /\ transEngine = e /\ transEngine # NoEngine
        /\ state = Marked(engine[e].kind) /\ engine[e].kind \in Kinds
        /\ engine[e].kind = "mix" => engine[e].to \in Sources
  BY EngineAssumption DEF HandOff, TypeOK, EngineRecords, CallbackIsPublished, PublishedOwnsState
<1>1. CASE CompleteMix(e)
  <2>1. /\ state = "transitioning" /\ state' = "idle" /\ transEngine = e /\ transEngine # NoEngine
        /\ engine[e].to \in Sources
    BY <1>0, <1>1 DEF CompleteMix, Marked
  <2>2. MixTarget = engine[e].to /\ MixTarget # NoSource
    BY <2>1, TargetFacts, SourceAssumption DEF TargetHanded
  <2>3. MixTarget' = NoSource
    BY <2>1 DEF MixTarget
  <2>4. CASE comp[e].aborted
    <3>1. program' = program
      BY <1>1, <2>4 DEF CompleteMix
    <3>. QED BY <2>1, <2>2, <2>3, <3>1 DEF Bus!BusNext, Bus!GiveUp, Light
  <2>5. CASE ~ comp[e].aborted
    <3>1. program' = engine[e].to
      BY <1>1, <2>1, <2>5, SourceAssumption DEF CompleteMix
    <3>. QED BY <2>1, <2>2, <2>3, <3>1 DEF Bus!BusNext, Bus!Arrive, Light
  <2>. QED BY <2>4, <2>5
<1>2. CASE CompleteFade(e)
  <2>1. /\ engine[e].kind \in {"ftb", "ftb_reverse"} /\ state = Marked(engine[e].kind) /\ program' = program
        /\ state' = IF comp[e].aborted THEN Aborted(engine[e].kind) ELSE Completed(engine[e].kind)
    BY <1>0, <1>2 DEF CompleteFade, Kinds
  <2>2. MixTarget = NoSource /\ MixTarget' = NoSource
    BY <2>1 DEF MixTarget, Marked, Aborted, Completed
  <2>3. CASE comp[e].aborted
    BY <2>1, <2>2, <2>3 DEF Bus!BusNext, Bus!GiveUp, Light, Marked, Aborted
  <2>4. CASE ~ comp[e].aborted
    BY <2>1, <2>2, <2>4 DEF Bus!BusNext, Bus!Arrive, Light, Marked, Completed
  <2>. QED BY <2>3, <2>4
<1>3. CASE ~ CompleteMix(e) /\ ~ CompleteFade(e)
  <2>1. UNCHANGED <<program, state, transEngine, ctl>>
    BY <1>3 DEF Callback, CompleteLate, CompleteSync, CompleteAudio, CompleteFollow, Watchdog, busVars
  <2>2. \A f \in Engines : engine'[f].to = engine[f].to
    BY <1>3 DEF Callback, CompleteLate, CompleteSync, CompleteAudio, CompleteFollow, Watchdog,
       busVars, Finish,
       HandOff, TypeOK, EngineRecords
  <2>3. MixTarget' = MixTarget
    BY <2>1, <2>2, HandOffFacts DEF MixTarget, Starting
  <2>. QED BY <2>1, <2>3, Stutter
<1>. QED BY <1>1, <1>2, <1>3

LEMMA BusSourceStep ==
  ASSUME HandOff, NEW s \in Sources,
         \/ Register(s) \/ Unregister(s) \/ FrameRoute(s) \/ FrameIngest(s) \/ FrameComplete(s)
  PROVE  Bus!BusNext \/ UNCHANGED Bus!busView
<1>1. UNCHANGED <<state, transEngine, ctl>>
  BY DEF Register, Unregister, FrameRoute, FrameIngest, FrameComplete, busVars
<1>2. \A e \in Engines : engine'[e].to = engine[e].to
  <2>1. frame[s] # NoEngine => frame[s] \in Engines
    BY DEF HandOff, TypeOK
  <2>. QED BY <2>1 DEF Register, Unregister, FrameRoute, FrameIngest, FrameComplete, busVars, Finish,
              HandOff, TypeOK, EngineRecords
<1>3. MixTarget' = MixTarget
  BY <1>1, <1>2, HandOffFacts DEF MixTarget, Starting
<1>4. CASE program' = program
  BY <1>1, <1>3, <1>4, Stutter
<1>5. CASE program' # program
  <2>1. program' = NoSource
    BY <1>5 DEF Register, Unregister, FrameRoute, FrameIngest, FrameComplete, busVars
  <2>. QED BY <1>1, <1>3, <1>5, <2>1 DEF Bus!BusNext, Bus!Lose, Light
<1>. QED BY <1>4, <1>5

\* With disciplined requests the switching engine is the program bus: a cut takes effect
\* at once, a mix arrives at the very source it was started for or is given up with the
\* program as it was, a fade ends dark or lit, and no move begins before the last is over.
THEOREM SwitcherImplementsBus ==
  ASSUME Disciplined PROVE Spec => ImplementsBus
<1>1. HandOff /\ HandOff' /\ [Next]_vars => [Bus!BusNext]_(Bus!busView)
  <2>1. ASSUME HandOff, HandOff', Next PROVE Bus!BusNext \/ UNCHANGED Bus!busView
    <3>1. ASSUME NEW c \in Controllers, Request(c) \/ Continue(c)
          PROVE  Bus!BusNext \/ UNCHANGED Bus!busView
      BY <2>1, <3>1, BusRequest, BusContinue
    <3>2. ASSUME NEW e \in Engines, Callback(e) \/ Watchdog(e)
          PROVE  Bus!BusNext \/ UNCHANGED Bus!busView
      BY <2>1, <3>2, BusEngineStep
    <3>3. ASSUME NEW s \in Sources,
                 \/ Register(s) \/ Unregister(s) \/ FrameRoute(s) \/ FrameIngest(s) \/ FrameComplete(s)
          PROVE  Bus!BusNext \/ UNCHANGED Bus!busView
      BY <2>1, <3>3, BusSourceStep
    <3>. QED BY <2>1, <3>1, <3>2, <3>3 DEF Next
  <2>2. ASSUME UNCHANGED vars PROVE UNCHANGED Bus!busView
    <3>1. MixTarget' = MixTarget
      BY <2>2 DEF vars, busVars, MixTarget, Starting
    <3>. QED BY <2>2, <3>1, Stutter DEF vars, busVars
  <2>. QED BY <2>1, <2>2
<1>2. Init => Bus!BusInit
  BY BusInitial
<1>. QED BY <1>1, <1>2, HandedOn, PTL DEF Spec, ImplementsBus, Bus!BusSpec

-----------------------------------------------------------------------------
(***************************************************************************)
(* Audio follow video.  Requests that come one at a time may cut into a    *)
(* transition here; the relay below is HandOff with the cuts, and says     *)
(* besides what each callback and each cut has still to tell the mixer and *)
(* the frame synchronizer.                                                 *)
(***************************************************************************)

\* One operator at a time, who waits for the callbacks; no aborts, no second fade during
\* a fade, and no source is removed while a mix leads to it.
Orderly ==
  /\ Patient /\ \A c, d \in Controllers : c = d
  /\ Operations \cap {"abort", "ftb_again", "unregister_target"} = {}

\* e runs, or its callback does.
Alive(e) == engine[e].st = "active" \/ comp[e].pc # "none"

CutSteps == {"stopping", "unfading", "cutting", "following"}
HandlerSteps == {"sync", "audio", "follow"}

OneAlive == \A e, f \in Engines : Alive(e) /\ Alive(f) => e = f

MarkedStarts == InTransition(state) => transEngine # NoEngine \/ \E c \in Controllers : Starting(c)

StarterMarks ==
  \A c \in Controllers : Starting(c) =>
    state = Marked(ctl[c].kind) /\ \A e \in Engines : comp[e].pc = "none"

StarterAlone == \A c \in Controllers : ctl[c].pc = "starting" => \A e \in Engines : ~ Alive(e)

StarterHolds ==
  \A c \in Controllers : Holding(c) =>
    /\ engine[ctl[c].engine].st = "active"
    /\ engine[ctl[c].engine].kind = ctl[c].kind /\ engine[ctl[c].engine].to = ctl[c].to
    /\ \A s \in Sources : frame[s] # ctl[c].engine

PublishedMarked ==
  transEngine # NoEngine =>
    /\ state = Marked(engine[transEngine].kind) /\ Alive(transEngine)
    /\ \A c \in Controllers : ctl[c].pc \in {"idle", "tbar"}

ActiveKnown ==
  \A e \in Engines : engine[e].st = "active" =>
    /\ comp[e].pc = "none"
    /\ \/ transEngine = e
       \/ \E c \in Controllers : ctl[c].engine = e /\ ctl[c].pc \in {"fading", "publishing", "stopping"}

PublishedOrLate == \A e \in Engines : comp[e].pc = "lock" => transEngine = e \/ ~ InTransition(state)

\* What a callback past s.mu has left behind, and hands on.
HandlerFound ==
  \A e \in Engines : comp[e].pc \in HandlerSteps =>
    /\ transEngine = NoEngine
    /\ \A c \in Controllers : ctl[c].pc \in {"idle", "tbar"}
    /\ state = IF engine[e].kind # "mix" /\ comp[e].follow THEN "ftb" ELSE "idle"
    /\ engine[e].kind = "mix" => comp[e].snap = program
    /\ comp[e].pc = "sync" => engine[e].kind = "mix"
    /\ comp[e].pc = "follow" => comp[e].follow

\* What a cut past s.mu has left behind.
CutFound ==
  \A c \in Controllers : ctl[c].pc \in CutSteps =>
    ctl[c].kind = "cut" /\ ctl[c].to = program /\ ~ InTransition(state) /\ transEngine = NoEngine

Relay ==
  /\ OneAlive /\ MarkedStarts /\ StarterMarks /\ StarterAlone /\ StarterHolds
  /\ PublishedMarked /\ ActiveKnown /\ PublishedOrLate /\ HandlerFound /\ CutFound

\* A source has its channel except while its stream's callback has still to tell the mixer;
\* such a source is not in use.
Wiring ==
  /\ \A s \in Sources : wiring[s] = "add" => s \in registered
  /\ \A s \in Sources : wiring[s] = "remove" => s \notin registered
  /\ \A s \in Sources : wiring[s] = "done" => (s \in registered <=> s \in mix.channels)
  /\ \A s \in Sources : wiring[s] # "done" =>
       /\ s # program
       /\ transEngine # NoEngine /\ engine[transEngine].kind = "mix" => engine[transEngine].to # s
       /\ \A c \in Controllers : ctl[c].pc = "idle"

\* The program is on air, or a cut or the callback of a completed mix will put it there.
AirHeld ==
  program # NoSource =>
    \/ program \in mix.active
    \/ \E c \in Controllers : ctl[c].pc \in CutSteps
    \/ \E e \in Engines : comp[e].pc \in HandlerSteps /\ engine[e].kind = "mix" /\ comp[e].follow

\* A crossfade has somebody who will clear it.
FadeOwned ==
  mix.fade # NoFade =>
    \/ mix.cutLeft > 0
    \/ transEngine # NoEngine
    \/ \E c \in Controllers : ctl[c].pc \in {"publishing", "stopping", "unfading"}
    \/ \E e \in Engines : comp[e].pc \in {"sync", "audio"}

\* The callback that mutes a program held at black has not done it yet.
Muting == \E e \in Engines : comp[e].pc \in {"audio", "follow"} /\ engine[e].kind # "mix" /\ comp[e].follow

\* The request that fades back in has not lifted the mute yet.
Unmuting == state = "ftb_reversing" /\ \E c \in Controllers : ctl[c].pc \in {"starting", "fading"}

MuteOwned == mix.muted <=> (state = "ftb" /\ ~ Muting) \/ Unmuting

\* The program paces the output, or a mix or its callback does.
PaceOwned ==
  program # NoSource =>
    \/ syncProgram = program
    \/ transEngine # NoEngine /\ engine[transEngine].kind = "mix"
    \/ \E e \in Engines : comp[e].pc = "sync"

Following == Wiring /\ AirHeld /\ FadeOwned /\ MuteOwned /\ PaceOwned

AVInv == AVTypeOK /\ ProgramRegistered /\ TargetRegistered /\ Relay /\ Following

\* Every step with the mixer is a step of the switching engine.
LEMMA AVSteps == [AVNext]_avVars => [Next]_vars
<1>. SUFFICES ASSUME [AVNext]_avVars PROVE [Next]_vars
  OBVIOUS
<1>1. CASE UNCHANGED avVars
  BY <1>1 DEF avVars
<1>2. ASSUME NEW c \in Controllers,
             \/ AVStartFade(c) \/ AVPublish(c) \/ AVAbortFade(c) \/ AVCutFade(c) \/ AVCutFollow(c)
             \/ \E s \in Sources : AVCut(c, s)
      PROVE  Next
  <2>1. Continue(c) \/ Request(c)
    BY <1>2 DEF AVStartFade, AVPublish, AVAbortFade, AVCutFade, AVCutFollow, AVCut, Continue, Request
  <2>. QED BY <2>1 DEF Next
<1>3. ASSUME NEW e \in Engines, AVCompleteSync(e) \/ AVCompleteAudio(e) \/ AVCompleteFollow(e)
      PROVE  Next
  BY <1>3 DEF AVCompleteSync, AVCompleteAudio, AVCompleteFollow, Callback, Next
<1>4. ASSUME NEW s \in Sources, AVRegister(s) \/ AVUnregister(s) PROVE Next
  BY <1>4 DEF AVRegister, AVUnregister, Next
<1>5. ASSUME NEW s \in Sources, WireMixer(s) PROVE UNCHANGED vars
  BY <1>5 DEF WireMixer
<1>6. CASE AVOther
  BY <1>6 DEF AVOther, Continue, Request, Callback, Next
<1>7. CASE MixerTick
  BY <1>7 DEF MixerTick
<1>. QED BY <1>1, <1>2, <1>3, <1>4, <1>5, <1>6, <1>7 DEF AVNext

\* Every method of the mixer leaves a mixer behind.
LEMMA MixerTypes ==
  ASSUME NEW m \in Mixers
  PROVE  /\ \A s \in Sources : AddChannel(m, s) \in Mixers /\ RemoveChannel(m, s) \in Mixers
         /\ \A p \in Keys : OnProgramChange(m, p) \in Mixers
         /\ \A p, q \in Keys : OnCut(m, p, q) \in Mixers
         /\ \A p, q \in Keys : \A k \in {"cross", "out", "in"} : OnTransitionStart(m, p, q, k) \in Mixers
         /\ \A b \in BOOLEAN : SetProgramMute(m, b) \in Mixers
         /\ ClearFade(m) \in Mixers
         /\ m.cutLeft > 0 => Tick(m) \in Mixers
<1>1. /\ m.fade \in Fades /\ m.cutLeft \in 0 .. CutTicks
      /\ m.channels \in SUBSET Sources /\ m.active \in SUBSET Sources /\ m.muted \in BOOLEAN
  BY DEF Mixers
<1>2. \A s \in Sources : AddChannel(m, s) \in Mixers /\ RemoveChannel(m, s) \in Mixers
  BY DEF AddChannel, RemoveChannel, Mixers
<1>3. \A p \in Keys : OnProgramChange(m, p) \in Mixers
  <2>. SUFFICES ASSUME NEW p \in Keys PROVE OnProgramChange(m, p) \in Mixers
    OBVIOUS
  <2>1. {p} \cap m.channels \in SUBSET Sources
    BY <1>1
  <2>. QED BY <2>1 DEF OnProgramChange, Mixers
<1>4. \A p, q \in Keys : \A k \in {"cross", "out", "in"} : [from |-> p, to |-> q, mode |-> k] \in Fades
  BY DEF Fades
<1>5. \A q \in Keys : m.active \cup ({q} \cap m.channels) \in SUBSET Sources
  BY <1>1
<1>6. \A p, q \in Keys : OnCut(m, p, q) \in Mixers
  <2>. SUFFICES ASSUME NEW p \in Keys, NEW q \in Keys PROVE OnCut(m, p, q) \in Mixers
    OBVIOUS
  <2>1. CutTicks \in 0 .. CutTicks
    BY DEF CutTicks
  <2>2. [from |-> p, to |-> q, mode |-> "cross"] \in Fades
    BY <1>4
  <2>. QED BY <1>5, <2>1, <2>2 DEF OnCut, Mixers
<1>7. \A p, q \in Keys : \A k \in {"cross", "out", "in"} : OnTransitionStart(m, p, q, k) \in Mixers
  BY <1>4, <1>5 DEF OnTransitionStart, Mixers
<1>8. \A b \in BOOLEAN : SetProgramMute(m, b) \in Mixers
  BY DEF SetProgramMute, Mixers
<1>9. ClearFade(m) \in Mixers
  <2>1. NoFade \in Fades /\ 0 \in 0 .. CutTicks
    BY DEF NoFade, Fades, CutTicks
  <2>. QED BY <2>1 DEF ClearFade, Mixers
<1>10. m.cutLeft > 0 => Tick(m) \in Mixers
  <2>1. CASE m.cutLeft > 1
    <3>1. m.cutLeft - 1 \in 0 .. CutTicks
      BY <1>1, <2>1 DEF CutTicks
    <3>. QED BY <2>1, <3>1 DEF Tick, Mixers
  <2>. QED BY <1>9, <2>1 DEF Tick
<1>. QED BY <1>2, <1>3, <1>6, <1>7, <1>8, <1>9, <1>10

LEMMA AVInitTypeOK == AVInit => AVTypeOK
<1>1. MixerInit \in Mixers
  BY DEF MixerInit, Mixers, NoFade, Fades, CutTicks
<1>. QED BY <1>1, InitTypeOK DEF AVInit, AVTypeOK

LEMMA AVNextTypeOK == AVTypeOK /\ [AVNext]_avVars => AVTypeOK'
<1>. SUFFICES ASSUME AVTypeOK, [AVNext]_avVars PROVE AVTypeOK'
  OBVIOUS
<1>0. TypeOK /\ TypeOK' /\ mix \in Mixers
  BY AVSteps, NextTypeOK DEF AVTypeOK
<1>k. \A kind \in Kinds : FadeMode(kind) \in {"cross", "out", "in"}
  BY DEF Kinds, FadeMode
<1>1. ASSUME NEW c \in Controllers,
             \/ AVStartFade(c) \/ AVPublish(c) \/ AVAbortFade(c) \/ AVCutFade(c) \/ AVCutFollow(c)
             \/ \E s \in Sources : AVCut(c, s)
      PROVE  AVTypeOK'
  <2>1. ctl[c].from \in Keys /\ ctl[c].to \in Keys
    BY <1>0 DEF TypeOK, Requests
  <2>2. CASE AVStartFade(c)
    <3>. DEFINE open == IF ctl[c].kind = "ftb_reverse" THEN SetProgramMute(mix, FALSE) ELSE mix
    <3>1. open \in Mixers
      BY <1>0, MixerTypes
    <3>2. ctl[c].kind \in Kinds
      BY <1>0, <2>2 DEF AVStartFade, StartFade, TypeOK, Requests
    <3>3. mix' = OnTransitionStart(open, ctl[c].from, ctl[c].to, FadeMode(ctl[c].kind))
      BY <2>2 DEF AVStartFade
    <3>. HIDE DEF open
    <3>4. mix' \in Mixers
      BY <1>k, <2>1, <3>1, <3>2, <3>3, MixerTypes
    <3>. QED BY <1>0, <2>2, <3>4 DEF AVStartFade, AVTypeOK
  <2>3. CASE AVPublish(c)
    BY <1>0, <2>1, <2>3 DEF AVPublish, AVTypeOK
  <2>4. CASE AVAbortFade(c)
    BY <1>0, <2>4, MixerTypes DEF AVAbortFade, AVTypeOK
  <2>5. CASE AVCutFade(c)
    <3>1. mix' \in Mixers
      BY <1>0, <2>1, <2>5, MixerTypes DEF AVCutFade
    <3>. QED BY <1>0, <2>5, <3>1 DEF AVCutFade, AVTypeOK
  <2>6. CASE AVCutFollow(c)
    BY <1>0, <2>1, <2>6, MixerTypes DEF AVCutFollow, AVTypeOK
  <2>7. ASSUME NEW s \in Sources, AVCut(c, s) PROVE AVTypeOK'
    BY <1>0, <2>7 DEF AVCut, AVTypeOK
  <2>. QED BY <1>1, <2>2, <2>3, <2>4, <2>5, <2>6, <2>7
<1>2. ASSUME NEW e \in Engines, AVCompleteSync(e) \/ AVCompleteAudio(e) \/ AVCompleteFollow(e)
      PROVE  AVTypeOK'
  <2>1. comp[e].snap \in Keys
    BY <1>0 DEF TypeOK, Callbacks
  <2>2. CASE AVCompleteSync(e)
    BY <1>0, <2>1, <2>2 DEF AVCompleteSync, AVTypeOK
  <2>3. CASE AVCompleteAudio(e)
    BY <1>0, <2>3, MixerTypes DEF AVCompleteAudio, AVTypeOK
  <2>4. CASE AVCompleteFollow(e)
    <3>1. mix' \in Mixers
      BY <1>0, <2>1, <2>4, MixerTypes DEF AVCompleteFollow
    <3>. QED BY <1>0, <2>4, <3>1 DEF AVCompleteFollow, AVTypeOK
  <2>. QED BY <1>2, <2>2, <2>3, <2>4
<1>3. ASSUME NEW s \in Sources, AVRegister(s) \/ AVUnregister(s) \/ WireMixer(s)
      PROVE  AVTypeOK'
  <2>1. CASE AVRegister(s) \/ AVUnregister(s)
    BY <1>0, <2>1 DEF AVRegister, AVUnregister, AVTypeOK
  <2>2. CASE WireMixer(s)
    <3>1. mix' \in Mixers
      BY <1>0, <2>2, MixerTypes DEF WireMixer
    <3>. QED BY <1>0, <2>2, <3>1 DEF WireMixer, AVTypeOK
  <2>. QED BY <1>3, <2>1, <2>2
<1>4. CASE AVOther
  <2>1. UNCHANGED <<mix, syncProgram, wiring>>
    BY <1>4 DEF AVOther
  <2>. QED BY <1>0, <2>1 DEF AVTypeOK
<1>5. CASE MixerTick
  BY <1>0, <1>5, MixerTypes DEF MixerTick, AVTypeOK
<1>6. CASE UNCHANGED avVars
  BY <1>0, <1>6 DEF avVars, AVTypeOK
<1>. QED BY <1>1, <1>2, <1>3, <1>4, <1>5, <1>6 DEF AVNext

\* What the relay says of the one controller, of the published engine and of callbacks.
LEMMA RelayFacts ==
  ASSUME TypeOK, Relay, Orderly
  PROVE  /\ transEngine # NoEngine => InTransition(state) /\ transEngine \in Engines
         /\ \A c \in Controllers : Starting(c) => InTransition(state) /\ transEngine = NoEngine
         /\ \A c \in Controllers : Holding(c) => Starting(c) /\ ctl[c].engine \in Engines
         /\ \A c \in Controllers : ctl[c].pc \in {"tbar", "stopping"} => ctl[c].engine \in Engines
         /\ \A e \in Engines : engine[e].kind \in Kinds
         /\ \A s \in Sources : frame[s] # NoEngine => frame[s] \in Engines
<1>1. \A c \in Controllers : ctl[c] \in Requests
  BY DEF TypeOK
<1>2. \A e \in Engines : engine[e].kind \in Kinds
  BY DEF TypeOK, EngineRecords
<1>3. transEngine # NoEngine => InTransition(state) /\ transEngine \in Engines
  BY <1>2, MarkFacts DEF TypeOK, Relay, PublishedMarked
<1>4. \A c \in Controllers : Starting(c) => InTransition(state) /\ transEngine = NoEngine
  BY <1>1, MarkFacts DEF Relay, PublishedMarked, StarterMarks, Starting, Requests
<1>5. \A s \in Sources : frame[s] # NoEngine => frame[s] \in Engines
  BY DEF TypeOK
<1>. QED BY <1>1, <1>2, <1>3, <1>4, <1>5 DEF Holding, Starting, Requests

\* A step that leaves requests, callbacks and the life of engines alone.
LEMMA StillRelay ==
  ASSUME TypeOK, Relay, Orderly, UNCHANGED <<state, transEngine, comp, ctl>>,
         \A e \in Engines : /\ engine'[e].st = engine[e].st /\ engine'[e].kind = engine[e].kind
                            /\ engine'[e].to = engine[e].to,
         \A s \in Sources : frame'[s] \in {frame[s], NoEngine, transEngine},
         \/ program' = program
         \/ (\A c \in Controllers : ctl[c].pc = "idle") /\ \A e \in Engines : comp[e].pc = "none"
  PROVE  Relay'
<1>1. \A e \in Engines : Alive(e)' <=> Alive(e)
  BY DEF Alive
<1>2. \A c \in Controllers : (Starting(c)' <=> Starting(c)) /\ (Holding(c)' <=> Holding(c))
  BY DEF Starting, Holding
<1>3. OneAlive' /\ MarkedStarts' /\ StarterMarks' /\ StarterAlone'
  BY <1>1, <1>2 DEF Relay, OneAlive, MarkedStarts, StarterMarks, StarterAlone
<1>4. StarterHolds'
  BY <1>2, RelayFacts, EngineAssumption DEF Relay, StarterHolds
<1>5. PublishedMarked' /\ ActiveKnown' /\ PublishedOrLate'
  BY <1>1, RelayFacts DEF Relay, PublishedMarked, ActiveKnown, PublishedOrLate
<1>6. HandlerFound'
  BY DEF Relay, HandlerFound, HandlerSteps
<1>7. CutFound'
  BY DEF Relay, CutFound, CutSteps
<1>. QED BY <1>3, <1>4, <1>5, <1>6, <1>7 DEF Relay

\* A request marks the state when no transition is under way.
LEMMA MarkRelay ==
  ASSUME TypeOK, Relay, Orderly, NEW c \in Controllers, NEW kind \in Kinds, NEW to, Mark(c, kind, to),
         ctl[c].pc = "idle", \A e \in Engines : comp[e].pc = "none", ~ InTransition(state)
  PROVE  Relay'
<1>1. \A d \in Controllers : d = c
  BY DEF Orderly
<1>2. transEngine = NoEngine
  BY RelayFacts
<1>3. \A e \in Engines : ~ Alive(e) /\ engine[e].st # "active"
  BY <1>1, <1>2, EngineAssumption DEF Relay, ActiveKnown, Alive
<1>4. ctl'[c].pc = "starting" /\ ctl'[c].kind = kind /\ state' = Marked(kind)
      /\ UNCHANGED <<transEngine, engine, comp, frame, program>>
  BY DEF Mark, TypeOK
<1>5. \A e \in Engines : ~ Alive(e)' /\ engine'[e].st # "active" /\ comp'[e].pc = "none"
  BY <1>3, <1>4 DEF Alive
<1>6. Starting(c)' /\ ~ Holding(c)'
  BY <1>4 DEF Starting, Holding
<1>7. OneAlive' /\ MarkedStarts' /\ StarterMarks' /\ StarterAlone' /\ StarterHolds'
  BY <1>1, <1>4, <1>5, <1>6 DEF OneAlive, MarkedStarts, StarterMarks, StarterAlone, StarterHolds
<1>8. PublishedMarked' /\ ActiveKnown' /\ PublishedOrLate' /\ HandlerFound' /\ CutFound'
  BY <1>1, <1>2, <1>4, <1>5
     DEF PublishedMarked, ActiveKnown, PublishedOrLate, HandlerFound, HandlerSteps, CutFound, CutSteps
<1>. QED BY <1>7, <1>8 DEF Relay

\* The request moves on among the steps that have nothing to do with a transition.
LEMMA BystanderRelay ==
  ASSUME TypeOK, Relay, Orderly, NEW c \in Controllers,
         UNCHANGED <<state, program, transEngine, comp, frame>>,
         \A e \in Engines : /\ engine'[e].st = engine[e].st /\ engine'[e].kind = engine[e].kind
                            /\ engine'[e].to = engine[e].to,
         ctl[c].pc \in {"idle", "tbar", "unfading", "cutting", "following"},
         ctl'[c].pc \in {"idle", "tbar", "cutting", "following"},
         ctl'[c].pc \in CutSteps => /\ ctl[c].pc \in CutSteps
                                    /\ ctl'[c].kind = ctl[c].kind /\ ctl'[c].to = ctl[c].to
  PROVE  Relay'
<1>1. \A d \in Controllers : d = c
  BY DEF Orderly
<1>2. \A e \in Engines : Alive(e)' <=> Alive(e)
  BY DEF Alive
<1>3. ~ Starting(c) /\ ~ Holding(c) /\ ~ Starting(c)' /\ ~ Holding(c)'
  BY DEF Starting, Holding
<1>4. OneAlive' /\ MarkedStarts' /\ StarterMarks' /\ StarterAlone' /\ StarterHolds'
  BY <1>1, <1>2, <1>3 DEF Relay, OneAlive, MarkedStarts, StarterMarks, StarterAlone, StarterHolds
<1>5. PublishedMarked'
  BY <1>1, <1>2, RelayFacts DEF Relay, PublishedMarked, CutFound, CutSteps
<1>6. ActiveKnown' /\ PublishedOrLate'
  BY <1>1 DEF Relay, ActiveKnown, PublishedOrLate
<1>7. HandlerFound'
  BY <1>1 DEF Relay, HandlerFound, HandlerSteps, CutSteps
<1>8. CutFound'
  BY <1>1 DEF Relay, CutFound
<1>. QED BY <1>4, <1>5, <1>6, <1>7, <1>8 DEF Relay

\* The published engine, or the one a cut is about to stop, finishes.
LEMMA FinishRelay ==
  ASSUME TypeOK, Relay, Orderly, NEW e \in Engines, NEW aborted \in BOOLEAN,
         NEW p \in Controllers \cup Sources \cup {"watchdog"}, Finish(e, aborted, p),
         engine[e].st = "active",
         transEngine = e \/ \E c \in Controllers : ctl[c].pc = "stopping",
         UNCHANGED <<state, program, transEngine>>,
         \A c \in Controllers : ctl'[c] = ctl[c] \/ (ctl[c].pc = "tbar" /\ ctl'[c].pc = "idle"),
         \A s \in Sources : frame'[s] = frame[s] \/ frame'[s] = NoEngine
  PROVE  Relay'
<1>0. e # NoEngine
  BY EngineAssumption
<1>1. \A c, d \in Controllers : c = d
  BY DEF Orderly
<1>2. \A c \in Controllers : ~ Starting(c) /\ ~ Holding(c) /\ ~ Starting(c)' /\ ~ Holding(c)'
  BY <1>0, <1>1, RelayFacts DEF Starting, Holding
<1>3. /\ engine'[e].st = "idle" /\ engine'[e].kind = engine[e].kind /\ comp'[e].pc = "lock"
      /\ \A f \in Engines : f # e => engine'[f] = engine[f] /\ comp'[f] = comp[f]
  BY DEF Finish, TypeOK, EngineRecords, Callbacks, NoCallback
<1>4. \A f \in Engines : f # e => engine[f].st # "active" /\ comp[f].pc = "none"
  BY DEF Relay, OneAlive, Alive
<1>5. \A f \in Engines : /\ Alive(f)' <=> f = e
                         /\ engine'[f].st # "active"
                         /\ comp'[f].pc # "none" => f = e
                         /\ comp'[f].pc \notin HandlerSteps
  BY <1>3, <1>4 DEF Alive, HandlerSteps
<1>6. OneAlive' /\ MarkedStarts' /\ StarterMarks' /\ StarterAlone' /\ StarterHolds'
  <2>1. MarkedStarts'
    BY <1>2 DEF Relay, MarkedStarts
  <2>2. StarterAlone'
    BY <1>2 DEF StarterAlone, Starting
  <2>. QED BY <1>2, <1>5, <2>1, <2>2 DEF OneAlive, StarterMarks, StarterHolds
<1>7. PublishedMarked'
  <2>1. transEngine # NoEngine => transEngine = e
    BY <1>1 DEF Relay, CutFound, CutSteps
  <2>. QED BY <1>3, <1>5, <2>1 DEF Relay, PublishedMarked
<1>8. ActiveKnown' /\ HandlerFound'
  BY <1>5 DEF ActiveKnown, HandlerFound
<1>9. PublishedOrLate'
  BY <1>5 DEF Relay, PublishedOrLate, CutFound, CutSteps
<1>10. CutFound'
  BY DEF Relay, CutFound, CutSteps
<1>. QED BY <1>6, <1>7, <1>8, <1>9, <1>10 DEF Relay

\* A request of one operator.
LEMMA RequestRelay ==
  ASSUME TypeOK, Relay, Orderly, NEW c \in Controllers, Request(c) PROVE Relay'
<1>0. /\ \A d \in Controllers : d = c
      /\ ctl[c].pc = "idle" /\ \A e \in Engines : comp[e].pc = "none"
  BY DEF Orderly, Request, MarkFadeToBlack, MarkFadeReverse, TBarRead, Abort, MarkTransition, Cut,
     SetPreview, Can
<1>1. CASE MarkFadeToBlack(c)
  BY <1>0, <1>1, MarkRelay DEF MarkFadeToBlack, Orderly, Kinds
<1>2. CASE MarkFadeReverse(c)
  BY <1>0, <1>2, MarkRelay DEF MarkFadeReverse, InTransition, Kinds
<1>3. CASE TBarRead(c)
  <2>1. ctl'[c].pc = "tbar" /\ UNCHANGED <<state, program, transEngine, engine, comp, frame>>
    BY <1>3 DEF TBarRead, busVars, TypeOK, NoRequest
  <2>. QED BY <1>0, <2>1, BystanderRelay DEF CutSteps
<1>4. CASE Abort(c)
  BY <1>4 DEF Abort, Can, Orderly
<1>5. ASSUME NEW s \in Sources, MarkTransition(c, s) PROVE Relay'
  BY <1>0, <1>5, MarkRelay DEF MarkTransition, InTransition, Kinds
<1>6. ASSUME NEW s \in Sources, Cut(c, s) PROVE Relay'
  <2>. DEFINE stop == IF InTransition(state) THEN transEngine ELSE NoEngine
  <2>1. /\ ctl'[c].kind = "cut" /\ ctl'[c].to = s /\ ctl'[c].engine = stop
        /\ ctl'[c].pc = IF stop = NoEngine THEN "cutting" ELSE "stopping"
    BY <1>6 DEF Cut, TypeOK
  <2>2. /\ program' = s /\ ~ InTransition(state') /\ transEngine' = NoEngine
        /\ UNCHANGED <<engine, comp, frame>>
    BY <1>6, RelayFacts DEF Cut, InTransition
  <2>3. ctl'[c].pc \in CutSteps /\ ~ Starting(c)' /\ ~ Holding(c)'
    BY <2>1 DEF CutSteps, Starting, Holding
  <2>4. \A e \in Engines : engine[e].st = "active" => e = stop
    BY <1>0, RelayFacts, EngineAssumption DEF Relay, ActiveKnown
  <2>5. \A e \in Engines : Alive(e)' <=> Alive(e)
    BY <2>2 DEF Alive
  <2>6. OneAlive' /\ MarkedStarts' /\ StarterMarks' /\ StarterAlone' /\ StarterHolds'
    BY <1>0, <2>2, <2>3, <2>5
       DEF Relay, OneAlive, MarkedStarts, StarterMarks, StarterAlone, StarterHolds, Starting
  <2>7. ActiveKnown'
    BY <1>0, <2>1, <2>2, <2>4, EngineAssumption DEF ActiveKnown
  <2>8. PublishedMarked' /\ PublishedOrLate' /\ HandlerFound' /\ CutFound'
    BY <1>0, <2>1, <2>2 DEF PublishedMarked, PublishedOrLate, HandlerFound, HandlerSteps, CutFound
  <2>. QED BY <2>6, <2>7, <2>8 DEF Relay
<1>7. ASSUME NEW s \in Sources, SetPreview(c, s) PROVE Relay'
  BY <1>7, StillRelay DEF SetPreview
<1>. QED BY <1>1, <1>2, <1>3, <1>4, <1>5, <1>6, <1>7 DEF Request

\* A request that starts a transition, from the mark to the published engine.
LEMMA StartRelay ==
  ASSUME TypeOK, Relay, Orderly, NEW c \in Controllers,
         StartRollback(c) \/ StartEngine(c) \/ StartFade(c) \/ Publish(c)
  PROVE  Relay'
<1>0. /\ \A d \in Controllers : d = c
      /\ Starting(c) /\ ctl[c] \in Requests /\ ctl[c].kind \in Kinds
  BY DEF Orderly, TypeOK, Requests, StartRollback, StartEngine, StartFade, Publish, Starting
<1>1. /\ transEngine = NoEngine /\ InTransition(state) /\ state = Marked(ctl[c].kind)
      /\ \A e \in Engines : comp[e].pc = "none"
  BY <1>0, RelayFacts DEF Relay, StarterMarks
<1>2. CASE StartRollback(c)
  <2>1. /\ ctl'[c].pc = "idle" /\ ~ InTransition(state')
        /\ UNCHANGED <<program, transEngine, engine, comp, frame>>
    BY <1>0, <1>2, MarkFacts DEF StartRollback, TypeOK, NoRequest
  <2>2. \A e \in Engines : ~ Alive(e)
    BY <1>2 DEF StartRollback, Relay, StarterAlone
  <2>3. \A e \in Engines : ~ Alive(e)' /\ engine'[e].st # "active" /\ comp'[e].pc = "none"
    BY <2>1, <2>2 DEF Alive
  <2>4. ~ Starting(c)' /\ ~ Holding(c)'
    BY <2>1 DEF Starting, Holding
  <2>5. OneAlive' /\ MarkedStarts' /\ StarterMarks' /\ StarterAlone' /\ StarterHolds'
    BY <1>0, <2>1, <2>3, <2>4 DEF OneAlive, MarkedStarts, StarterMarks, StarterAlone, StarterHolds
  <2>6. PublishedMarked' /\ ActiveKnown' /\ PublishedOrLate' /\ HandlerFound' /\ CutFound'
    BY <1>0, <1>1, <2>1, <2>3
       DEF PublishedMarked, ActiveKnown, PublishedOrLate, HandlerFound, HandlerSteps, CutFound, CutSteps
  <2>. QED BY <2>5, <2>6 DEF Relay
<1>3. CASE StartEngine(c)
  <2>1. PICK e \in Engines :
           /\ Fresh(e)
           /\ engine' = [engine EXCEPT ![e] = [NewEngine EXCEPT !.st = "active", !.kind = ctl[c].kind,
                                                   !.from = ctl[c].from, !.to = ctl[c].to]]
           /\ ctl' = [ctl EXCEPT ![c].pc = "fading", ![c].engine = e]
    BY <1>3 DEF StartEngine
  <2>2. /\ engine'[e].st = "active" /\ engine'[e].kind = ctl[c].kind /\ engine'[e].to = ctl[c].to
        /\ \A f \in Engines : f # e => engine'[f] = engine[f]
    BY <2>1 DEF TypeOK, NewEngine
  <2>3. /\ ctl'[c].pc = "fading" /\ ctl'[c].engine = e
        /\ ctl'[c].kind = ctl[c].kind /\ ctl'[c].to = ctl[c].to
    BY <1>0, <2>1 DEF TypeOK, Requests
  <2>4. (\A s \in Sources : frame[s] # e) /\ UNCHANGED <<state, program, transEngine, comp, frame>>
    BY <1>3, <2>1 DEF Fresh, StartEngine, busVars
  <2>5. \A f \in Engines : ~ Alive(f)
    BY <1>3 DEF StartEngine, Relay, StarterAlone
  <2>6. \A f \in Engines : (Alive(f)' <=> f = e) /\ (engine'[f].st = "active" <=> f = e) /\ comp'[f].pc = "none"
    BY <2>2, <2>4, <2>5 DEF Alive
  <2>7. Starting(c)' /\ Holding(c)'
    BY <2>3 DEF Starting, Holding
  <2>8. OneAlive' /\ MarkedStarts' /\ StarterMarks' /\ StarterAlone' /\ StarterHolds'
    BY <1>0, <1>1, <2>2, <2>3, <2>4, <2>6, <2>7
       DEF OneAlive, MarkedStarts, StarterMarks, StarterAlone, StarterHolds
  <2>9. PublishedMarked' /\ ActiveKnown' /\ PublishedOrLate' /\ HandlerFound' /\ CutFound'
    BY <1>0, <1>1, <2>3, <2>4, <2>6
       DEF PublishedMarked, ActiveKnown, PublishedOrLate, HandlerFound, HandlerSteps, CutFound, CutSteps
  <2>. QED BY <2>8, <2>9 DEF Relay
<1>4. CASE StartFade(c)
  <2>1. /\ ctl[c].pc = "fading" /\ ctl'[c].pc = "publishing" /\ ctl'[c].engine = ctl[c].engine
        /\ ctl'[c].kind = ctl[c].kind /\ ctl'[c].to = ctl[c].to
        /\ UNCHANGED <<state, program, transEngine, engine, comp, frame>>
    BY <1>0, <1>4 DEF StartFade, busVars, TypeOK, Requests
  <2>2. Holding(c) /\ Holding(c)' /\ Starting(c)'
    BY <2>1 DEF Starting, Holding
  <2>3. \A f \in Engines : Alive(f)' <=> Alive(f)
    BY <2>1 DEF Alive
  <2>4. OneAlive' /\ MarkedStarts' /\ StarterMarks' /\ StarterAlone' /\ StarterHolds'
    BY <1>0, <2>1, <2>2, <2>3
       DEF Relay, OneAlive, MarkedStarts, StarterMarks, StarterAlone, StarterHolds
  <2>5. PublishedMarked' /\ ActiveKnown' /\ PublishedOrLate' /\ HandlerFound' /\ CutFound'
    BY <1>0, <1>1, <2>1
       DEF Relay, PublishedMarked, ActiveKnown, PublishedOrLate, HandlerFound, HandlerSteps, CutFound, CutSteps
  <2>. QED BY <2>4, <2>5 DEF Relay
<1>5. CASE Publish(c)
  <2>1. /\ transEngine' = ctl[c].engine /\ ctl'[c].pc = "idle"
        /\ UNCHANGED <<state, program, engine, comp, frame>>
    BY <1>5 DEF Publish, TypeOK, NoRequest
  <2>2. Holding(c) /\ ctl[c].engine \in Engines
    BY <1>0, <1>5 DEF Publish, Requests, Holding
  <2>3. engine[ctl[c].engine].st = "active" /\ engine[ctl[c].engine].kind = ctl[c].kind
    BY <2>2 DEF Relay, StarterHolds
  <2>4. \A e \in Engines : (Alive(e)' <=> Alive(e)) /\ (Alive(e) <=> e = ctl[c].engine)
    BY <2>1, <2>2, <2>3 DEF Relay, OneAlive, Alive
  <2>5. ~ Starting(c)' /\ ~ Holding(c)'
    BY <2>1 DEF Starting, Holding
  <2>6. ctl[c].engine # NoEngine
    BY <2>2, EngineAssumption
  <2>7. OneAlive' /\ MarkedStarts' /\ StarterMarks' /\ StarterAlone' /\ StarterHolds'
    BY <1>0, <2>1, <2>4, <2>5, <2>6 DEF OneAlive, MarkedStarts, StarterMarks, StarterAlone, StarterHolds
  <2>8. PublishedMarked'
    BY <1>0, <1>1, <2>1, <2>2, <2>3, <2>4 DEF PublishedMarked
  <2>9. ActiveKnown' /\ PublishedOrLate' /\ HandlerFound' /\ CutFound'
    BY <1>0, <1>1, <2>1, <2>4
       DEF Alive, ActiveKnown, PublishedOrLate, HandlerFound, HandlerSteps, CutFound, CutSteps
  <2>. QED BY <2>7, <2>8, <2>9 DEF Relay
<1>. QED BY <1>2, <1>3, <1>4, <1>5

\* The T-bar and the steps of a cut after s.mu.
LEMMA CutRelay ==
  ASSUME TypeOK, Relay, Orderly, NEW c \in Controllers,
         \/ \E position \in {"zero", "moved", "end"} : TBarMove(c, position)
         \/ StopEngine(c) \/ AbortFade(c) \/ CutFade(c) \/ CutFollow(c)
  PROVE  Relay'
<1>0. (\A d \in Controllers : d = c) /\ ctl[c] \in Requests
  BY DEF Orderly, TypeOK
<1>1. ASSUME NEW position \in {"zero", "moved", "end"}, TBarMove(c, position) PROVE Relay'
  <2>. DEFINE e == ctl[c].engine
  <2>1. e \in Engines /\ ctl[c].pc = "tbar"
    BY <1>0, <1>1 DEF TBarMove, Requests
  <2>2. UNCHANGED <<state, program, transEngine, frame>> /\ ctl'[c].pc = "idle"
    BY <1>1 DEF TBarMove, busVars, TypeOK, NoRequest
  <2>3. CASE engine[e].st = "active" /\ (Finish(e, FALSE, c) \/ Finish(e, TRUE, c))
    <3>1. transEngine = e
      BY <1>0, <2>1, <2>3 DEF Relay, ActiveKnown
    <3>2. /\ e \in Engines /\ engine[e].st = "active" /\ transEngine = e
          /\ \A d \in Controllers : ctl'[d] = ctl[d] \/ (ctl[d].pc = "tbar" /\ ctl'[d].pc = "idle")
          /\ \A s \in Sources : frame'[s] = frame[s] \/ frame'[s] = NoEngine
          /\ UNCHANGED <<state, program, transEngine>>
          /\ c \in Controllers \cup Sources \cup {"watchdog"}
      BY <1>0, <2>1, <2>2, <2>3, <3>1
    <3>. HIDE DEF e
    <3>3. ASSUME NEW aborted \in BOOLEAN, Finish(e, aborted, c) PROVE Relay'
      BY <3>2, <3>3, FinishRelay, Zenon
    <3>. QED BY <2>3, <3>3
  <2>4. CASE UNCHANGED <<engine, comp>>
    BY <2>1, <2>2, <2>4, BystanderRelay DEF CutSteps
  <2>5. CASE engine' = [engine EXCEPT ![e].bar = position] /\ UNCHANGED comp
    <3>1. \A f \in Engines : /\ engine'[f].st = engine[f].st /\ engine'[f].kind = engine[f].kind
                            /\ engine'[f].to = engine[f].to
      BY <2>1, <2>5 DEF TypeOK, EngineRecords
    <3>. QED BY <2>1, <2>2, <2>5, <3>1, BystanderRelay DEF CutSteps
  <2>6. engine[e].st \in {"active", "idle"}
    BY <2>1 DEF TypeOK, EngineRecords
  <2>. QED BY <1>1, <2>3, <2>4, <2>5, <2>6 DEF TBarMove
<1>2. CASE StopEngine(c)
  <2>. DEFINE e == ctl[c].engine
  <2>1. /\ ctl[c].pc = "stopping" /\ e \in Engines
        /\ ctl[c].kind = "cut" /\ ctl[c].to = program /\ ~ InTransition(state) /\ transEngine = NoEngine
    BY <1>0, <1>2 DEF StopEngine, Requests, Relay, CutFound, CutSteps
  <2>2. /\ engine'[e].st = "idle" /\ engine'[e].kind = engine[e].kind
        /\ \A f \in Engines : f # e => engine'[f] = engine[f]
        /\ UNCHANGED <<state, program, transEngine, comp, frame>>
    BY <1>2, <2>1 DEF StopEngine, busVars, TypeOK, EngineRecords
  <2>3. ctl'[c].pc = "unfading" /\ ctl'[c].kind = "cut" /\ ctl'[c].to = program
    BY <1>0, <1>2, <2>1 DEF StopEngine, TypeOK, Requests
  <2>4. \A f \in Engines : engine'[f].st # "active"
    BY <1>0, <2>1, <2>2, EngineAssumption DEF Relay, ActiveKnown
  <2>5. \A f \in Engines : Alive(f)' => Alive(f)
    BY <2>2, <2>4 DEF Alive
  <2>6. ~ Starting(c)' /\ ~ Holding(c)'
    BY <2>3 DEF Starting, Holding
  <2>7. OneAlive' /\ MarkedStarts' /\ StarterMarks' /\ StarterAlone' /\ StarterHolds'
    BY <1>0, <2>1, <2>2, <2>3, <2>5, <2>6
       DEF Relay, OneAlive, MarkedStarts, StarterMarks, StarterAlone, StarterHolds
  <2>8. PublishedMarked' /\ ActiveKnown' /\ PublishedOrLate' /\ CutFound'
    BY <1>0, <2>1, <2>2, <2>3, <2>4 DEF PublishedMarked, ActiveKnown, PublishedOrLate, CutFound
  <2>9. HandlerFound'
    BY <1>0, <2>1, <2>2 DEF Relay, HandlerFound
  <2>. QED BY <2>7, <2>8, <2>9 DEF Relay
<1>3. CASE AbortFade(c)
  <2>1. ctl[c].pc = "unfading" /\ ctl[c].kind = "cut"
    BY <1>3 DEF AbortFade, Relay, CutFound, CutSteps
  <2>2. /\ ctl'[c].pc = "cutting" /\ ctl'[c].kind = ctl[c].kind /\ ctl'[c].to = ctl[c].to
        /\ UNCHANGED <<state, program, transEngine, engine, comp, frame>>
    BY <1>0, <1>3, <2>1 DEF AbortFade, busVars, TypeOK, Requests
  <2>. QED BY <2>1, <2>2, BystanderRelay DEF CutSteps
<1>4. CASE CutFade(c)
  <2>1. /\ ctl[c].pc = "cutting"
        /\ ctl'[c].pc = "following" /\ ctl'[c].kind = ctl[c].kind /\ ctl'[c].to = ctl[c].to
        /\ UNCHANGED <<state, program, transEngine, engine, comp, frame>>
    BY <1>0, <1>4 DEF CutFade, busVars, TypeOK, Requests
  <2>. QED BY <2>1, BystanderRelay DEF CutSteps
<1>5. CASE CutFollow(c)
  <2>1. /\ ctl[c].pc = "following" /\ ctl'[c].pc = "idle"
        /\ UNCHANGED <<state, program, transEngine, engine, comp, frame>>
    BY <1>5 DEF CutFollow, busVars, TypeOK, NoRequest
  <2>. QED BY <2>1, BystanderRelay DEF CutSteps
<1>. QED BY <1>1, <1>2, <1>3, <1>4, <1>5

\* What the callback of a transition does under s.mu.
LEMMA CompleteFacts ==
  ASSUME TypeOK, Relay, Orderly, NEW e \in Engines, CompleteMix(e) \/ CompleteFade(e)
  PROVE  /\ comp[e].pc = "lock" /\ transEngine = e /\ state = Marked(engine[e].kind)
         /\ \A c \in Controllers : ctl[c].pc \in {"idle", "tbar"}
         /\ \A f \in Engines : engine[f].st # "active" /\ (f # e => comp[f].pc = "none")
         /\ transEngine' = NoEngine /\ ~ InTransition(state')
         /\ \A f \in Engines : f # e => comp'[f].pc = "none"
         /\ UNCHANGED <<engine, ctl, frame>>
<1>1. /\ comp[e].pc = "lock" /\ InTransition(state)
      /\ transEngine' = NoEngine /\ UNCHANGED <<engine, ctl, frame>>
  BY DEF CompleteMix, CompleteFade
<1>2. transEngine = e /\ e # NoEngine
  BY <1>1, EngineAssumption DEF Relay, PublishedOrLate
<1>3. state = Marked(engine[e].kind) /\ \A c \in Controllers : ctl[c].pc \in {"idle", "tbar"}
  BY <1>2 DEF Relay, PublishedMarked
<1>4. \A f \in Engines : f # e => ~ Alive(f)
  BY <1>1 DEF Relay, OneAlive, Alive
<1>5. engine[e].st # "active"
  BY <1>1 DEF Relay, ActiveKnown
<1>6. ~ InTransition(state')
  BY RelayFacts, MarkFacts DEF CompleteMix, CompleteFade, InTransition
<1>7. \A f \in Engines : f # e => comp'[f] = comp[f]
  BY DEF CompleteMix, CompleteFade, TypeOK
<1>. QED BY <1>1, <1>2, <1>3, <1>4, <1>5, <1>6, <1>7 DEF Alive

\* The callback's new phase.
LEMMA CompletePhase ==
  ASSUME TypeOK, NEW e \in Engines
  PROVE  /\ CompleteMix(e) => /\ comp'[e].pc = "sync" /\ comp'[e].snap = program' /\ state' = "idle"
                              /\ engine[e].kind = "mix" /\ (comp'[e].follow \/ program' = program)
         /\ CompleteFade(e) => /\ comp'[e].pc = "audio" /\ comp'[e].follow = (state' = "ftb")
                               /\ engine[e].kind # "mix" /\ UNCHANGED <<program, preview>>
                               /\ state' = IF comp[e].aborted THEN Aborted(engine[e].kind)
                                                              ELSE Completed(engine[e].kind)
         /\ CompleteSync(e) => comp'[e].pc = "audio"
         /\ CompleteSync(e) \/ CompleteAudio(e) =>
              (comp'[e].pc # "none" => comp'[e].snap = comp[e].snap /\ comp'[e].follow = comp[e].follow)
         /\ CompleteAudio(e) => comp'[e].pc = IF comp[e].follow THEN "follow" ELSE "none"
         /\ CompleteFollow(e) \/ CompleteLate(e) => comp'[e].pc = "none"
         /\ Callback(e) => \A f \in Engines : f # e => comp'[f] = comp[f]
<1>0. comp[e] \in Callbacks
  BY DEF TypeOK
<1>1. CompleteMix(e) => /\ comp'[e].pc = "sync" /\ comp'[e].snap = program' /\ state' = "idle"
                        /\ engine[e].kind = "mix" /\ (comp'[e].follow \/ program' = program)
  <2>. SUFFICES ASSUME CompleteMix(e)
                PROVE  /\ comp'[e].pc = "sync" /\ comp'[e].snap = program' /\ state' = "idle"
                       /\ engine[e].kind = "mix" /\ (comp'[e].follow \/ program' = program)
    OBVIOUS
  <2>1. PICK b \in BOOLEAN : /\ comp' = [comp EXCEPT ![e].pc = "sync", ![e].snap = program', ![e].follow = b]
                             /\ b \/ program' = program
    BY DEF CompleteMix
  <2>2. comp'[e] = [comp[e] EXCEPT !.pc = "sync", !.snap = program', !.follow = b]
    BY <2>1 DEF TypeOK
  <2>3. comp'[e].pc = "sync" /\ comp'[e].snap = program' /\ comp'[e].follow = b
    BY <1>0, <2>2 DEF Callbacks
  <2>. QED BY <2>1, <2>3 DEF CompleteMix
<1>2. CompleteFade(e) => /\ comp'[e].pc = "audio" /\ comp'[e].follow = (state' = "ftb")
                         /\ engine[e].kind # "mix" /\ UNCHANGED <<program, preview>>
                         /\ state' = IF comp[e].aborted THEN Aborted(engine[e].kind)
                                                        ELSE Completed(engine[e].kind)
  BY <1>0 DEF CompleteFade, TypeOK, Callbacks
<1>3. CompleteSync(e) => /\ comp'[e].pc = "audio" /\ comp'[e].snap = comp[e].snap
                         /\ comp'[e].follow = comp[e].follow
  BY <1>0 DEF CompleteSync, TypeOK, Callbacks
<1>4. CompleteAudio(e) =>
        /\ comp'[e].pc = IF comp[e].follow THEN "follow" ELSE "none"
        /\ comp'[e].pc # "none" => comp'[e].snap = comp[e].snap /\ comp'[e].follow = comp[e].follow
  BY <1>0 DEF CompleteAudio, TypeOK, Callbacks, NoCallback
<1>5. CompleteFollow(e) \/ CompleteLate(e) => comp'[e].pc = "none"
  BY DEF CompleteFollow, CompleteLate, TypeOK, NoCallback
<1>6. Callback(e) => \A f \in Engines : f # e => comp'[f] = comp[f]
  BY DEF Callback, CompleteLate, CompleteMix, CompleteFade, CompleteSync, CompleteAudio,
     CompleteFollow, TypeOK
<1>. QED BY <1>1, <1>2, <1>3, <1>4, <1>5, <1>6

\* A callback that leaves s.mu alone, or came too late.
LEMMA LateRelay ==
  ASSUME TypeOK, Relay, Orderly, NEW e \in Engines,
         UNCHANGED <<state, program, transEngine, engine, ctl, frame>>,
         comp[e].pc # "none", transEngine = NoEngine,
         \A f \in Engines : f # e => comp'[f] = comp[f],
         comp'[e].pc \in {"none", "audio", "follow"},
         comp'[e].pc # "none" => /\ comp[e].pc \in HandlerSteps
                                 /\ comp'[e].snap = comp[e].snap /\ comp'[e].follow = comp[e].follow,
         comp'[e].pc = "follow" => comp[e].follow
  PROVE  Relay'
<1>1. \A f \in Engines : Alive(f)' => Alive(f)
  BY DEF Alive
<1>2. \A c \in Controllers : (Starting(c)' <=> Starting(c)) /\ (Holding(c)' <=> Holding(c))
  BY DEF Starting, Holding
<1>3. \A c \in Controllers : ~ Starting(c)
  BY DEF Relay, StarterMarks
<1>4. OneAlive' /\ MarkedStarts' /\ StarterMarks' /\ StarterAlone' /\ StarterHolds'
  BY <1>1, <1>2, <1>3 DEF Relay, OneAlive, MarkedStarts, StarterMarks, StarterAlone, StarterHolds
<1>5. PublishedMarked' /\ ActiveKnown' /\ PublishedOrLate' /\ CutFound'
  BY DEF Relay, PublishedMarked, ActiveKnown, PublishedOrLate, CutFound, HandlerSteps
<1>6. HandlerFound'
  BY DEF Relay, HandlerFound, HandlerSteps
<1>. QED BY <1>4, <1>5, <1>6 DEF Relay

LEMMA EngineStepRelay ==
  ASSUME TypeOK, Relay, Orderly, NEW e \in Engines, Callback(e) \/ Watchdog(e) PROVE Relay'
<1>1. CASE CompleteMix(e) \/ CompleteFade(e)
  <2>1. \A f \in Engines : engine'[f].st # "active" /\ (Alive(f)' => f = e)
    BY <1>1, CompleteFacts DEF Alive
  <2>2. \A c \in Controllers : ~ Starting(c)' /\ ~ Holding(c)' /\ ctl'[c].pc \in {"idle", "tbar"}
    BY <1>1, CompleteFacts DEF Starting, Holding
  <2>3. transEngine' = NoEngine /\ ~ InTransition(state') /\ \A f \in Engines : f # e => comp'[f].pc = "none"
    BY <1>1, CompleteFacts
  <2>4. comp'[e].pc \in {"sync", "audio"}
    BY <1>1, CompletePhase
  <2>5. OneAlive' /\ MarkedStarts' /\ StarterMarks' /\ StarterAlone' /\ StarterHolds'
    BY <2>1, <2>2, <2>3 DEF OneAlive, MarkedStarts, StarterMarks, StarterAlone, StarterHolds, Starting
  <2>6. PublishedMarked' /\ ActiveKnown' /\ PublishedOrLate' /\ CutFound'
    BY <2>1, <2>2, <2>3, <2>4 DEF PublishedMarked, ActiveKnown, PublishedOrLate, CutFound, CutSteps
  <2>7. /\ state' = IF engine'[e].kind # "mix" /\ comp'[e].follow THEN "ftb" ELSE "idle"
        /\ engine'[e].kind = "mix" => comp'[e].snap = program'
        /\ comp'[e].pc = "sync" => engine'[e].kind = "mix"
    <3>1. engine' = engine
      BY <1>1, CompleteFacts
    <3>2. CompleteFade(e) => state' \in {"ftb", "idle"}
      BY CompletePhase, RelayFacts DEF Aborted, Completed, Kinds
    <3>. QED BY <1>1, <3>1, <3>2, CompletePhase
  <2>8. HandlerFound'
    BY <2>2, <2>3, <2>4, <2>7 DEF HandlerFound, HandlerSteps
  <2>. QED BY <2>5, <2>6, <2>8 DEF Relay
<1>2. CASE CompleteLate(e)
  <2>1. transEngine = NoEngine
    BY <1>2, RelayFacts DEF CompleteLate
  <2>2. UNCHANGED <<state, program, transEngine, engine, ctl, frame>> /\ comp[e].pc = "lock"
    BY <1>2 DEF CompleteLate, busVars
  <2>3. comp'[e].pc = "none" /\ \A f \in Engines : f # e => comp'[f] = comp[f]
    BY <1>2, CompletePhase DEF Callback
  <2>. QED BY <2>1, <2>2, <2>3, LateRelay
<1>3. CASE CompleteSync(e) \/ CompleteAudio(e) \/ CompleteFollow(e)
  <2>1. comp[e].pc \in HandlerSteps /\ UNCHANGED <<state, program, transEngine, engine, ctl, frame>>
    BY <1>3 DEF CompleteSync, CompleteAudio, CompleteFollow, busVars, HandlerSteps
  <2>2. transEngine = NoEngine /\ comp[e].pc # "none"
    BY <2>1 DEF Relay, HandlerFound, HandlerSteps
  <2>3. \A f \in Engines : f # e => comp'[f] = comp[f]
    BY <1>3, CompletePhase DEF Callback
  <2>4. comp'[e].pc \in {"none", "audio", "follow"} /\ (comp'[e].pc = "follow" => comp[e].follow)
    BY <1>3, CompletePhase
  <2>5. comp'[e].pc # "none" => comp'[e].snap = comp[e].snap /\ comp'[e].follow = comp[e].follow
    BY <1>3, CompletePhase
  <2>. QED BY <2>1, <2>2, <2>3, <2>4, <2>5, LateRelay
<1>4. CASE Watchdog(e)
  <2>1. /\ e \in Engines /\ engine[e].st = "active" /\ Finish(e, TRUE, "watchdog")
        /\ transEngine = e \/ \E c \in Controllers : ctl[c].pc = "stopping"
        /\ UNCHANGED <<state, program, transEngine>>
        /\ \A c \in Controllers : ctl'[c] = ctl[c] \/ (ctl[c].pc = "tbar" /\ ctl'[c].pc = "idle")
        /\ \A s \in Sources : frame'[s] = frame[s] \/ frame'[s] = NoEngine
        /\ TRUE \in BOOLEAN /\ "watchdog" \in Controllers \cup Sources \cup {"watchdog"}
    BY <1>4 DEF Watchdog, busVars, Relay, ActiveKnown
  <2>. QED BY <2>1, FinishRelay, Zenon
<1>. QED BY <1>1, <1>2, <1>3, <1>4 DEF Callback

LEMMA SourceStepRelay ==
  ASSUME TypeOK, Relay, Orderly, NEW s \in Sources,
         \/ Register(s) \/ FrameRoute(s) \/ FrameIngest(s) \/ FrameComplete(s)
         \/ Unregister(s) /\ Calm
  PROVE  Relay'
<1>1. CASE Register(s)
  BY <1>1, StillRelay DEF Register
<1>2. CASE Unregister(s) /\ Calm
  BY <1>2, StillRelay DEF Unregister, Calm, Orderly
<1>3. CASE FrameRoute(s)
  BY <1>3, StillRelay DEF FrameRoute, busVars, TypeOK
<1>4. CASE FrameIngest(s)
  <2>1. frame[s] \in Engines
    BY <1>4 DEF FrameIngest, TypeOK
  <2>2. \A e \in Engines : /\ engine'[e].st = engine[e].st /\ engine'[e].kind = engine[e].kind
                          /\ engine'[e].to = engine[e].to
    BY <1>4, <2>1 DEF FrameIngest, TypeOK, EngineRecords
  <2>3. /\ UNCHANGED <<state, program, transEngine, comp, ctl>>
        /\ \A r \in Sources : frame'[r] \in {frame[r], NoEngine, transEngine}
    BY <1>4 DEF FrameIngest, busVars, TypeOK
  <2>. QED BY <2>2, <2>3, StillRelay
<1>5. CASE FrameComplete(s)
  <2>. DEFINE e == frame[s]
  <2>1. e \in Engines /\ engine[e].st = "active" /\ Finish(e, FALSE, s)
    BY <1>5 DEF FrameComplete, TypeOK
  <2>2. transEngine = e \/ \E c \in Controllers : ctl[c].pc = "stopping"
    BY <2>1 DEF Relay, ActiveKnown, StarterHolds, Holding
  <2>3. /\ UNCHANGED <<state, program, transEngine>>
        /\ \A c \in Controllers : ctl'[c] = ctl[c] \/ (ctl[c].pc = "tbar" /\ ctl'[c].pc = "idle")
        /\ \A r \in Sources : frame'[r] = frame[r] \/ frame'[r] = NoEngine
        /\ FALSE \in BOOLEAN /\ s \in Controllers \cup Sources \cup {"watchdog"}
    BY <1>5 DEF FrameComplete, busVars, TypeOK
  <2>. HIDE DEF e
  <2>. QED BY <2>1, <2>2, <2>3, FinishRelay, Zenon
<1>. QED BY <1>1, <1>2, <1>3, <1>4, <1>5

\* The program and the targets stay registered.
LEMMA RequestRegistered ==
  ASSUME TypeOK, Relay, Orderly, ProgramRegistered, TargetRegistered, NEW c \in Controllers, Request(c)
  PROVE  ProgramRegistered' /\ TargetRegistered'
<1>0. \A d \in Controllers : d = c
  BY DEF Orderly
<1>m. ASSUME NEW kind \in Kinds, NEW to, Mark(c, kind, to), kind = "mix" => to \in registered
      PROVE  ProgramRegistered' /\ TargetRegistered'
  <2>1. /\ ctl'[c].kind = kind /\ ctl'[c].to = to
        /\ UNCHANGED <<program, registered, transEngine, engine>>
    BY <1>m DEF Mark, TypeOK
  <2>. QED BY <1>0, <1>m, <2>1 DEF ProgramRegistered, TargetRegistered
<1>1. CASE MarkFadeToBlack(c)
  BY <1>1, <1>m DEF MarkFadeToBlack, Kinds
<1>2. CASE MarkFadeReverse(c)
  BY <1>2, <1>m DEF MarkFadeReverse, Kinds
<1>3. CASE TBarRead(c)
  <2>1. ctl'[c].pc = "tbar" /\ UNCHANGED <<program, registered, transEngine, engine>>
    BY <1>3 DEF TBarRead, busVars, TypeOK, NoRequest
  <2>. QED BY <1>0, <2>1 DEF ProgramRegistered, TargetRegistered, Starting
<1>4. CASE Abort(c)
  BY <1>4 DEF Abort, Can, Orderly
<1>5. ASSUME NEW s \in Sources, MarkTransition(c, s) PROVE ProgramRegistered' /\ TargetRegistered'
  BY <1>5, <1>m DEF MarkTransition, Kinds
<1>6. ASSUME NEW s \in Sources, Cut(c, s) PROVE ProgramRegistered' /\ TargetRegistered'
  <2>1. ctl'[c].pc \in {"cutting", "stopping"}
    BY <1>6 DEF Cut, TypeOK
  <2>2. s \in registered /\ program' = s /\ registered' = registered /\ transEngine' = NoEngine
    BY <1>6, RelayFacts DEF Cut
  <2>. QED BY <1>0, <2>1, <2>2 DEF ProgramRegistered, TargetRegistered, Starting
<1>7. ASSUME NEW s \in Sources, SetPreview(c, s) PROVE ProgramRegistered' /\ TargetRegistered'
  BY <1>7 DEF SetPreview, ProgramRegistered, TargetRegistered, Starting
<1>. QED BY <1>1, <1>2, <1>3, <1>4, <1>5, <1>6, <1>7 DEF Request

LEMMA ContinueRegistered ==
  ASSUME TypeOK, Relay, Orderly, ProgramRegistered, TargetRegistered, NEW c \in Controllers, Continue(c)
  PROVE  ProgramRegistered' /\ TargetRegistered'
<1>0. (\A d \in Controllers : d = c) /\ ctl[c] \in Requests
  BY DEF Orderly, TypeOK
<1>1. program' = program /\ registered' = registered
  BY DEF Continue, StartRollback, StartEngine, StartFade, Publish, TBarMove, StopEngine, AbortFade,
     CutFade,
     CutFollow, busVars
<1>2. Starting(c)' => Starting(c) /\ ctl'[c].kind = ctl[c].kind /\ ctl'[c].to = ctl[c].to
  <2>1. CASE StartEngine(c) \/ StartFade(c)
    BY <1>0, <2>1 DEF StartEngine, StartFade, TypeOK, Requests, Starting
  <2>2. CASE StopEngine(c) \/ AbortFade(c)
    <3>1. ctl'[c].pc \in {"unfading", "cutting", "idle"}
      <4>1. [ctl[c] EXCEPT !.pc = "unfading", !.engine = NoEngine].pc = "unfading"
            /\ [ctl[c] EXCEPT !.pc = "cutting"].pc = "cutting" /\ NoRequest.pc = "idle"
        BY <1>0 DEF Requests, NoRequest
      <4>. QED BY <2>2, <4>1 DEF StopEngine, AbortFade, TypeOK
    <3>. QED BY <3>1 DEF Starting
  <2>3. CASE StartRollback(c) \/ Publish(c) \/ CutFade(c) \/ CutFollow(c)
    BY <1>0, <2>3 DEF StartRollback, Publish, CutFade, CutFollow, TypeOK, Requests, NoRequest, Starting
  <2>4. ASSUME NEW position \in {"zero", "moved", "end"}, TBarMove(c, position) PROVE ~ Starting(c)'
    BY <2>4 DEF TBarMove, TypeOK, NoRequest, Starting
  <2>. QED BY <2>1, <2>2, <2>3, <2>4 DEF Continue
<1>3. transEngine' # NoEngine /\ engine'[transEngine'].kind = "mix" => engine'[transEngine'].to \in registered
  <2>1. CASE Publish(c)
    <3>1. Starting(c) /\ Holding(c)
      BY <2>1 DEF Publish, Starting, Holding
    <3>. QED BY <2>1, <3>1 DEF Publish, Relay, StarterHolds, TargetRegistered
  <2>2. CASE StartEngine(c)
    <3>1. transEngine' = NoEngine
      BY <2>2, RelayFacts DEF StartEngine, busVars, Starting
    <3>. QED BY <3>1
  <2>3. CASE ~ Publish(c) /\ ~ StartEngine(c)
    <3>1. transEngine' = transEngine
      BY <2>3 DEF Continue, StartRollback, StartFade, TBarMove, StopEngine, AbortFade, CutFade,
         CutFollow, busVars
    <3>2. \A e \in Engines : engine'[e].kind = engine[e].kind /\ engine'[e].to = engine[e].to
      <4>1. CASE StopEngine(c)
        BY <1>0, <4>1 DEF StopEngine, TypeOK, EngineRecords, Requests
      <4>2. ASSUME NEW position \in {"zero", "moved", "end"}, TBarMove(c, position)
            PROVE  \A e \in Engines : engine'[e].kind = engine[e].kind /\ engine'[e].to = engine[e].to
        BY <1>0, <4>2, SMTT(60) DEF TBarMove, Finish, TypeOK, EngineRecords, Requests
      <4>3. CASE StartRollback(c) \/ StartFade(c) \/ AbortFade(c) \/ CutFade(c) \/ CutFollow(c)
        BY <4>3 DEF StartRollback, StartFade, AbortFade, CutFade, CutFollow
      <4>. QED BY <2>3, <4>1, <4>2, <4>3 DEF Continue
    <3>. QED BY <3>1, <3>2, RelayFacts DEF TargetRegistered
  <2>. QED BY <2>1, <2>2, <2>3
<1>. QED BY <1>0, <1>1, <1>2, <1>3 DEF ProgramRegistered, TargetRegistered

LEMMA EngineStepRegistered ==
  ASSUME TypeOK, Relay, Orderly, ProgramRegistered, TargetRegistered, NEW e \in Engines, Callback(e) \/ Watchdog(e)
  PROVE  ProgramRegistered' /\ TargetRegistered'
<1>1. ctl' = ctl /\ registered' = registered
  BY DEF Callback, CompleteLate, CompleteMix, CompleteFade, CompleteSync, CompleteAudio,
     CompleteFollow, Watchdog,
     busVars
<1>2. \A f \in Engines : engine'[f].kind = engine[f].kind /\ engine'[f].to = engine[f].to
  BY DEF Callback, CompleteLate, CompleteMix, CompleteFade, CompleteSync, CompleteAudio,
     CompleteFollow, Watchdog,
     Finish, TypeOK, EngineRecords
<1>3. transEngine' = transEngine \/ transEngine' = NoEngine
  BY DEF Callback, CompleteLate, CompleteMix, CompleteFade, CompleteSync, CompleteAudio,
     CompleteFollow, Watchdog,
     busVars
<1>4. ProgramRegistered'
  <2>1. CASE CompleteMix(e)
    <3>1. transEngine = e /\ e # NoEngine
      BY <2>1, CompleteFacts, EngineAssumption
    <3>2. program' \in {program, engine[e].to}
      BY <2>1, <3>1 DEF CompleteMix
    <3>3. engine[e].to \in registered
      BY <2>1, <3>1 DEF CompleteMix, TargetRegistered
    <3>. QED BY <1>1, <3>2, <3>3 DEF ProgramRegistered
  <2>2. CASE ~ CompleteMix(e)
    <3>1. program' = program
      BY <2>2 DEF Callback, CompleteLate, CompleteFade, CompleteSync, CompleteAudio, CompleteFollow,
         Watchdog, busVars
    <3>. QED BY <1>1, <3>1 DEF ProgramRegistered
  <2>. QED BY <2>1, <2>2
<1>5. TargetRegistered'
  BY <1>1, <1>2, <1>3, RelayFacts DEF TargetRegistered, Starting
<1>. QED BY <1>4, <1>5

LEMMA SourceStepRegistered ==
  ASSUME TypeOK, Relay, Orderly, ProgramRegistered, TargetRegistered, NEW s \in Sources,
         \/ Register(s) \/ Unregister(s) \/ FrameRoute(s) \/ FrameIngest(s) \/ FrameComplete(s)
  PROVE  ProgramRegistered' /\ TargetRegistered'
<1>1. CASE Register(s)
  BY <1>1 DEF Register, ProgramRegistered, TargetRegistered, Starting
<1>2. CASE Unregister(s)
  <2>1. s \notin Targets
    BY <1>2 DEF Unregister, Orderly
  <2>2. \A c \in Controllers : Starting(c) => ctl[c].to # s
    BY <2>1 DEF Targets, Starting
  <2>3. transEngine # NoEngine => engine[transEngine].to # s
    BY <2>1, RelayFacts DEF Targets
  <2>. QED BY <1>2, <2>2, <2>3 DEF Unregister, ProgramRegistered, TargetRegistered, Starting
<1>3. CASE FrameRoute(s) \/ FrameIngest(s) \/ FrameComplete(s)
  <2>1. UNCHANGED <<program, registered, transEngine, ctl>>
    BY <1>3 DEF FrameRoute, FrameIngest, FrameComplete, busVars
  <2>2. frame[s] # NoEngine => frame[s] \in Engines
    BY DEF TypeOK
  <2>3. \A e \in Engines : engine'[e].kind = engine[e].kind /\ engine'[e].to = engine[e].to
    BY <1>3, <2>2 DEF FrameRoute, FrameIngest, FrameComplete, Finish, TypeOK, EngineRecords
  <2>. QED BY <2>1, <2>3, RelayFacts DEF ProgramRegistered, TargetRegistered, Starting
<1>. QED BY <1>1, <1>2, <1>3

\* What each method of the mixer changes.
LEMMA MixerFields ==
  ASSUME NEW m \in Mixers
  PROVE  /\ \A s \in Sources : /\ AddChannel(m, s).channels = m.channels \cup {s}
                               /\ RemoveChannel(m, s).channels = m.channels \ {s}
                               /\ AddChannel(m, s).active = m.active \ {s}
                               /\ RemoveChannel(m, s).active = m.active \ {s}
                               /\ AddChannel(m, s).fade = m.fade /\ RemoveChannel(m, s).fade = m.fade
                               /\ AddChannel(m, s).cutLeft = m.cutLeft /\ RemoveChannel(m, s).cutLeft = m.cutLeft
                               /\ AddChannel(m, s).muted = m.muted /\ RemoveChannel(m, s).muted = m.muted
         /\ \A p : LET n == OnProgramChange(m, p)
                   IN /\ n.active = {p} \cap m.channels
                      /\ n.channels = m.channels /\ n.fade = m.fade /\ n.cutLeft = m.cutLeft /\ n.muted = m.muted
         /\ \A p, q : LET n == OnCut(m, p, q)
                      IN /\ n.cutLeft > 0 /\ m.active \subseteq n.active
                         /\ n.channels = m.channels /\ n.muted = m.muted
         /\ \A p, q, k : LET n == OnTransitionStart(m, p, q, k)
                         IN m.active \subseteq n.active /\ n.channels = m.channels /\ n.muted = m.muted
         /\ \A b : LET n == SetProgramMute(m, b)
                   IN /\ n.muted = b
                      /\ n.active = m.active /\ n.channels = m.channels /\ n.fade = m.fade /\ n.cutLeft = m.cutLeft
         /\ LET n == ClearFade(m)
            IN n.fade = NoFade /\ n.active = m.active /\ n.channels = m.channels /\ n.muted = m.muted
         /\ LET n == Tick(m)
            IN /\ n.fade = NoFade \/ n.cutLeft > 0
               /\ n.active = m.active /\ n.channels = m.channels /\ n.muted = m.muted
<1>0. m.cutLeft \in 0 .. CutTicks
  BY DEF Mixers
<1>1. \A s \in Sources : /\ AddChannel(m, s).channels = m.channels \cup {s}
                         /\ RemoveChannel(m, s).channels = m.channels \ {s}
                         /\ AddChannel(m, s).active = m.active \ {s}
                         /\ RemoveChannel(m, s).active = m.active \ {s}
                         /\ AddChannel(m, s).fade = m.fade /\ RemoveChannel(m, s).fade = m.fade
                         /\ AddChannel(m, s).cutLeft = m.cutLeft /\ RemoveChannel(m, s).cutLeft = m.cutLeft
                         /\ AddChannel(m, s).muted = m.muted /\ RemoveChannel(m, s).muted = m.muted
  BY DEF AddChannel, RemoveChannel, Mixers
<1>2. \A p : LET n == OnProgramChange(m, p)
             IN /\ n.active = {p} \cap m.channels
                /\ n.channels = m.channels /\ n.fade = m.fade /\ n.cutLeft = m.cutLeft /\ n.muted = m.muted
  BY DEF OnProgramChange, Mixers
<1>3. \A p, q : LET n == OnCut(m, p, q)
                IN /\ n.cutLeft > 0 /\ m.active \subseteq n.active
                   /\ n.channels = m.channels /\ n.muted = m.muted
  BY DEF OnCut, Mixers, CutTicks
<1>4. \A p, q, k : LET n == OnTransitionStart(m, p, q, k)
                   IN m.active \subseteq n.active /\ n.channels = m.channels /\ n.muted = m.muted
  BY DEF OnTransitionStart, Mixers
<1>5. \A b : LET n == SetProgramMute(m, b)
             IN /\ n.muted = b
                /\ n.active = m.active /\ n.channels = m.channels /\ n.fade = m.fade /\ n.cutLeft = m.cutLeft
  BY DEF SetProgramMute, Mixers
<1>6. LET n == ClearFade(m)
      IN n.fade = NoFade /\ n.active = m.active /\ n.channels = m.channels /\ n.muted = m.muted
  BY DEF ClearFade, Mixers
<1>7. LET n == Tick(m)
      IN /\ n.fade = NoFade \/ n.cutLeft > 0
         /\ n.active = m.active /\ n.channels = m.channels /\ n.muted = m.muted
  <2>1. CASE m.cutLeft > 1
    BY <1>0, <2>1 DEF Tick, Mixers, CutTicks
  <2>2. CASE ~ (m.cutLeft > 1)
    BY <1>6, <2>2 DEF Tick
  <2>. QED BY <2>1, <2>2
<1>. QED BY <1>1, <1>2, <1>3, <1>4, <1>5, <1>6, <1>7

\* The wiring of channels is kept by steps that leave registrations and channels alone.
LEMMA WiringKept ==
  ASSUME AVInv, Orderly, UNCHANGED <<wiring, registered>>, mix'.channels = mix.channels,
         \/ \A s \in Sources : wiring[s] = "done"
         \/ \E c \in Controllers : ctl[c].pc # "idle"
         \/ /\ \/ program' = program
               \/ /\ transEngine # NoEngine /\ engine[transEngine].kind = "mix"
                  /\ program' = engine[transEngine].to
            /\ transEngine' \in {transEngine, NoEngine}
            /\ \A e \in Engines : engine'[e].kind = engine[e].kind /\ engine'[e].to = engine[e].to
            /\ \A c \in Controllers : ctl[c].pc = "idle" => ctl'[c].pc = "idle"
  PROVE  Wiring'
<1>0. Wiring /\ (transEngine # NoEngine => transEngine \in Engines)
  BY RelayFacts DEF AVInv, AVTypeOK, Following
<1>1. /\ \A s \in Sources : wiring'[s] = "add" => s \in registered'
      /\ \A s \in Sources : wiring'[s] = "remove" => s \notin registered'
      /\ \A s \in Sources : wiring'[s] = "done" => (s \in registered' <=> s \in mix'.channels)
  BY <1>0 DEF Wiring
<1>2. CASE \A s \in Sources : wiring[s] = "done"
  BY <1>1, <1>2 DEF Wiring
<1>3. CASE \E c \in Controllers : ctl[c].pc # "idle"
  <2>1. \A s \in Sources : wiring[s] = "done"
    BY <1>0, <1>3 DEF Wiring
  <2>. QED BY <1>2, <2>1
<1>4. CASE /\ \/ program' = program
              \/ /\ transEngine # NoEngine /\ engine[transEngine].kind = "mix"
                 /\ program' = engine[transEngine].to
           /\ transEngine' \in {transEngine, NoEngine}
           /\ \A e \in Engines : engine'[e].kind = engine[e].kind /\ engine'[e].to = engine[e].to
           /\ \A c \in Controllers : ctl[c].pc = "idle" => ctl'[c].pc = "idle"
  <2>1. \A s \in Sources : wiring[s] # "done" =>
          /\ s # program'
          /\ transEngine' # NoEngine /\ engine'[transEngine'].kind = "mix" => engine'[transEngine'].to # s
          /\ \A c \in Controllers : ctl'[c].pc = "idle"
    BY <1>0, <1>4 DEF Wiring
  <2>. QED BY <1>1, <2>1 DEF Wiring
<1>. QED BY <1>2, <1>3, <1>4

\* What follows the program while nothing but a published transition is under way.
LEMMA IdleFollowing ==
  ASSUME AVInv, \A c \in Controllers : ctl[c].pc \in {"idle", "tbar"},
         \A e \in Engines : comp[e].pc \in {"none", "lock"}
  PROVE  /\ program # NoSource => program \in mix.active
         /\ mix.fade # NoFade => mix.cutLeft > 0 \/ transEngine # NoEngine
         /\ mix.muted <=> state = "ftb"
         /\ program # NoSource =>
              syncProgram = program \/ (transEngine # NoEngine /\ engine[transEngine].kind = "mix")
<1>1. program # NoSource => program \in mix.active
  BY DEF AVInv, Following, AirHeld, CutSteps, HandlerSteps
<1>2. mix.fade # NoFade => mix.cutLeft > 0 \/ transEngine # NoEngine
  BY DEF AVInv, Following, FadeOwned
<1>3. mix.muted <=> state = "ftb"
  BY DEF AVInv, Following, MuteOwned, Muting, Unmuting
<1>4. program # NoSource =>
        syncProgram = program \/ (transEngine # NoEngine /\ engine[transEngine].kind = "mix")
  BY DEF AVInv, Following, PaceOwned
<1>. QED BY <1>1, <1>2, <1>3, <1>4

\* A step that nobody else has to be told of.
LEMMA StillFollows ==
  ASSUME AVInv, Orderly, UNCHANGED <<state, program, registered, transEngine, mix, syncProgram, wiring>>,
         \A e \in Engines : engine'[e].kind = engine[e].kind /\ engine'[e].to = engine[e].to,
         \A e \in Engines : comp'[e] = comp[e] \/ (comp[e].pc \in {"none", "lock"} /\ comp'[e].pc \in {"none", "lock"}),
         \A c \in Controllers : \/ ctl'[c].pc = ctl[c].pc
                                \/ ctl[c].pc \in {"idle", "tbar"} /\ ctl'[c].pc \in {"idle", "tbar"},
         \/ \A s \in Sources : wiring[s] = "done"
         \/ \A c \in Controllers : ctl[c].pc = "idle" => ctl'[c].pc = "idle"
  PROVE  Following'
<1>1. Wiring'
  BY WiringKept
<1>2. \A e \in Engines : comp'[e] = comp[e] \/ (comp[e].pc \notin HandlerSteps /\ comp'[e].pc \notin HandlerSteps)
  BY DEF HandlerSteps
<1>3. \A c \in Controllers : ctl'[c].pc = ctl[c].pc \/ (ctl[c].pc \notin CutSteps /\ ctl'[c].pc \notin CutSteps)
  BY DEF CutSteps
<1>4. AirHeld'
  BY <1>2, <1>3 DEF AVInv, Following, AirHeld
<1>5. FadeOwned'
  BY DEF AVInv, Following, FadeOwned
<1>6. MuteOwned'
  <2>1. Muting' <=> Muting
    BY <1>2 DEF Muting, HandlerSteps
  <2>2. Unmuting' <=> Unmuting
    BY DEF Unmuting
  <2>. QED BY <2>1, <2>2 DEF AVInv, Following, MuteOwned
<1>7. PaceOwned'
  <2>1. transEngine # NoEngine => transEngine \in Engines
    BY RelayFacts DEF AVInv, AVTypeOK
  <2>. QED BY <1>2, <2>1 DEF AVInv, Following, PaceOwned, HandlerSteps
<1>. QED BY <1>1, <1>4, <1>5, <1>6, <1>7 DEF Following

\* A request marks the state.
LEMMA MarkFollows ==
  ASSUME AVInv, Orderly, NEW c \in Controllers, NEW kind \in Kinds, NEW to, Mark(c, kind, to),
         UNCHANGED <<mix, syncProgram, wiring>>,
         ctl[c].pc = "idle", \A e \in Engines : comp[e].pc = "none", \A s \in Sources : wiring[s] = "done",
         state = IF kind = "ftb_reverse" THEN "ftb" ELSE "idle"
  PROVE  Following'
<1>0. (\A d \in Controllers : d = c) /\ TypeOK /\ Relay
  BY DEF Orderly, AVInv, AVTypeOK
<1>1. ctl'[c].pc = "starting" /\ state' = Marked(kind) /\ UNCHANGED <<program, registered, transEngine, engine, comp>>
  BY <1>0 DEF Mark, TypeOK
<1>2. transEngine = NoEngine
  BY <1>0, RelayFacts DEF InTransition
<1>3. Wiring'
  BY <1>1, WiringKept
<1>q. /\ program # NoSource => program \in mix.active /\ syncProgram = program
      /\ mix.fade # NoFade => mix.cutLeft > 0
      /\ mix.muted <=> state = "ftb"
  <2>1. \A d \in Controllers : ctl[d].pc \in {"idle", "tbar"}
    BY <1>0
  <2>2. \A e \in Engines : comp[e].pc \in {"none", "lock"}
    OBVIOUS
  <2>. QED BY <1>2, <2>1, <2>2, IdleFollowing
<1>4. AirHeld' /\ FadeOwned'
  BY <1>1, <1>q DEF AirHeld, FadeOwned
<1>5. MuteOwned'
  <2>1. ~ Muting'
    BY <1>1 DEF Muting
  <2>2. Unmuting' <=> kind = "ftb_reverse"
    BY <1>1 DEF Unmuting, Marked, Kinds
  <2>3. state' # "ftb"
    BY <1>1 DEF Marked, Kinds
  <2>4. mix'.muted <=> kind = "ftb_reverse"
    BY <1>q
  <2>. QED BY <2>1, <2>2, <2>3, <2>4 DEF MuteOwned
<1>6. PaceOwned'
  BY <1>1, <1>q DEF PaceOwned
<1>. QED BY <1>3, <1>4, <1>5, <1>6 DEF Following

\* The requests that do not tell the mixer anything by themselves.
LEMMA RequestFollows ==
  ASSUME AVInv, Orderly, NEW c \in Controllers, Wired, UNCHANGED <<mix, syncProgram, wiring>>,
         \/ MarkFadeToBlack(c) \/ MarkFadeReverse(c) \/ TBarRead(c)
         \/ \E s \in Sources : MarkTransition(c, s) \/ SetPreview(c, s)
  PROVE  Following'
<1>0. /\ \A d \in Controllers : d = c
      /\ ctl[c].pc = "idle" /\ \A e \in Engines : comp[e].pc = "none"
      /\ \A s \in Sources : wiring[s] = "done"
  BY DEF Orderly, MarkFadeToBlack, MarkFadeReverse, TBarRead, MarkTransition, SetPreview, Can, Wired
<1>1. CASE MarkFadeToBlack(c)
  <2>1. state = "idle" /\ Mark(c, "ftb", NoSource)
    BY <1>1 DEF MarkFadeToBlack, Orderly, AVInv, AVTypeOK, TypeOK, States, InTransition
  <2>. QED BY <1>0, <2>1, MarkFollows DEF Kinds
<1>2. CASE MarkFadeReverse(c)
  BY <1>0, <1>2, MarkFollows DEF MarkFadeReverse, Kinds
<1>3. CASE TBarRead(c)
  <2>1. ctl'[c].pc = "tbar" /\ UNCHANGED <<state, program, registered, transEngine, engine, comp>>
    BY <1>3 DEF TBarRead, busVars, AVInv, AVTypeOK, TypeOK, NoRequest
  <2>. QED BY <1>0, <2>1, StillFollows
<1>4. ASSUME NEW s \in Sources, MarkTransition(c, s) PROVE Following'
  BY <1>0, <1>4, MarkFollows DEF MarkTransition, Kinds
<1>5. ASSUME NEW s \in Sources, SetPreview(c, s) PROVE Following'
  BY <1>0, <1>5, StillFollows DEF SetPreview
<1>. QED BY <1>1, <1>2, <1>3, <1>4, <1>5

\* What follows the program while a transition is being started.
LEMMA StartingFollowing ==
  ASSUME AVInv, Orderly, NEW c \in Controllers, Starting(c)
  PROVE  /\ TypeOK /\ Relay /\ ctl[c].kind \in Kinds
         /\ transEngine = NoEngine /\ state = Marked(ctl[c].kind)
         /\ \A e \in Engines : comp[e].pc = "none"
         /\ \A s \in Sources : wiring[s] = "done"
         /\ program # NoSource => program \in mix.active /\ syncProgram = program
         /\ ctl[c].pc # "publishing" => /\ mix.fade # NoFade => mix.cutLeft > 0
                                        /\ mix.muted <=> ctl[c].kind = "ftb_reverse"
         /\ ctl[c].pc = "publishing" => ~ mix.muted
<1>1. TypeOK /\ Relay /\ ctl[c].kind \in Kinds
  BY DEF AVInv, AVTypeOK, TypeOK, Requests, Starting
<1>2. transEngine = NoEngine /\ state = Marked(ctl[c].kind) /\ \A e \in Engines : comp[e].pc = "none"
  BY <1>1, RelayFacts DEF Relay, StarterMarks
<1>3. \A d \in Controllers : d = c
  BY DEF Orderly
<1>4. \A s \in Sources : wiring[s] = "done"
  BY DEF AVInv, Following, Wiring, Starting
<1>5. program # NoSource => program \in mix.active /\ syncProgram = program
  BY <1>2, <1>3 DEF AVInv, Following, AirHeld, PaceOwned, Starting, CutSteps, HandlerSteps
<1>6. ctl[c].pc # "publishing" => (mix.fade # NoFade => mix.cutLeft > 0)
  BY <1>2, <1>3 DEF AVInv, Following, FadeOwned, Starting
<1>7. /\ ctl[c].pc # "publishing" => (mix.muted <=> ctl[c].kind = "ftb_reverse")
      /\ ctl[c].pc = "publishing" => ~ mix.muted
  <2>1. ~ Muting /\ state # "ftb"
    BY <1>1, <1>2 DEF Muting, Marked, Kinds
  <2>2. Unmuting <=> ctl[c].kind = "ftb_reverse" /\ ctl[c].pc # "publishing"
    BY <1>1, <1>2, <1>3 DEF Unmuting, Marked, Kinds, Starting
  <2>3. mix.muted <=> Unmuting
    BY <2>1 DEF AVInv, Following, MuteOwned
  <2>. QED BY <2>2, <2>3
<1>. QED BY <1>1, <1>2, <1>4, <1>5, <1>6, <1>7

\* A start that fails, and one that gets its engine.
LEMMA StartFollows ==
  ASSUME AVInv, Orderly, NEW c \in Controllers, StartRollback(c) \/ StartEngine(c),
         UNCHANGED <<mix, syncProgram, wiring>>
  PROVE  Following'
<1>0. Starting(c) /\ ctl[c].pc = "starting" /\ \A d \in Controllers : d = c
  BY DEF Orderly, StartRollback, StartEngine, Starting
<1>1. UNCHANGED <<program, registered, transEngine, comp>>
  BY DEF StartRollback, StartEngine, busVars
<1>2. \/ ctl'[c].pc = "idle" /\ state' = Aborted(ctl[c].kind)
      \/ ctl'[c].pc = "fading" /\ state' = state
  <2>1. TypeOK
    BY <1>0, StartingFollowing
  <2>2. CASE StartRollback(c)
    BY <2>1, <2>2 DEF StartRollback, TypeOK, NoRequest
  <2>3. CASE StartEngine(c)
    <3>1. ctl[c] \in Requests
      BY <2>1 DEF TypeOK
    <3>2. PICK e \in Engines : ctl' = [ctl EXCEPT ![c].pc = "fading", ![c].engine = e]
      BY <2>3 DEF StartEngine
    <3>3. ctl'[c] = [ctl[c] EXCEPT !.pc = "fading", !.engine = e]
      BY <2>1, <3>2 DEF TypeOK
    <3>4. ctl'[c].pc = "fading"
      BY <3>1, <3>3 DEF Requests
    <3>. QED BY <2>3, <3>4 DEF StartEngine, busVars
  <2>. QED BY <2>2, <2>3
<1>3. Wiring'
  BY <1>0, <1>1, StartingFollowing, WiringKept
<1>4. AirHeld' /\ FadeOwned' /\ PaceOwned'
  BY <1>0, <1>1, StartingFollowing DEF AirHeld, FadeOwned, PaceOwned
<1>5. MuteOwned'
  <2>1. ~ Muting' /\ (mix'.muted <=> ctl[c].kind = "ftb_reverse")
    BY <1>0, <1>1, StartingFollowing DEF Muting
  <2>2. ctl[c].kind \in Kinds /\ state = Marked(ctl[c].kind)
    BY <1>0, StartingFollowing
  <2>3. CASE ctl'[c].pc = "idle" /\ state' = Aborted(ctl[c].kind)
    <3>1. ~ Unmuting' /\ (state' = "ftb" <=> ctl[c].kind = "ftb_reverse")
      BY <1>0, <2>2, <2>3 DEF Unmuting, Aborted, Kinds
    <3>. QED BY <2>1, <3>1 DEF MuteOwned
  <2>4. CASE ctl'[c].pc = "fading" /\ state' = state
    <3>1. state' # "ftb" /\ (Unmuting' <=> ctl[c].kind = "ftb_reverse")
      BY <1>0, <2>2, <2>4 DEF Unmuting, Marked, Kinds
    <3>. QED BY <2>1, <3>1 DEF MuteOwned
  <2>. QED BY <1>2, <2>3, <2>4
<1>. QED BY <1>3, <1>4, <1>5 DEF Following

\* The crossfade begins, and a fade from black lifts the mute ...
LEMMA FadeStartFollows ==
  ASSUME AVInv, Orderly, NEW c \in Controllers, AVStartFade(c) PROVE Following'
<1>0. Starting(c) /\ ctl[c].pc = "fading" /\ \A d \in Controllers : d = c
  BY DEF Orderly, AVStartFade, StartFade, Starting
<1>1. /\ UNCHANGED <<state, program, registered, transEngine, engine, comp, syncProgram, wiring>>
      /\ ctl'[c].pc = "publishing"
  BY DEF AVStartFade, StartFade, busVars, AVInv, AVTypeOK, TypeOK, Requests
<1>. DEFINE open == IF ctl[c].kind = "ftb_reverse" THEN SetProgramMute(mix, FALSE) ELSE mix
<1>2. mix' = OnTransitionStart(open, ctl[c].from, ctl[c].to, FadeMode(ctl[c].kind))
  BY DEF AVStartFade
<1>3. mix \in Mixers /\ open \in Mixers
  BY MixerTypes DEF AVInv, AVTypeOK
<1>4. open.active = mix.active /\ open.channels = mix.channels /\ ~ open.muted
  <2>1. CASE ctl[c].kind = "ftb_reverse"
    BY <1>3, <2>1 DEF SetProgramMute, Mixers
  <2>2. CASE ctl[c].kind # "ftb_reverse"
    <3>1. ~ mix.muted
      BY <1>0, <2>2, StartingFollowing
    <3>. QED BY <2>2, <3>1
  <2>. QED BY <2>1, <2>2
<1>. HIDE DEF open
<1>5. mix.active \subseteq mix'.active /\ mix'.channels = mix.channels /\ ~ mix'.muted
  BY <1>2, <1>3, <1>4, MixerFields
<1>6. Wiring'
  BY <1>0, <1>1, <1>5, StartingFollowing, WiringKept
<1>7. AirHeld' /\ FadeOwned' /\ PaceOwned'
  BY <1>0, <1>1, <1>5, StartingFollowing DEF AirHeld, FadeOwned, PaceOwned
<1>8. MuteOwned'
  <2>1. ~ Muting' /\ ~ Unmuting'
    BY <1>0, <1>1, StartingFollowing DEF Muting, Unmuting
  <2>2. state' # "ftb"
    BY <1>0, <1>1, StartingFollowing DEF Marked, Kinds
  <2>. QED BY <1>5, <2>1, <2>2 DEF MuteOwned
<1>. QED BY <1>6, <1>7, <1>8 DEF Following

\* ... and the engine is published.
LEMMA PublishFollows ==
  ASSUME AVInv, Orderly, NEW c \in Controllers, AVPublish(c) PROVE Following'
<1>0. Starting(c) /\ Holding(c) /\ ctl[c].pc = "publishing" /\ \A d \in Controllers : d = c
  BY DEF Orderly, AVPublish, Publish, Starting, Holding
<1>1. /\ UNCHANGED <<state, program, registered, engine, comp, mix, wiring>>
      /\ transEngine' = ctl[c].engine /\ ctl'[c].pc = "idle"
      /\ ctl[c].kind # "mix" => syncProgram' = syncProgram
  BY DEF AVPublish, Publish, AVInv, AVTypeOK, TypeOK, NoRequest
<1>2. ctl[c].engine \in Engines /\ engine[ctl[c].engine].kind = ctl[c].kind
  BY <1>0, StartingFollowing, RelayFacts DEF Relay, StarterHolds
<1>3. transEngine' # NoEngine
  BY <1>1, <1>2, EngineAssumption
<1>4. Wiring'
  BY <1>0, <1>1, StartingFollowing, WiringKept
<1>5. AirHeld' /\ FadeOwned' /\ PaceOwned'
  BY <1>0, <1>1, <1>2, <1>3, StartingFollowing DEF AirHeld, FadeOwned, PaceOwned
<1>6. MuteOwned'
  <2>1. ~ Muting' /\ ~ Unmuting'
    BY <1>0, <1>1, StartingFollowing DEF Muting, Unmuting
  <2>2. state' # "ftb" /\ ~ mix'.muted
    BY <1>0, <1>1, StartingFollowing DEF Marked, Kinds
  <2>. QED BY <2>1, <2>2 DEF MuteOwned
<1>. QED BY <1>4, <1>5, <1>6 DEF Following

\* A cut takes the program and the pace with it; it will put the program on air itself.
LEMMA CutFollows ==
  ASSUME AVInv, Orderly, NEW c \in Controllers, NEW s \in Sources, AVCut(c, s) PROVE Following'
<1>0. /\ \A d \in Controllers : d = c
      /\ TypeOK /\ Relay /\ ctl[c].pc = "idle" /\ \A e \in Engines : comp[e].pc = "none"
      /\ \A r \in Sources : wiring[r] = "done"
  BY DEF Orderly, AVCut, Cut, Can, Wired, AVInv, AVTypeOK
<1>1. /\ UNCHANGED <<registered, engine, comp, mix, wiring>>
      /\ program' = s /\ syncProgram' = s /\ transEngine' = NoEngine
      /\ state' = IF InTransition(state) THEN "idle" ELSE state
  BY <1>0, RelayFacts DEF AVCut, Cut
<1>2. ctl'[c].pc = IF transEngine = NoEngine THEN "cutting" ELSE "stopping"
  BY <1>0, RelayFacts DEF AVCut, Cut, TypeOK
<1>3. Wiring'
  BY <1>0, <1>1, WiringKept
<1>4. AirHeld' /\ PaceOwned'
  BY <1>1, <1>2 DEF AirHeld, PaceOwned, CutSteps
<1>5. FadeOwned'
  BY <1>0, <1>1, <1>2, IdleFollowing DEF FadeOwned
<1>6. MuteOwned'
  <2>1. ~ Muting' /\ ~ Unmuting'
    BY <1>0, <1>1, <1>2 DEF Muting, Unmuting
  <2>2. state' = "ftb" <=> state = "ftb"
    BY <1>1 DEF InTransition
  <2>3. mix'.muted <=> state = "ftb"
    BY <1>0, <1>1, IdleFollowing
  <2>. QED BY <2>1, <2>2, <2>3 DEF MuteOwned
<1>. QED BY <1>3, <1>4, <1>5, <1>6 DEF Following

\* What follows the program during a cut.
LEMMA CutFollowing ==
  ASSUME AVInv, Orderly, NEW c \in Controllers, ctl[c].pc \in CutSteps
  PROVE  /\ TypeOK /\ Relay /\ ctl[c].to = program /\ ctl[c].kind = "cut" /\ transEngine = NoEngine
         /\ \A e \in Engines : comp[e].pc \notin HandlerSteps
         /\ \A s \in Sources : wiring[s] = "done"
         /\ program # NoSource => syncProgram = program
         /\ mix.muted <=> state = "ftb"
         /\ mix.fade # NoFade => mix.cutLeft > 0 \/ ctl[c].pc \in {"stopping", "unfading"}
         /\ \A s \in Sources : s \in registered <=> s \in mix.channels
<1>1. TypeOK /\ Relay /\ ctl[c].to = program /\ ctl[c].kind = "cut" /\ transEngine = NoEngine
  BY DEF AVInv, AVTypeOK, Relay, CutFound
<1>2. \A e \in Engines : comp[e].pc \notin HandlerSteps
  BY DEF AVInv, Relay, HandlerFound, CutSteps
<1>3. \A d \in Controllers : d = c
  BY DEF Orderly
<1>4. \A s \in Sources : wiring[s] = "done"
  BY DEF AVInv, Following, Wiring, CutSteps
<1>5. \A s \in Sources : s \in registered <=> s \in mix.channels
  BY <1>4 DEF AVInv, Following, Wiring
<1>6. program # NoSource => syncProgram = program
  BY <1>1, <1>2 DEF AVInv, Following, PaceOwned, HandlerSteps
<1>7. mix.muted <=> state = "ftb"
  BY <1>2, <1>3 DEF AVInv, Following, MuteOwned, Muting, Unmuting, HandlerSteps, CutSteps
<1>8. mix.fade # NoFade => mix.cutLeft > 0 \/ ctl[c].pc \in {"stopping", "unfading"}
  BY <1>1, <1>2, <1>3 DEF AVInv, Following, FadeOwned, HandlerSteps, CutSteps
<1>. QED BY <1>1, <1>2, <1>4, <1>5, <1>6, <1>7, <1>8

\* A cut's step from which the mixer comes out with the fade in order keeps the rest.
LEMMA CutStepFollows ==
  ASSUME AVInv, Orderly, NEW c \in Controllers, ctl[c].pc \in CutSteps,
         UNCHANGED <<state, program, registered, transEngine, comp, syncProgram, wiring>>,
         mix'.channels = mix.channels, mix'.muted = mix.muted,
         mix'.fade # NoFade => mix'.cutLeft > 0 \/ ctl'[c].pc \in {"stopping", "unfading"},
         \/ ctl'[c].pc \in CutSteps
         \/ ctl'[c].pc = "idle" /\ (program # NoSource => program \in mix'.active)
  PROVE  Following'
<1>0. \A d \in Controllers : d = c
  BY DEF Orderly
<1>1. Wiring'
  BY CutFollowing, WiringKept
<1>2. AirHeld' /\ FadeOwned' /\ PaceOwned'
  BY CutFollowing DEF AirHeld, FadeOwned, PaceOwned
<1>3. MuteOwned'
  <2>1. ~ Muting'
    BY CutFollowing DEF Muting, HandlerSteps
  <2>2. ~ Unmuting'
    BY <1>0 DEF Unmuting, CutSteps
  <2>. QED BY <2>1, <2>2, CutFollowing DEF MuteOwned
<1>. QED BY <1>1, <1>2, <1>3 DEF Following

LEMMA CutTailFollows ==
  ASSUME AVInv, Orderly, NEW c \in Controllers,
         \/ StopEngine(c) /\ UNCHANGED <<mix, syncProgram, wiring>>
         \/ AVAbortFade(c) \/ AVCutFade(c) \/ AVCutFollow(c)
  PROVE  Following'
<1>0. ctl[c].pc \in CutSteps
  BY DEF StopEngine, AVAbortFade, AbortFade, AVCutFade, CutFade, AVCutFollow, CutFollow, CutSteps
<1>1. /\ TypeOK /\ ctl[c].kind = "cut" /\ ctl[c] \in Requests /\ mix \in Mixers
      /\ ctl[c].to = program
  BY <1>0, CutFollowing DEF TypeOK, AVInv, AVTypeOK
<1>2. UNCHANGED <<state, program, registered, transEngine, comp, syncProgram, wiring>>
  BY DEF StopEngine, AVAbortFade, AbortFade, AVCutFade, CutFade, AVCutFollow, CutFollow, busVars
<1>3. CASE StopEngine(c) /\ UNCHANGED <<mix, syncProgram, wiring>>
  <2>1. ctl'[c].pc = "unfading"
    BY <1>1, <1>3 DEF StopEngine, TypeOK, Requests
  <2>. QED BY <1>0, <1>2, <1>3, <2>1, CutStepFollows DEF CutSteps
<1>4. CASE AVAbortFade(c)
  <2>1. ctl'[c].pc = "cutting"
    BY <1>1, <1>4 DEF AVAbortFade, AbortFade, TypeOK, Requests
  <2>2. mix' = ClearFade(mix)
    BY <1>4 DEF AVAbortFade
  <2>3. mix'.channels = mix.channels /\ mix'.muted = mix.muted /\ mix'.fade = NoFade
    BY <1>1, <2>2, MixerFields
  <2>. QED BY <1>0, <1>2, <2>1, <2>3, CutStepFollows DEF CutSteps
<1>5. CASE AVCutFade(c)
  <2>1. ctl[c].pc = "cutting" /\ ctl'[c].pc = "following"
    BY <1>1, <1>5 DEF AVCutFade, CutFade, TypeOK, Requests
  <2>2. mix' = mix \/ mix' = OnCut(mix, ctl[c].from, ctl[c].to)
    BY <1>5 DEF AVCutFade
  <2>3. /\ mix'.channels = mix.channels /\ mix'.muted = mix.muted
        /\ mix'.fade # NoFade => mix'.cutLeft > 0
    BY <1>0, <1>1, <2>1, <2>2, MixerFields, CutFollowing
  <2>. QED BY <1>0, <1>2, <2>1, <2>3, CutStepFollows DEF CutSteps
<1>6. CASE AVCutFollow(c)
  <2>1. ctl[c].pc = "following" /\ ctl'[c].pc = "idle"
    BY <1>1, <1>6 DEF AVCutFollow, CutFollow, TypeOK, NoRequest
  <2>2. mix' = OnProgramChange(mix, program)
    BY <1>1, <1>6 DEF AVCutFollow
  <2>3. /\ mix'.channels = mix.channels /\ mix'.muted = mix.muted /\ mix'.fade = mix.fade
        /\ mix'.cutLeft = mix.cutLeft /\ mix'.active = {program} \cap mix.channels
    BY <1>1, <2>2, MixerFields
  <2>4. program # NoSource => program \in mix.channels
    BY <1>0, <1>1, CutFollowing DEF AVInv, ProgramRegistered, TypeOK
  <2>5. mix'.fade # NoFade => mix'.cutLeft > 0
    BY <1>0, <2>1, <2>3, CutFollowing
  <2>. QED BY <1>0, <1>2, <2>1, <2>3, <2>4, <2>5, CutStepFollows
<1>. QED BY <1>3, <1>4, <1>5, <1>6

\* The T-bar moves.
LEMMA BarFollows ==
  ASSUME AVInv, Orderly, NEW c \in Controllers, NEW position \in {"zero", "moved", "end"},
         TBarMove(c, position), UNCHANGED <<mix, syncProgram, wiring>>
  PROVE  Following'
<1>. DEFINE e == ctl[c].engine
<1>1. TypeOK /\ Relay /\ (\A d \in Controllers : d = c) /\ ctl[c] \in Requests
  BY DEF AVInv, AVTypeOK, TypeOK, Orderly
<1>2. /\ ctl[c].pc = "tbar" /\ ctl'[c].pc = "idle" /\ e \in Engines
      /\ UNCHANGED <<state, program, registered, transEngine>>
  BY <1>1 DEF TBarMove, TypeOK, Requests, NoRequest, busVars
<1>3. \A f \in Engines : engine'[f].kind = engine[f].kind /\ engine'[f].to = engine[f].to
  BY <1>1, <1>2, SMTT(60) DEF TBarMove, Finish, TypeOK, EngineRecords
<1>4. \A f \in Engines : comp'[f] = comp[f] \/ (comp[f].pc = "none" /\ comp'[f].pc = "lock")
  <2>1. engine[e].st = "active" => comp[e].pc = "none"
    BY <1>1, <1>2 DEF Relay, ActiveKnown
  <2>2. comp' = comp \/ (engine[e].st = "active" /\ (Finish(e, FALSE, c) \/ Finish(e, TRUE, c)))
    BY DEF TBarMove
  <2>. HIDE DEF e
  <2>3. ASSUME NEW aborted \in BOOLEAN, Finish(e, aborted, c), engine[e].st = "active"
        PROVE  \A f \in Engines : comp'[f] = comp[f] \/ (comp[f].pc = "none" /\ comp'[f].pc = "lock")
    BY <1>1, <1>2, <2>1, <2>3 DEF Finish, TypeOK, NoCallback
  <2>. QED BY <2>2, <2>3
<1>5. \A s \in Sources : wiring[s] = "done"
  BY <1>2 DEF AVInv, Following, Wiring
<1>. QED BY <1>1, <1>2, <1>3, <1>4, <1>5, StillFollows

\* What follows the program while a callback past s.mu is under way.
LEMMA HandlerFollowing ==
  ASSUME AVInv, Orderly, NEW e \in Engines, comp[e].pc \in HandlerSteps
  PROVE  /\ TypeOK /\ Relay /\ transEngine = NoEngine
         /\ state = IF engine[e].kind # "mix" /\ comp[e].follow THEN "ftb" ELSE "idle"
         /\ engine[e].kind = "mix" => comp[e].snap = program
         /\ comp[e].pc = "sync" => engine[e].kind = "mix"
         /\ comp[e].pc = "follow" => comp[e].follow
         /\ \A c \in Controllers : ctl[c].pc \in {"idle", "tbar"}
         /\ \A f \in Engines : f # e => comp[f].pc = "none"
         /\ program # NoSource => program \in mix.active \/ (engine[e].kind = "mix" /\ comp[e].follow)
         /\ mix.fade # NoFade => mix.cutLeft > 0 \/ comp[e].pc \in {"sync", "audio"}
         /\ ~ mix.muted
         /\ program # NoSource => syncProgram = program \/ comp[e].pc = "sync"
<1>1. /\ TypeOK /\ Relay /\ transEngine = NoEngine
      /\ state = IF engine[e].kind # "mix" /\ comp[e].follow THEN "ftb" ELSE "idle"
      /\ engine[e].kind = "mix" => comp[e].snap = program
      /\ comp[e].pc = "sync" => engine[e].kind = "mix"
      /\ comp[e].pc = "follow" => comp[e].follow
      /\ \A c \in Controllers : ctl[c].pc \in {"idle", "tbar"}
  BY DEF AVInv, AVTypeOK, Relay, HandlerFound
<1>2. \A f \in Engines : f # e => comp[f].pc = "none"
  BY DEF AVInv, Relay, OneAlive, Alive, HandlerSteps
<1>3. program # NoSource => program \in mix.active \/ (engine[e].kind = "mix" /\ comp[e].follow)
  BY <1>1, <1>2 DEF AVInv, Following, AirHeld, CutSteps, HandlerSteps
<1>4. mix.fade # NoFade => mix.cutLeft > 0 \/ comp[e].pc \in {"sync", "audio"}
  BY <1>1, <1>2 DEF AVInv, Following, FadeOwned
<1>5. ~ mix.muted
  <2>1. ~ Unmuting
    BY <1>1 DEF Unmuting
  <2>2. state = "ftb" => Muting
    BY <1>1 DEF Muting, HandlerSteps
  <2>. QED BY <2>1, <2>2 DEF AVInv, Following, MuteOwned
<1>6. program # NoSource => syncProgram = program \/ comp[e].pc = "sync"
  BY <1>1, <1>2 DEF AVInv, Following, PaceOwned
<1>. QED BY <1>1, <1>2, <1>3, <1>4, <1>5, <1>6

\* The callback takes the transition off the switcher, and has the rest to tell.
LEMMA CompleteFollows ==
  ASSUME AVInv, Orderly, NEW e \in Engines, CompleteMix(e) \/ CompleteFade(e),
         UNCHANGED <<mix, syncProgram, wiring>>
  PROVE  Following'
<1>0. TypeOK /\ Relay
  BY DEF AVInv, AVTypeOK
<1>1. /\ comp[e].pc = "lock" /\ transEngine = e /\ state = Marked(engine[e].kind) /\ engine[e].kind \in Kinds
      /\ \A c \in Controllers : ctl[c].pc \in {"idle", "tbar"}
      /\ \A f \in Engines : f # e => comp[f].pc = "none" /\ comp'[f].pc = "none"
      /\ transEngine' = NoEngine /\ UNCHANGED <<engine, ctl>>
  BY <1>0, CompleteFacts, RelayFacts
<1>2. registered' = registered
  BY DEF CompleteMix, CompleteFade
<1>3. /\ program # NoSource => program \in mix.active
      /\ mix.muted <=> state = "ftb"
      /\ program # NoSource => syncProgram = program \/ engine[e].kind = "mix"
  BY <1>1, IdleFollowing
<1>4. ~ mix.muted
  BY <1>1, <1>3 DEF Marked, Kinds
<1>5. CASE CompleteMix(e)
  <2>1. /\ comp'[e].pc = "sync" /\ state' = "idle" /\ engine'[e].kind = "mix"
        /\ comp'[e].follow \/ program' = program
    BY <1>0, <1>1, <1>5, CompletePhase
  <2>2. program' = program \/ program' = engine[e].to
    BY <1>1, <1>5 DEF CompleteMix
  <2>3. Wiring'
    <3>1. e # NoEngine /\ engine[e].kind = "mix"
      BY <1>5, EngineAssumption DEF CompleteMix
    <3>. QED BY <1>1, <1>2, <2>2, <3>1, WiringKept
  <2>4. AirHeld' /\ FadeOwned' /\ PaceOwned'
    BY <1>3, <2>1 DEF AirHeld, FadeOwned, PaceOwned, HandlerSteps
  <2>5. MuteOwned'
    BY <1>4, <2>1 DEF MuteOwned, Unmuting
  <2>. QED BY <2>3, <2>4, <2>5 DEF Following
<1>6. CASE CompleteFade(e)
  <2>1. /\ comp'[e].pc = "audio" /\ comp'[e].follow = (state' = "ftb") /\ engine'[e].kind # "mix"
        /\ program' = program /\ state' \in {"idle", "ftb"}
    BY <1>0, <1>1, <1>6, CompletePhase DEF Aborted, Completed
  <2>2. Wiring'
    BY <1>1, <1>2, <2>1, WiringKept
  <2>3. AirHeld' /\ FadeOwned' /\ PaceOwned'
    BY <1>1, <1>3, <2>1 DEF AirHeld, FadeOwned, PaceOwned
  <2>4. MuteOwned'
    <3>1. ~ Unmuting' /\ (state' = "ftb" => Muting')
      BY <2>1 DEF Unmuting, Muting
    <3>. QED BY <1>4, <3>1 DEF MuteOwned
  <2>. QED BY <2>2, <2>3, <2>4 DEF Following
<1>. QED BY <1>5, <1>6

\* The calls after the unlock.
LEMMA HandlerFollows ==
  ASSUME AVInv, Orderly, NEW e \in Engines,
         AVCompleteSync(e) \/ AVCompleteAudio(e) \/ AVCompleteFollow(e)
  PROVE  Following'
<1>0. TypeOK /\ mix \in Mixers /\ comp[e].pc \in HandlerSteps
  BY DEF AVInv, AVTypeOK, AVCompleteSync, CompleteSync, AVCompleteAudio, CompleteAudio,
     AVCompleteFollow,
     CompleteFollow, HandlerSteps
<1>1. /\ UNCHANGED <<state, program, registered, transEngine, engine, ctl, wiring>>
      /\ \A f \in Engines : f # e => comp'[f].pc = "none"
  <2>1. Callback(e)
    BY DEF AVCompleteSync, AVCompleteAudio, AVCompleteFollow, Callback
  <2>2. \A f \in Engines : f # e => comp'[f].pc = "none"
    BY <1>0, <2>1, CompletePhase, HandlerFollowing
  <2>. QED BY <2>2 DEF AVCompleteSync, CompleteSync, AVCompleteAudio, CompleteAudio, AVCompleteFollow,
                      CompleteFollow, busVars
<1>2. ASSUME mix'.channels = mix.channels PROVE Wiring'
  BY <1>1, <1>2, WiringKept
<1>3. ~ Unmuting'
  BY <1>0, <1>1, HandlerFollowing DEF Unmuting
<1>4. CASE AVCompleteSync(e)
  <2>1. comp[e].pc = "sync" /\ mix' = mix /\ syncProgram' = comp[e].snap
    BY <1>4 DEF AVCompleteSync, CompleteSync
  <2>2. comp'[e].pc = "audio" /\ comp'[e].follow = comp[e].follow /\ engine[e].kind = "mix"
        /\ comp[e].snap = program
    BY <1>0, <1>4, <2>1, CompletePhase, HandlerFollowing DEF AVCompleteSync
  <2>3. Wiring'
    BY <1>2, <2>1
  <2>4. AirHeld' /\ FadeOwned' /\ PaceOwned'
    BY <1>0, <1>1, <2>1, <2>2, HandlerFollowing DEF AirHeld, FadeOwned, PaceOwned, HandlerSteps
  <2>5. MuteOwned'
    <3>1. state' = "idle" /\ ~ mix'.muted
      BY <1>0, <1>1, <2>1, <2>2, HandlerFollowing
    <3>. QED BY <1>3, <3>1 DEF MuteOwned
  <2>. QED BY <2>3, <2>4, <2>5 DEF Following
<1>5. CASE AVCompleteAudio(e)
  <2>1. comp[e].pc = "audio" /\ mix' = ClearFade(mix) /\ syncProgram' = syncProgram
    BY <1>5 DEF AVCompleteAudio, CompleteAudio
  <2>2. /\ mix'.fade = NoFade /\ mix'.active = mix.active
        /\ mix'.channels = mix.channels /\ mix'.muted = mix.muted
    BY <1>0, <2>1, MixerFields
  <2>3. /\ comp'[e].pc = IF comp[e].follow THEN "follow" ELSE "none"
        /\ comp'[e].pc # "none" => comp'[e].follow = comp[e].follow
    BY <1>0, <1>5, CompletePhase DEF AVCompleteAudio
  <2>4. Wiring'
    BY <1>2, <2>2
  <2>5. AirHeld' /\ FadeOwned' /\ PaceOwned'
    BY <1>0, <1>1, <2>1, <2>2, <2>3, HandlerFollowing DEF AirHeld, FadeOwned, PaceOwned, HandlerSteps
  <2>6. MuteOwned'
    <3>1. state' = "ftb" => Muting'
      BY <1>0, <1>1, <2>3, HandlerFollowing DEF Muting
    <3>2. ~ mix'.muted
      BY <1>0, <2>2, HandlerFollowing
    <3>. QED BY <1>3, <3>1, <3>2 DEF MuteOwned
  <2>. QED BY <2>4, <2>5, <2>6 DEF Following
<1>6. CASE AVCompleteFollow(e)
  <2>1. comp[e].pc = "follow" /\ syncProgram' = syncProgram
    BY <1>6 DEF AVCompleteFollow, CompleteFollow
  <2>2. \A f \in Engines : comp'[f].pc = "none"
    BY <1>0, <1>1, <1>6, CompletePhase DEF AVCompleteFollow
  <2>3. ~ Muting'
    BY <2>2 DEF Muting
  <2>4. comp[e].follow
    BY <1>0, <2>1, HandlerFollowing
  <2>5. CASE engine[e].kind = "mix"
    <3>1. mix' = OnProgramChange(mix, program)
      BY <1>0, <1>6, <2>5, HandlerFollowing DEF AVCompleteFollow
    <3>2. /\ mix'.active = {program} \cap mix.channels /\ mix'.channels = mix.channels
          /\ mix'.fade = mix.fade /\ mix'.cutLeft = mix.cutLeft /\ mix'.muted = mix.muted
      <4>1. mix \in Mixers
        BY <1>0
      <4>. QED BY <3>1, <4>1, MixerFields
    <3>3. program # NoSource => program \in mix.channels
      <4>1. program # NoSource => program \in registered /\ program \in Sources
        BY <1>0 DEF AVInv, ProgramRegistered, TypeOK
      <4>2. \A s \in Sources : wiring[s] \in {"add", "remove", "done"}
        BY DEF AVInv, AVTypeOK
      <4>. QED BY <4>1, <4>2 DEF AVInv, Following, Wiring
    <3>4. Wiring'
      BY <1>2, <3>2
    <3>5. AirHeld' /\ FadeOwned' /\ PaceOwned'
      BY <1>0, <1>1, <2>1, <3>2, <3>3, HandlerFollowing DEF AirHeld, FadeOwned, PaceOwned
    <3>6. state' # "ftb" /\ ~ mix'.muted
      BY <1>0, <1>1, <2>5, <3>2, HandlerFollowing
    <3>. QED BY <1>3, <3>4, <3>5, <3>6 DEF Following, MuteOwned
  <2>6. CASE engine[e].kind # "mix"
    <3>1. mix' = SetProgramMute(mix, TRUE)
      BY <1>6, <2>6 DEF AVCompleteFollow
    <3>2. /\ mix'.active = mix.active /\ mix'.channels = mix.channels
          /\ mix'.fade = mix.fade /\ mix'.cutLeft = mix.cutLeft
      BY <1>0, <3>1 DEF SetProgramMute, Mixers
    <3>3. mix'.muted
      BY <1>0, <3>1 DEF SetProgramMute, Mixers
    <3>4. Wiring'
      BY <1>2, <3>2
    <3>5. AirHeld' /\ FadeOwned' /\ PaceOwned'
      BY <1>0, <1>1, <2>1, <2>6, <3>2, HandlerFollowing DEF AirHeld, FadeOwned, PaceOwned
    <3>6. state' = "ftb"
      BY <1>0, <1>1, <2>4, <2>6, HandlerFollowing
    <3>. QED BY <2>3, <3>3, <3>4, <3>5, <3>6 DEF Following, MuteOwned
  <2>. QED BY <2>5, <2>6
<1>. QED BY <1>4, <1>5, <1>6

\* A source comes or goes while all is calm; its channel follows later.
LEMMA SourceFollows ==
  ASSUME AVInv, Orderly, NEW s \in Sources, AVRegister(s) \/ AVUnregister(s) PROVE Following'
<1>0. /\ \A c \in Controllers : ctl[c].pc = "idle"
      /\ \A e \in Engines : comp[e].pc = "none"
      /\ \A r \in Sources : wiring[r] = "done"
      /\ UNCHANGED <<state, transEngine, engine, comp, ctl, mix, syncProgram>>
  BY DEF Orderly, AVRegister, AVUnregister, Register, Unregister, Calm, Wired
<1>1. transEngine # NoEngine => transEngine \in Engines
  BY RelayFacts DEF AVInv, AVTypeOK
<1>2. Wiring
  BY DEF AVInv, Following
<1>3. /\ wiring'[s] = IF s \in registered THEN "remove" ELSE "add"
      /\ \A r \in Sources : r # s => wiring'[r] = "done"
  <2>1. wiring' = [wiring EXCEPT ![s] = IF s \in registered THEN "remove" ELSE "add"]
    BY DEF AVRegister, Register, AVUnregister, Unregister
  <2>2. wiring \in [Sources -> {"done", "add", "remove"}]
    BY DEF AVInv, AVTypeOK
  <2>. QED BY <1>0, <2>1, <2>2
<1>4. /\ \A r \in Sources : r # s => (r \in registered' <=> r \in registered)
      /\ s \in registered' <=> s \notin registered
      /\ program' = program \/ program' = NoSource
      /\ s # program'
  BY SourceAssumption DEF AVRegister, Register, AVUnregister, Unregister, AVInv, ProgramRegistered
<1>5. transEngine # NoEngine /\ engine[transEngine].kind = "mix" => engine[transEngine].to # s
  <2>1. CASE AVRegister(s)
    BY <2>1 DEF AVRegister, Register, AVInv, TargetRegistered
  <2>2. CASE AVUnregister(s)
    <3>1. s \notin Targets
      BY <2>2 DEF AVUnregister, Unregister, Orderly
    <3>. QED BY <1>1, <3>1 DEF Targets
  <2>. QED BY <2>1, <2>2
<1>6. Wiring'
  BY <1>0, <1>2, <1>3, <1>4, <1>5 DEF Wiring
<1>7. AirHeld' /\ FadeOwned' /\ PaceOwned'
  BY <1>0, <1>4 DEF AVInv, Following, AirHeld, FadeOwned, PaceOwned
<1>8. MuteOwned'
  BY <1>0 DEF AVInv, Following, MuteOwned, Muting, Unmuting
<1>. QED BY <1>6, <1>7, <1>8 DEF Following

\* The stream's callback tells the mixer, and the mixer ticks.
LEMMA MixerFollows ==
  ASSUME AVInv, MixerTick \/ \E s \in Sources : WireMixer(s) PROVE Following'
<1>0. mix \in Mixers /\ wiring \in [Sources -> {"done", "add", "remove"}] /\ Following
  BY DEF AVInv, AVTypeOK
<1>1. UNCHANGED <<vars, syncProgram>>
  BY DEF MixerTick, WireMixer
<1>2. ASSUME mix'.muted = mix.muted PROVE MuteOwned'
  BY <1>0, <1>1, <1>2 DEF Following, MuteOwned, Muting, Unmuting, vars, busVars
<1>3. PaceOwned'
  BY <1>0, <1>1 DEF Following, PaceOwned, vars, busVars
<1>4. ASSUME MixerTick PROVE Following'
  <2>1. /\ mix'.fade = NoFade \/ mix'.cutLeft > 0
        /\ mix'.active = mix.active /\ mix'.channels = mix.channels /\ mix'.muted = mix.muted
        /\ wiring' = wiring
    BY <1>0, <1>4, MixerFields DEF MixerTick
  <2>2. Wiring' /\ AirHeld' /\ FadeOwned'
    BY <1>0, <1>1, <2>1 DEF Following, Wiring, AirHeld, FadeOwned, vars, busVars
  <2>. QED BY <1>2, <1>3, <2>1, <2>2 DEF Following
<1>5. ASSUME NEW s \in Sources, WireMixer(s) PROVE Following'
  <2>1. /\ wiring[s] # "done" /\ wiring'[s] = "done" /\ \A r \in Sources : r # s => wiring'[r] = wiring[r]
        /\ mix' = IF wiring[s] = "add" THEN AddChannel(mix, s) ELSE RemoveChannel(mix, s)
    BY <1>0, <1>5 DEF WireMixer
  <2>2. /\ mix'.channels = IF wiring[s] = "add" THEN mix.channels \cup {s} ELSE mix.channels \ {s}
        /\ mix'.active = mix.active \ {s}
        /\ mix'.fade = mix.fade /\ mix'.cutLeft = mix.cutLeft /\ mix'.muted = mix.muted
    <3>1. CASE wiring[s] = "add"
      BY <1>0, <2>1, <3>1, MixerFields
    <3>2. CASE wiring[s] # "add"
      BY <1>0, <2>1, <3>2, MixerFields
    <3>. QED BY <3>1, <3>2
  <2>3. s # program /\ (wiring[s] = "add" <=> s \in registered)
    BY <1>0, <2>1 DEF Following, Wiring
  <2>4. Wiring'
    BY <1>0, <1>1, <2>1, <2>2, <2>3 DEF Following, Wiring, vars, busVars
  <2>5. AirHeld' /\ FadeOwned'
    BY <1>0, <1>1, <2>2, <2>3 DEF Following, AirHeld, FadeOwned, vars, busVars
  <2>. QED BY <1>2, <1>3, <2>2, <2>4, <2>5 DEF Following
<1>. QED BY <1>4, <1>5

\* Frames, and callbacks that come too late, have nothing to tell.
LEMMA QuietFollows ==
  ASSUME AVInv, Orderly, UNCHANGED <<mix, syncProgram, wiring>>,
         \/ \E e \in Engines : CompleteLate(e) \/ Watchdog(e)
         \/ \E s \in Sources : FrameRoute(s) \/ FrameIngest(s) \/ FrameComplete(s)
  PROVE  Following'
<1>0. TypeOK /\ Relay
  BY DEF AVInv, AVTypeOK
<1>1. /\ UNCHANGED <<state, program, registered, transEngine, ctl>>
      /\ \A f \in Engines : engine'[f].kind = engine[f].kind /\ engine'[f].to = engine[f].to
  <2>1. ASSUME NEW e \in Engines, CompleteLate(e) \/ Watchdog(e)
        PROVE  \A f \in Engines : engine'[f].kind = engine[f].kind /\ engine'[f].to = engine[f].to
    BY <1>0, <2>1 DEF CompleteLate, Watchdog, Finish, TypeOK, EngineRecords
  <2>2. ASSUME NEW s \in Sources, FrameRoute(s) \/ FrameIngest(s) \/ FrameComplete(s)
        PROVE  \A f \in Engines : engine'[f].kind = engine[f].kind /\ engine'[f].to = engine[f].to
    <3>1. frame[s] # NoEngine => frame[s] \in Engines
      BY <1>0 DEF TypeOK
    <3>2. CASE FrameRoute(s)
      BY <3>2 DEF FrameRoute
    <3>3. CASE FrameIngest(s)
      BY <1>0, <3>1, <3>3 DEF FrameIngest, TypeOK, EngineRecords
    <3>4. CASE FrameComplete(s)
      <4>1. frame[s] \in Engines /\ engine' = [engine EXCEPT ![frame[s]].st = "idle"]
        BY <3>1, <3>4 DEF FrameComplete, Finish
      <4>. QED BY <1>0, <4>1 DEF TypeOK, EngineRecords
    <3>. QED BY <2>2, <3>2, <3>3, <3>4
  <2>3. UNCHANGED <<state, program, registered, transEngine, ctl>>
    BY DEF CompleteLate, Watchdog, FrameRoute, FrameIngest, FrameComplete, busVars
  <2>. QED BY <2>1, <2>2, <2>3
<1>2. \A f \in Engines : comp'[f] = comp[f] \/ (comp[f].pc \in {"none", "lock"} /\ comp'[f].pc \in {"none", "lock"})
  <2>f. ASSUME NEW e \in Engines, NEW aborted \in BOOLEAN, NEW p, Finish(e, aborted, p), engine[e].st = "active"
        PROVE  \A f \in Engines : comp'[f] = comp[f] \/ (comp[f].pc \in {"none", "lock"} /\ comp'[f].pc \in {"none", "lock"})
    <3>1. comp[e].pc = "none"
      BY <1>0, <2>f DEF Relay, ActiveKnown
    <3>2. comp'[e].pc = "lock" /\ \A f \in Engines : f # e => comp'[f] = comp[f]
      BY <1>0, <2>f DEF Finish, TypeOK, NoCallback
    <3>. QED BY <3>1, <3>2
  <2>1. ASSUME NEW e \in Engines, Watchdog(e)
        PROVE  \A f \in Engines : comp'[f] = comp[f] \/ (comp[f].pc \in {"none", "lock"} /\ comp'[f].pc \in {"none", "lock"})
    BY <2>1, <2>f DEF Watchdog
  <2>2. ASSUME NEW e \in Engines, CompleteLate(e)
        PROVE  \A f \in Engines : comp'[f] = comp[f] \/ (comp[f].pc \in {"none", "lock"} /\ comp'[f].pc \in {"none", "lock"})
    <3>1. comp'[e].pc = "none" /\ comp[e].pc = "lock" /\ \A f \in Engines : f # e => comp'[f] = comp[f]
      BY <1>0, <2>2 DEF CompleteLate, TypeOK, NoCallback
    <3>. QED BY <3>1
  <2>3. ASSUME NEW s \in Sources, FrameComplete(s)
        PROVE  \A f \in Engines : comp'[f] = comp[f] \/ (comp[f].pc \in {"none", "lock"} /\ comp'[f].pc \in {"none", "lock"})
    BY <1>0, <2>3, <2>f DEF FrameComplete, TypeOK
  <2>4. ASSUME NEW s \in Sources, FrameRoute(s) \/ FrameIngest(s) PROVE comp' = comp
    BY <2>4 DEF FrameRoute, FrameIngest
  <2>. QED BY <2>1, <2>2, <2>3, <2>4
<1>. QED BY <1>1, <1>2, StillFollows

LEMMA AVInitHolds == AVInit => AVInv
<1>. SUFFICES ASSUME AVInit PROVE AVInv
  OBVIOUS
<1>1. AVTypeOK
  BY AVInitTypeOK
<1>2. /\ \A c \in Controllers : ctl[c].pc = "idle"
      /\ \A e \in Engines : engine[e].st = "idle" /\ comp[e].pc = "none"
      /\ state = "idle" /\ program = NoSource /\ registered = {} /\ transEngine = NoEngine
  BY DEF AVInit, Init, NoRequest, NewEngine, NoCallback
<1>3. /\ \A s \in Sources : wiring[s] = "done"
      /\ mix.channels = {} /\ mix.fade = NoFade /\ mix.muted = FALSE
  BY DEF AVInit, MixerInit
<1>4. ProgramRegistered /\ TargetRegistered
  BY <1>2 DEF ProgramRegistered, TargetRegistered, Starting
<1>5. Relay
  BY <1>2 DEF Relay, OneAlive, Alive, MarkedStarts, InTransition, StarterMarks, StarterAlone,
     StarterHolds, Starting,
     Holding, PublishedMarked, ActiveKnown, PublishedOrLate, HandlerFound, HandlerSteps, CutFound, CutSteps
<1>6. Following
  BY <1>2, <1>3 DEF Following, Wiring, AirHeld, FadeOwned, MuteOwned, Muting, Unmuting, PaceOwned
<1>. QED BY <1>1, <1>4, <1>5, <1>6 DEF AVInv

LEMMA AVNextHolds ==
  ASSUME Orderly PROVE AVInv /\ [AVNext]_avVars => AVInv'
<1>. SUFFICES ASSUME AVInv, [AVNext]_avVars PROVE AVInv'
  OBVIOUS
<1>0. TypeOK /\ Relay /\ ProgramRegistered /\ TargetRegistered
  BY DEF AVInv, AVTypeOK
<1>. DEFINE Rest == Relay' /\ ProgramRegistered' /\ TargetRegistered' /\ Following'
<1>. SUFFICES Rest
  BY AVNextTypeOK DEF AVInv
<1>1. ASSUME NEW c \in Controllers,
             \/ AVStartFade(c) \/ AVPublish(c) \/ AVAbortFade(c) \/ AVCutFade(c) \/ AVCutFollow(c)
             \/ \E s \in Sources : AVCut(c, s)
      PROVE  Rest
  <2>1. CASE AVStartFade(c)
    <3>1. StartFade(c) /\ Continue(c)
      BY <2>1 DEF AVStartFade, Continue
    <3>. QED BY <1>0, <2>1, <3>1, StartRelay, ContinueRegistered, FadeStartFollows
  <2>2. CASE AVPublish(c)
    <3>1. Publish(c) /\ Continue(c)
      BY <2>2 DEF AVPublish, Continue
    <3>. QED BY <1>0, <2>2, <3>1, StartRelay, ContinueRegistered, PublishFollows
  <2>3. CASE AVAbortFade(c) \/ AVCutFade(c) \/ AVCutFollow(c)
    <3>1. (AbortFade(c) \/ CutFade(c) \/ CutFollow(c)) /\ Continue(c)
      BY <2>3 DEF AVAbortFade, AVCutFade, AVCutFollow, Continue
    <3>. QED BY <1>0, <2>3, <3>1, CutRelay, ContinueRegistered, CutTailFollows
  <2>4. ASSUME NEW s \in Sources, AVCut(c, s) PROVE Rest
    <3>1. Request(c)
      BY <2>4 DEF AVCut, Request
    <3>. QED BY <1>0, <2>4, <3>1, RequestRelay, RequestRegistered, CutFollows
  <2>. QED BY <1>1, <2>1, <2>2, <2>3, <2>4
<1>2. ASSUME NEW e \in Engines, AVCompleteSync(e) \/ AVCompleteAudio(e) \/ AVCompleteFollow(e) PROVE Rest
  <2>1. Callback(e)
    BY <1>2 DEF AVCompleteSync, AVCompleteAudio, AVCompleteFollow, Callback
  <2>. QED BY <1>0, <1>2, <2>1, EngineStepRelay, EngineStepRegistered, HandlerFollows
<1>3. ASSUME NEW s \in Sources, AVRegister(s) \/ AVUnregister(s) PROVE Rest
  <2>1. Register(s) \/ (Unregister(s) /\ Calm)
    BY <1>3 DEF AVRegister, AVUnregister
  <2>. QED BY <1>0, <1>3, <2>1, SourceStepRelay, SourceStepRegistered, SourceFollows
<1>4. ASSUME UNCHANGED vars PROVE Relay' /\ ProgramRegistered' /\ TargetRegistered'
  <2>1. Relay'
    BY <1>0, <1>4, StillRelay DEF vars, busVars
  <2>. QED BY <1>0, <1>4, <2>1 DEF ProgramRegistered, TargetRegistered, Starting, vars, busVars
<1>5. ASSUME NEW s \in Sources, WireMixer(s) PROVE Rest
  <2>1. UNCHANGED vars
    BY <1>5 DEF WireMixer
  <2>. QED BY <1>4, <1>5, <2>1, MixerFollows
<1>6. CASE MixerTick
  <2>1. UNCHANGED vars
    BY <1>6 DEF MixerTick
  <2>. QED BY <1>4, <1>6, <2>1, MixerFollows
<1>7. CASE AVOther
  <2>0. UNCHANGED <<mix, syncProgram, wiring>>
    BY <1>7 DEF AVOther
  <2>1. ASSUME NEW c \in Controllers, Wired,
               \/ MarkFadeToBlack(c) \/ MarkFadeReverse(c) \/ TBarRead(c) \/ Abort(c)
               \/ \E s \in Sources : MarkTransition(c, s) \/ SetPreview(c, s)
        PROVE  Rest
    <3>1. Request(c) /\ ~ Abort(c)
      BY <2>1 DEF Request, Abort, Can, Orderly
    <3>2. Following'
      BY <2>0, <2>1, <3>1, RequestFollows
    <3>. QED BY <1>0, <3>1, <3>2, RequestRelay, RequestRegistered
  <2>2. ASSUME NEW c \in Controllers, StartRollback(c) \/ StartEngine(c) PROVE Rest
    <3>1. Continue(c)
      BY <2>2 DEF Continue
    <3>. QED BY <1>0, <2>0, <2>2, <3>1, StartRelay, ContinueRegistered, StartFollows
  <2>3. ASSUME NEW c \in Controllers, StopEngine(c) PROVE Rest
    <3>1. Continue(c)
      BY <2>3 DEF Continue
    <3>. QED BY <1>0, <2>0, <2>3, <3>1, CutRelay, ContinueRegistered, CutTailFollows
  <2>4. ASSUME NEW c \in Controllers, NEW position \in {"zero", "moved", "end"}, TBarMove(c, position) PROVE Rest
    <3>1. Continue(c)
      BY <2>4 DEF Continue
    <3>. QED BY <1>0, <2>0, <2>4, <3>1, CutRelay, ContinueRegistered, BarFollows
  <2>5. ASSUME NEW e \in Engines, CompleteLate(e) \/ CompleteMix(e) \/ CompleteFade(e) \/ Watchdog(e) PROVE Rest
    <3>1. Callback(e) \/ Watchdog(e)
      BY <2>5 DEF Callback
    <3>2. Following'
      BY <2>0, <2>5, QuietFollows, CompleteFollows
    <3>. QED BY <1>0, <3>1, <3>2, EngineStepRelay, EngineStepRegistered
  <2>6. ASSUME NEW s \in Sources, FrameRoute(s) \/ FrameIngest(s) \/ FrameComplete(s) PROVE Rest
    <3>1. Following'
      BY <2>0, <2>6, QuietFollows
    <3>. QED BY <1>0, <2>6, <3>1, SourceStepRelay, SourceStepRegistered
  <2>. QED BY <1>7, <2>1, <2>2, <2>3, <2>4, <2>5, <2>6 DEF AVOther
<1>8. CASE UNCHANGED avVars
  <2>1. UNCHANGED vars /\ UNCHANGED <<mix, syncProgram, wiring>>
    BY <1>8 DEF avVars
  <2>2. Following'
    BY <2>1, StillFollows DEF vars, busVars
  <2>. QED BY <1>4, <2>1, <2>2
<1>. QED BY <1>1, <1>2, <1>3, <1>5, <1>6, <1>7, <1>8 DEF AVNext

\* Every variable of the engine, the mixer and the pace keeps its type.
THEOREM AVTyping == AVSpec => []AVTypeOK
  BY AVInitTypeOK, AVNextTypeOK, PTL DEF AVSpec

\* The mixer and the synchronizer only follow: what the switching engine does with them
\* is what it does without them, so that each of its theorems holds with them as well.
THEOREM AVImplements == AVSpec => Spec
<1>1. AVInit => Init
  BY DEF AVInit
<1>. QED BY <1>1, AVSteps, PTL DEF AVSpec, Spec

\* With one operator at a time, who may cut into a transition at any point: the relay, and
\* who has still to tell the mixer and the synchronizer what.
THEOREM Followed == ASSUME Orderly PROVE AVSpec => []AVInv
<1>1. AVInv /\ [AVNext]_avVars => AVInv'
  BY AVNextHolds
<1>. QED BY <1>1, AVInitHolds, PTL DEF AVSpec

\* When all is quiet the program's channel is on air, no crossfade is left over, and the
\* output is muted exactly when it is held at black, for any number of sources and engines.
THEOREM AudioAlwaysFollows == ASSUME Orderly PROVE AVSpec => []AudioFollowed
<1>1. AVInv => AudioFollowed
  <2>. SUFFICES ASSUME AVInv, Quiet
                PROVE  /\ program # NoSource => program \in mix.active
                       /\ mix.fade = NoFade /\ mix.muted = (state = "ftb")
    BY DEF AudioFollowed
  <2>1. /\ \A c \in Controllers : ctl[c].pc = "idle"
        /\ \A e \in Engines : comp[e].pc = "none"
        /\ mix.cutLeft = 0 /\ ~ InTransition(state)
    BY DEF Quiet
  <2>2. transEngine = NoEngine
    <3>1. \A e \in Engines : engine[e].kind \in Kinds
      BY DEF AVInv, AVTypeOK, TypeOK, EngineRecords
    <3>. QED BY <2>1, <3>1, MarkFacts DEF AVInv, AVTypeOK, TypeOK, Relay, PublishedMarked
  <2>3. /\ program # NoSource => program \in mix.active
        /\ mix.fade # NoFade => mix.cutLeft > 0 \/ transEngine # NoEngine
        /\ mix.muted <=> state = "ftb"
    <3>1. \A c \in Controllers : ctl[c].pc \in {"idle", "tbar"}
      BY <2>1
    <3>2. \A e \in Engines : comp[e].pc \in {"none", "lock"}
      BY <2>1
    <3>. QED BY <3>1, <3>2, IdleFollowing
  <2>4. mix.muted \in BOOLEAN
    BY DEF AVInv, AVTypeOK, Mixers
  <2>. QED BY <2>1, <2>2, <2>3, <2>4
<1>. QED BY <1>1, Followed, PTL

\* ... and the frame synchronizer paces its releases on the program.
THEOREM PaceAlwaysFollows == ASSUME Orderly PROVE AVSpec => []PaceFollowed
<1>1. AVInv => PaceFollowed
  <2>. SUFFICES ASSUME AVInv, Quiet, program # NoSource PROVE syncProgram = program
    BY DEF PaceFollowed
  <2>1. (\A e \in Engines : comp[e].pc = "none") /\ ~ InTransition(state)
    BY DEF Quiet
  <2>2. transEngine = NoEngine
    <3>1. \A e \in Engines : engine[e].kind \in Kinds
      BY DEF AVInv, AVTypeOK, TypeOK, EngineRecords
    <3>. QED BY <2>1, <3>1, MarkFacts DEF AVInv, AVTypeOK, TypeOK, Relay, PublishedMarked
  <2>. QED BY <2>1, <2>2 DEF AVInv, Following, PaceOwned
<1>. QED BY <1>1, Followed, PTL

\* The program stays registered also when cuts override transitions.
THEOREM ProgramStaysOn == ASSUME Orderly PROVE AVSpec => []ProgramRegistered
<1>1. AVInv => ProgramRegistered
  BY DEF AVInv
<1>. QED BY <1>1, Followed, PTL

\* One operator who cuts into transitions leaves no transition without somebody to end
\* it, starts no second one, orphans no engine and meets no other engine's callback.
THEOREM CutsKeepOrder ==
  ASSUME Orderly PROVE AVSpec => [](Driven /\ OneTransition /\ NoOrphan /\ RightHandler)
<1>1. AVInv => Driven /\ OneTransition /\ NoOrphan /\ RightHandler
  <2>. SUFFICES ASSUME AVInv PROVE Driven /\ OneTransition /\ NoOrphan /\ RightHandler
    OBVIOUS
  <2>0. TypeOK /\ Relay
    BY DEF AVInv, AVTypeOK
  <2>1. Driven
    <3>1. transEngine # NoEngine => comp[transEngine].pc \in {"none", "lock"}
      BY <2>0, RelayFacts DEF Relay, HandlerFound, HandlerSteps, TypeOK, Callbacks
    <3>2. transEngine # NoEngine => Alive(transEngine)
      BY <2>0 DEF Relay, PublishedMarked
    <3>3. transEngine # NoEngine => engine[transEngine].st = "active" \/ comp[transEngine].pc = "lock"
      BY <3>1, <3>2 DEF Alive
    <3>. QED BY <2>0, <3>3 DEF Relay, MarkedStarts, Driven
  <2>2. OneTransition
    BY <2>0, RelayFacts DEF OneTransition, Orderly
  <2>3. NoOrphan
    BY <2>0 DEF Relay, ActiveKnown, NoOrphan
  <2>4. RightHandler
    BY <2>0, EngineAssumption DEF Relay, PublishedOrLate, PublishedMarked, RightHandler
  <2>. QED BY <2>1, <2>2, <2>3, <2>4
<1>. QED BY <1>1, Followed, PTL
=============================================================================
