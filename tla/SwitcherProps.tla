--------------------------- MODULE SwitcherProps ---------------------------
(***************************************************************************)
(* What the switching engine must keep true, over the variables of         *)
(* Switcher.                                                               *)
(***************************************************************************)
EXTENDS Switcher

\* c has marked the state and not yet published or rolled back.
Starting(c) == ctl[c].pc \in {"starting", "fading", "publishing"}

\* A transition has somebody who will end it: the request that is still starting
\* it, its running engine, or the callback of the engine that has just finished.
\* Otherwise the switcher would refuse every later transition ("already active").
Driven ==
  InTransition(state) =>
    \/ \E c \in Controllers : Starting(c)
    \/ transEngine # NoEngine /\ (engine[transEngine].st = "active" \/ comp[transEngine].pc = "lock")

\* At most one transition is being started or published: StartTransition releases
\* the lock while it works and relies on the marked state to keep others out.
OneTransition ==
  /\ \A c, d \in Controllers : Starting(c) /\ Starting(d) => c = d
  /\ transEngine # NoEngine => \A c \in Controllers : ~ Starting(c)

\* No engine runs that nothing but its watchdog will ever stop.
NoOrphan ==
  \A e \in Engines : engine[e].st = "active" =>
    \/ transEngine = e
    \/ \E c \in Controllers : ctl[c].engine = e /\ ctl[c].pc \in {"fading", "publishing", "stopping"}

\* The completion handler that will run is the one for the state it runs in: the
\* handlers look at the state only to see that some transition is active.
RightHandler ==
  \A e \in Engines : comp[e].pc = "lock" /\ InTransition(state) =>
    transEngine = e /\ state = Marked(engine[e].kind)

\* The processing loop drops program frames only while a GPU mix is on (gpuTransActive).
GateOnlyInMix == gate => state = "transitioning"

\* The program is a registered source or nothing.
ProgramRegistered == program \in registered \cup {NoSource}

\* ... and stays so because what a mix leads to is registered, too.
TargetRegistered ==
  /\ \A c \in Controllers : Starting(c) /\ ctl[c].kind = "mix" => ctl[c].to \in registered
  /\ transEngine # NoEngine /\ engine[transEngine].kind = "mix" => engine[transEngine].to \in registered

\* Requests that wait their turn: no cut or abort of a transition, no second fade to
\* black during a fade.
Disciplined == Operations \cap {"cut_override", "ftb_again", "abort"} = {}

(* How a transition is handed on, as an inductive invariant of disciplined *)
(* requests: from the request that marked the state, with the engine it    *)
(* holds, to the published engine, to its callback waiting for s.mu.       *)

Holding(c) == ctl[c].pc \in {"fading", "publishing"}

StarterOwnsState == \A c \in Controllers : Starting(c) => state = Marked(ctl[c].kind)

StarterHoldsEngine ==
  \A c \in Controllers : Holding(c) =>
    LET e == engine[ctl[c].engine] IN e.st = "active" /\ e.kind = ctl[c].kind /\ e.to = ctl[c].to

PublishedOwnsState ==
  transEngine # NoEngine =>
    /\ state = Marked(engine[transEngine].kind)
    /\ engine[transEngine].st = "active" \/ comp[transEngine].pc = "lock"

RunningIsKnown ==
  \A e \in Engines : engine[e].st = "active" =>
    /\ comp[e].pc = "none"
    /\ transEngine = e \/ \E c \in Controllers : Holding(c) /\ ctl[c].engine = e

CallbackIsPublished == \A e \in Engines : comp[e].pc = "lock" => transEngine = e

\* A frame or a T-bar that still has an engine in hand has the published one, or one
\* that no longer runs.
HandsOnPublished ==
  /\ \A s \in Sources : frame[s] # NoEngine /\ engine[frame[s]].st = "active" => transEngine = frame[s]
  /\ \A c \in Controllers :
       ctl[c].pc = "tbar" /\ engine[ctl[c].engine].st = "active" => transEngine = ctl[c].engine

GateIsPublished == gate => transEngine # NoEngine /\ state = "transitioning"

NobodyStops == \A c \in Controllers : ctl[c].pc \notin {"stopping", "unfading"}

HandOff ==
  /\ TypeOK
  /\ OneTransition
  /\ InTransition(state) => transEngine # NoEngine \/ \E c \in Controllers : Starting(c)
  /\ StarterOwnsState /\ StarterHoldsEngine
  /\ PublishedOwnsState /\ RunningIsKnown /\ CallbackIsPublished
  /\ HandsOnPublished /\ NobodyStops
  /\ GateIsPublished

\* Every change of the state is one validTransitions allows.
StateMachine == [][state' # state => state' \in ValidNext(state)]_vars

\* A mix is completed by its own engine: when a callback changes the program, the
\* published engine, whose target becomes the program, is the one that finished.
OwnCallback ==
  [][\A e \in Engines : comp[e].pc = "lock" /\ comp'[e].pc = "sync" /\ program' # program
                          => transEngine = e]_vars

\* A transition that nobody holds by the T-bar ends, whatever its sources do.
TransitionEnds ==
  \A e \in Engines : (transEngine = e /\ engine[e].bar = "auto")
                       ~> (transEngine # e \/ engine[e].bar # "auto")

\* An engine that lost its place is stopped in the end.
OrphanReaped ==
  \A e \in Engines : (engine[e].st = "active" /\ transEngine # e) ~>
                     (engine[e].st # "active" \/ transEngine = e)
=============================================================================
