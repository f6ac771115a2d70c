------------------------------ MODULE Graphics ------------------------------
(***************************************************************************)
(* A layer of the downstream keyer (graphics/compositor.go), the goroutines*)
(* that fade and animate it, and the engines that write text into it       *)
(* (graphics/text_animation.go, ticker.go).                                *)
(*                                                                         *)
(* Layers share a lock and nothing else, so one is enough.  A request that *)
(* ends a fade closes its cancel channel, unlocks, waits for its done      *)
(* channel and locks again; whatever came in between, it then goes on.     *)
(* The lock is held from one step to the next only by a panic.             *)
(***************************************************************************)
EXTENDS Integers, FiniteSets

CONSTANTS
  Clients,     \* goroutines serving requests
  Drivers,     \* fades and animations: a goroutine and its two channels
  NoDriver,    \* nil channels
  Engines,     \* text animations and tickers: a goroutine and its two channels
  NoEngine,    \* no entry in the map of an engine
  Operations,  \* requests that are made ...
  Together     \* ... and those that are made while another is under way

ASSUME GraphicsAssumption == NoDriver \notin Drivers /\ NoEngine \notin Engines

VARIABLES
  layer,       \* the layer: full at fadePosition 1, fade and anim the channels it keeps
  closed,      \* the compositor
  driver,      \* per driver: kind, where it is, the cancel channel it listens to
  cancelled,   \* drivers whose cancel channel is closed
  entry,       \* per kind of engine: its entry for the layer
  engine,      \* per engine: kind, where it is, cancelled, scrolled past its end, and as
               \* history whether it was started with the end of another still to come
  req,         \* per client: the request under way, and whose end it waits for
  panicked,    \* a channel was closed twice; the lock is never released
  overlapped   \* history: something came while another was under way on the layer

vars == <<layer, closed, driver, cancelled, entry, engine, req, panicked, overlapped>>

Fades == {"in", "out"}
Moves == {"pulse", "slide", "fly_out"}

NoDrive == [pc |-> "none", kind |-> "in", chan |-> NoDriver]
NoText == [pc |-> "none", kind |-> "text", cancelled |-> FALSE, scrolled |-> FALSE, raced |-> FALSE]
Served == [pc |-> "idle", op |-> "none", next |-> "act", on |-> NoDriver, text |-> NoEngine]

TypeOK ==
  /\ layer \in [present : BOOLEAN, overlay : BOOLEAN, active : BOOLEAN, full : BOOLEAN,
                fade : Drivers \cup {NoDriver}, anim : Drivers \cup {NoDriver},
                ticker : Engines \cup {NoEngine}]
  /\ closed \in BOOLEAN /\ panicked \in BOOLEAN /\ overlapped \in BOOLEAN
  /\ driver \in [Drivers -> [pc : {"none", "spawned", "running", "leaving"}, kind : Fades \cup Moves,
                             chan : Drivers \cup {NoDriver}]]
  /\ cancelled \subseteq Drivers
  /\ entry \in [{"text", "ticker"} -> Engines \cup {NoEngine}]
  /\ engine \in [Engines -> [pc : {"none", "made", "started", "installed", "playing", "unlisting",
                                   "clearing", "blanking"},
                             kind : {"text", "ticker"}, cancelled : BOOLEAN, scrolled : BOOLEAN, raced : BOOLEAN]]
  /\ req \in [Clients -> [pc : {"idle", "waiting", "woken", "begin_text", "waiting_text", "woken_text"},
                          op : {"none", "on", "off", "remove", "stop_animation", "close", "text", "stop", "update"},
                          next : {"anim", "act"}, on : Drivers \cup {NoDriver}, text : Engines \cup {NoEngine}]]

Init ==
  /\ layer = [present |-> TRUE, overlay |-> FALSE, active |-> FALSE, full |-> FALSE,
              fade |-> NoDriver, anim |-> NoDriver, ticker |-> NoEngine]
  /\ closed = FALSE /\ panicked = FALSE /\ overlapped = FALSE
  /\ driver = [d \in Drivers |-> NoDrive] /\ cancelled = {}
  /\ entry = [k \in {"text", "ticker"} |-> NoEngine] /\ engine = [i \in Engines |-> NoText]
  /\ req = [c \in Clients |-> Served]

Open == layer.present /\ ~ closed
Driven == layer.fade # NoDriver \/ layer.anim # NoDriver
Busy == \E c \in Clients : req[c].pc # "idle"
Written == \E i \in Engines : engine[i].pc # "none"

\* Nothing that needs the lock goes on after a panic.
At(c, pc) == req[c].pc = pc /\ ~ panicked
DriverAt(d, pc) == driver[d].pc = pc /\ ~ panicked
EngineAt(i, pc) == engine[i].pc = pc /\ ~ panicked

\* The request of c comes; another that waits, or an engine for a fade, is in its way.
Asked(c, op, inTheWay) ==
  /\ op \in Operations /\ At(c, "idle") /\ (Busy => op \in Together)
  /\ overlapped' = (overlapped \/ Busy \/ inTheWay)
-----------------------------------------------------------------------------
(* Requests that start a fade or an animation                              *)

Unused(d) ==
  /\ driver[d].pc = "none" /\ d \notin {layer.fade, layer.anim}
  /\ \A c \in Clients : req[c].on # d

Spawn(d, kind) ==
  /\ Unused(d)
  /\ driver' = [driver EXCEPT ![d] = [pc |-> "spawned", kind |-> kind, chan |-> NoDriver]]
  /\ cancelled' = cancelled \ {d}
  /\ UNCHANGED <<closed, entry, engine, req, panicked>>

SetOverlay(c) ==
  /\ Asked(c, "overlay", FALSE) /\ Open
  /\ layer' = [layer EXCEPT !.overlay = TRUE]
  /\ UNCHANGED <<closed, driver, cancelled, entry, engine, req, panicked>>

\* Mutant: an animation that runs is not looked at.
AutoOn_OverAnimation(c, d) ==
  /\ Asked(c, "auto_on", Written) /\ Open
  /\ layer.overlay /\ layer.fade = NoDriver /\ ~ (layer.active /\ layer.full)
  /\ Spawn(d, "in")
  /\ layer' = [layer EXCEPT !.active = TRUE, !.full = FALSE, !.fade = d]

AutoOn(c, d) ==
  /\ Asked(c, "auto_on", Written) /\ Open
  /\ layer.overlay /\ ~ Driven /\ ~ (layer.active /\ layer.full)
  /\ Spawn(d, "in")
  /\ layer' = [layer EXCEPT !.active = TRUE, !.full = FALSE, !.fade = d]

AutoOff(c, d) ==
  /\ Asked(c, "auto_off", Written) /\ Open
  /\ layer.active /\ ~ Driven
  /\ Spawn(d, "out")
  /\ layer' = [layer EXCEPT !.fade = d]

\* Animate, FlyIn and SlideLayer, and FlyOut.
Animate(c, d, kind) ==
  /\ Asked(c, kind, Written) /\ Open
  /\ layer.active /\ ~ Driven
  /\ Spawn(d, kind)
  /\ layer' = [layer EXCEPT !.anim = d]

FlyOn(c, d) ==
  /\ Asked(c, "fly_on", Written) /\ Open
  /\ ~ layer.active /\ layer.overlay /\ ~ Driven
  /\ Spawn(d, "slide")
  /\ layer' = [layer EXCEPT !.active = TRUE, !.full = TRUE, !.anim = d]
-----------------------------------------------------------------------------
(* Requests that end one: On, Off, RemoveLayer, StopAnimation, Close       *)

\* What the request does once nothing stands in its way any more: to the layer it has
\* looked up before it waited.
Act(c, op) ==
  /\ layer' = CASE op = "on" -> [layer EXCEPT !.active = TRUE, !.full = TRUE]
                [] op = "off" -> [layer EXCEPT !.active = FALSE, !.full = FALSE]
                [] op = "remove" -> [layer EXCEPT !.present = FALSE]
                [] op \in {"stop_animation", "text"} -> [layer EXCEPT !.full = TRUE]
                [] op = "close" -> layer
  /\ engine' = IF op = "text" THEN [engine EXCEPT ![req[c].text].pc = "started"] ELSE engine
  /\ req' = [req EXCEPT ![c] = Served]
  /\ UNCHANGED <<driver, cancelled, entry, panicked>>

\* cancelLayerFadeLocked and cancelLayerAnimationLocked, one after the other.
Cancel(c, op, first) ==
  LET fading == first = "fade" /\ layer.fade # NoDriver
      d == IF fading THEN layer.fade ELSE IF first = "act" THEN NoDriver ELSE layer.anim
  IN \/ d = NoDriver /\ Act(c, op)
     \/ /\ d \in Drivers \ cancelled
        /\ cancelled' = cancelled \cup {d}
        /\ req' = [req EXCEPT ![c] = [@ EXCEPT !.pc = "waiting", !.op = op, !.on = d,
                                               !.next = IF fading THEN "anim" ELSE "act"]]
        /\ UNCHANGED <<layer, driver, entry, engine, panicked>>
     \/ d \in cancelled /\ panicked' = TRUE /\ UNCHANGED <<layer, driver, cancelled, entry, engine, req>>

On(c) == Asked(c, "on", FALSE) /\ Open /\ layer.overlay /\ Cancel(c, "on", "fade") /\ UNCHANGED closed

\* Mutant: the animation goes on.
Off_Animated(c) ==
  /\ Asked(c, "off", FALSE) /\ Open
  /\ IF layer.fade # NoDriver THEN Cancel(c, "off", "fade") ELSE Act(c, "off")
  /\ UNCHANGED closed

Off(c) == Asked(c, "off", FALSE) /\ Open /\ Cancel(c, "off", "fade") /\ UNCHANGED closed

RemoveLayer(c) == Asked(c, "remove", FALSE) /\ Open /\ Cancel(c, "remove", "fade") /\ UNCHANGED closed

StopAnimation(c) ==
  /\ Asked(c, "stop_animation", FALSE) /\ Open /\ layer.anim # NoDriver
  /\ Cancel(c, "stop_animation", "anim")
  /\ UNCHANGED closed

Close(c) ==
  /\ Asked(c, "close", FALSE)
  /\ closed' = TRUE
  /\ IF layer.present THEN Cancel(c, "close", "fade")
                      ELSE UNCHANGED <<layer, driver, cancelled, entry, engine, req, panicked>>

\* The done channel is closed and the lock taken again.
Resume(c) == At(c, "woken") /\ Cancel(c, req[c].op, req[c].next) /\ UNCHANGED <<closed, overlapped>>
-----------------------------------------------------------------------------
(* Fades and animations                                                    *)

Slot(d) == IF driver[d].kind \in Fades THEN layer.fade ELSE layer.anim

Step(d, pc) == driver' = [driver EXCEPT ![d].pc = pc]

\* The goroutine starts and looks up its cancel channel.
Begin(d) ==
  /\ DriverAt(d, "spawned")
  /\ driver' = [driver EXCEPT ![d] = IF layer.present THEN [@ EXCEPT !.pc = "running", !.chan = Slot(d)]
                                                      ELSE NoDrive]
  /\ UNCHANGED <<layer, closed, cancelled, entry, engine, req, panicked, overlapped>>

\* A tick before the last; a removed layer ends it.
Tick(d) ==
  /\ DriverAt(d, "running")
  /\ IF layer.present
       THEN /\ \E full \in CASE driver[d].kind \in Fades -> {FALSE}
                             [] driver[d].kind = "pulse" -> BOOLEAN
                             [] driver[d].kind = "slide" -> {layer.full, FALSE}
                             [] OTHER -> {layer.full} : layer' = [layer EXCEPT !.full = full]
            /\ UNCHANGED driver
       ELSE Step(d, "leaving") /\ UNCHANGED layer
  /\ UNCHANGED <<closed, cancelled, entry, engine, req, panicked, overlapped>>

\* The last tick; a pulse has none.
End(d) ==
  /\ DriverAt(d, "running") /\ driver[d].kind # "pulse" /\ layer.present
  /\ Step(d, "leaving")
  /\ layer' = CASE driver[d].kind = "in" -> [layer EXCEPT !.full = TRUE]
                [] driver[d].kind = "out" -> [layer EXCEPT !.full = FALSE, !.active = FALSE]
                [] OTHER -> layer
  /\ UNCHANGED <<closed, cancelled, entry, engine, req, panicked, overlapped>>

Cancelled(d) ==
  /\ DriverAt(d, "running") /\ driver[d].chan \in cancelled
  /\ Step(d, "leaving")
  /\ UNCHANGED <<layer, closed, cancelled, entry, engine, req, panicked, overlapped>>

\* Mutant: the cancel channel is left in the layer.
Leave_KeepsChannel(d) ==
  /\ DriverAt(d, "leaving")
  /\ driver' = [driver EXCEPT ![d] = NoDrive]
  /\ req' = [c \in Clients |-> IF req[c].pc = "waiting" /\ req[c].on = Slot(d)
                                 THEN [req[c] EXCEPT !.pc = "woken", !.on = NoDriver] ELSE req[c]]
  /\ UNCHANGED <<layer, closed, cancelled, entry, engine, panicked, overlapped>>

\* Mutant: a cancelled fade does not close its done channel.
Leave_Silent(d) ==
  /\ DriverAt(d, "leaving")
  /\ driver' = [driver EXCEPT ![d] = NoDrive]
  /\ layer' = IF ~ layer.present THEN layer
              ELSE IF driver[d].kind \in Fades THEN [layer EXCEPT !.fade = NoDriver]
                                               ELSE [layer EXCEPT !.anim = NoDriver]
  /\ UNCHANGED <<closed, cancelled, entry, engine, req, panicked, overlapped>>

\* The deferred function clears the layer's channels and closes done, unless the layer
\* is gone.
Leave(d) ==
  /\ DriverAt(d, "leaving")
  /\ driver' = [driver EXCEPT ![d] = NoDrive]
  /\ IF layer.present
       THEN /\ layer' = CASE driver[d].kind \in Fades -> [layer EXCEPT !.fade = NoDriver]
                          [] driver[d].kind = "fly_out" ->
                               [layer EXCEPT !.anim = NoDriver, !.active = FALSE, !.full = FALSE]
                          [] OTHER -> [layer EXCEPT !.anim = NoDriver]
            /\ req' = [c \in Clients |-> IF req[c].pc = "waiting" /\ req[c].on = Slot(d)
                                           THEN [req[c] EXCEPT !.pc = "woken", !.on = NoDriver] ELSE req[c]]
            /\ cancelled' = cancelled \ {Slot(d)}
       ELSE UNCHANGED <<layer, cancelled, req>>
  /\ UNCHANGED <<closed, entry, engine, panicked, overlapped>>
-----------------------------------------------------------------------------
(* Requests to the engines                                                 *)

\* Engine i is to delete the entry of its kind when it ends.
Unlists(i) == engine[i].pc \in {"made", "started", "installed", "playing", "unlisting"}

\* A stopped engine of the kind has still to do so, or one that was started beside such a
\* one: the deletion can meet the entry of an engine that is started now.
Racing(kind) ==
  \E i \in Engines : Unlists(i) /\ engine[i].kind = kind /\ (engine[i].cancelled \/ engine[i].raced)

Made(i, kind, pc) ==
  /\ engine[i].pc = "none" /\ \A c \in Clients : req[c].text # i
  /\ entry' = [entry EXCEPT ![kind] = i]
  /\ engine' = [engine EXCEPT ![i] = [NoText EXCEPT !.pc = pc, !.kind = kind, !.raced = Racing(kind)]]

\* Mutant: a text animation that has an entry is not looked for.
StartText_Again(c, i) ==
  /\ Asked(c, "text", Written \/ layer.fade # NoDriver)
  /\ Made(i, "text", "made")
  /\ req' = [req EXCEPT ![c] = [Served EXCEPT !.pc = "begin_text", !.op = "text", !.text = i]]
  /\ UNCHANGED <<layer, closed, driver, cancelled, panicked>>

\* TextAnimationEngine.Start, up to its call of StopAnimation.
StartText(c, i) ==
  /\ Asked(c, "text", Written \/ layer.fade # NoDriver) /\ entry["text"] = NoEngine
  /\ Made(i, "text", "made")
  /\ req' = [req EXCEPT ![c] = [Served EXCEPT !.pc = "begin_text", !.op = "text", !.text = i]]
  /\ UNCHANGED <<layer, closed, driver, cancelled, panicked>>

\* ... and that call, after which the goroutine is started.
BeginText(c) ==
  /\ At(c, "begin_text")
  /\ IF Open /\ layer.anim # NoDriver
       THEN Cancel(c, "text", "anim")
       ELSE /\ engine' = [engine EXCEPT ![req[c].text].pc = "started"]
            /\ req' = [req EXCEPT ![c] = Served]
            /\ UNCHANGED <<layer, driver, cancelled, entry, panicked>>
  /\ UNCHANGED <<closed, overlapped>>

\* TickerEngine.Start
StartTicker(c, i) ==
  /\ Asked(c, "ticker", Written \/ Driven) /\ entry["ticker"] = NoEngine
  /\ Made(i, "ticker", "started")
  /\ UNCHANGED <<layer, closed, driver, cancelled, req, panicked>>

\* Stop, and the first half of UpdateText: the entry goes before the goroutine does.
\* Between the two its cancel channel is still open, which changes nothing.
StopText(c, kind, op) ==
  /\ Asked(c, op, FALSE) /\ entry[kind] # NoEngine /\ (op = "update" => kind = "ticker")
  /\ entry' = [entry EXCEPT ![kind] = NoEngine]
  /\ engine' = [engine EXCEPT ![entry[kind]].cancelled = TRUE]
  /\ req' = [req EXCEPT ![c] = [Served EXCEPT !.pc = "waiting_text", !.op = op, !.text = entry[kind]]]
  /\ UNCHANGED <<layer, closed, driver, cancelled, panicked>>

\* Mutant: UpdateText does not look for a ticker that was started while it waited.
Stopped_Blind(c) ==
  /\ At(c, "woken_text")
  /\ req' = [req EXCEPT ![c] = Served]
  /\ IF req[c].op = "update"
       THEN \E i \in Engines : Made(i, "ticker", "started")
       ELSE UNCHANGED <<entry, engine>>
  /\ UNCHANGED <<layer, closed, driver, cancelled, panicked, overlapped>>

\* The goroutine has ended; UpdateText starts another unless somebody else has.
Stopped(c) ==
  /\ At(c, "woken_text")
  /\ req' = [req EXCEPT ![c] = Served]
  /\ IF req[c].op = "update" /\ entry["ticker"] = NoEngine
       THEN \E i \in Engines : Made(i, "ticker", "started")
       ELSE UNCHANGED <<entry, engine>>
  /\ UNCHANGED <<layer, closed, driver, cancelled, panicked, overlapped>>
-----------------------------------------------------------------------------
(* The goroutines of the engines                                           *)

Goto(i, pc) == engine' = [engine EXCEPT ![i].pc = pc]

Shown == IF Open THEN [layer EXCEPT !.active = TRUE, !.full = TRUE] ELSE layer

\* runTypewriter and runFadeWord activate the layer, runTicker installs its strip first;
\* without text or with an error they end at once.
Play(i) ==
  /\ EngineAt(i, "started")
  /\ \/ engine[i].kind = "text" /\ Goto(i, "playing") /\ layer' = Shown
     \/ /\ engine[i].kind = "ticker" /\ Goto(i, "installed")
        /\ layer' = IF layer.present THEN [layer EXCEPT !.ticker = i, !.overlay = TRUE] ELSE layer
     \/ Goto(i, "unlisting") /\ UNCHANGED layer
  /\ UNCHANGED <<closed, driver, cancelled, entry, req, panicked, overlapped>>

ShowTicker(i) ==
  /\ EngineAt(i, "installed") /\ Goto(i, "playing") /\ layer' = Shown
  /\ UNCHANGED <<closed, driver, cancelled, entry, req, panicked, overlapped>>

\* A text animation draws ...
Draw(i) ==
  /\ EngineAt(i, "playing") /\ engine[i].kind = "text" /\ Open /\ ~ layer.overlay
  /\ layer' = [layer EXCEPT !.overlay = TRUE]
  /\ UNCHANGED <<closed, driver, cancelled, entry, engine, req, panicked, overlapped>>

\* ... and ends when all is drawn, a ticker when it has scrolled, both when cancelled.
Finish(i) ==
  /\ EngineAt(i, "playing")
  /\ engine[i].cancelled \/ engine[i].scrolled \/ engine[i].kind = "text"
  /\ Goto(i, "unlisting")
  /\ UNCHANGED <<layer, closed, driver, cancelled, entry, req, panicked, overlapped>>

\* ProcessYUV and SnapshotVisibleLayers advance the ticker; one that does not loop is
\* done in the end and takes the layer off.
Scroll ==
  /\ ~ panicked /\ layer.present /\ layer.active /\ layer.ticker # NoEngine /\ ~ engine[layer.ticker].scrolled
  /\ engine' = [engine EXCEPT ![layer.ticker].scrolled = TRUE]
  /\ layer' = [layer EXCEPT !.active = FALSE]
  /\ UNCHANGED <<closed, driver, cancelled, entry, req, panicked, overlapped>>

\* cleanup: the entry of the layer, whoever's it is, ...
Unlist(i) ==
  /\ EngineAt(i, "unlisting")
  /\ entry' = [entry EXCEPT ![engine[i].kind] = NoEngine]
  /\ Goto(i, IF engine[i].kind = "ticker" THEN "clearing" ELSE "blanking")
  /\ UNCHANGED <<layer, closed, driver, cancelled, req, panicked, overlapped>>

\* ... the ticker's strip, ...
ClearTicker(i) ==
  /\ EngineAt(i, "clearing") /\ Goto(i, "blanking")
  /\ layer' = IF layer.present THEN [layer EXCEPT !.ticker = NoEngine] ELSE layer
  /\ UNCHANGED <<closed, driver, cancelled, entry, req, panicked, overlapped>>

\* ... the layer, and the done channel.
Blank(i) ==
  /\ EngineAt(i, "blanking")
  /\ engine' = [engine EXCEPT ![i] = NoText]
  /\ layer' = IF Open THEN [layer EXCEPT !.active = FALSE, !.full = FALSE, !.overlay = FALSE] ELSE layer
  /\ req' = [c \in Clients |-> IF req[c].pc = "waiting_text" /\ req[c].text = i
                                 THEN [req[c] EXCEPT !.pc = "woken_text", !.text = NoEngine] ELSE req[c]]
  /\ UNCHANGED <<closed, driver, cancelled, entry, panicked, overlapped>>
-----------------------------------------------------------------------------
Next ==
  \/ \E c \in Clients :
       \/ \E d \in Drivers :
            AutoOn(c, d) \/ AutoOff(c, d) \/ FlyOn(c, d) \/ \E kind \in Moves : Animate(c, d, kind)
       \/ \E i \in Engines : StartText(c, i) \/ StartTicker(c, i)
       \/ \E kind \in {"text", "ticker"}, op \in {"stop", "update"} : StopText(c, kind, op)
       \/ SetOverlay(c) \/ On(c) \/ Off(c) \/ RemoveLayer(c) \/ StopAnimation(c) \/ Close(c)
       \/ Resume(c) \/ BeginText(c) \/ Stopped(c)
  \/ \E d \in Drivers : Begin(d) \/ Tick(d) \/ End(d) \/ Cancelled(d) \/ Leave(d)
  \/ \E i \in Engines :
       Play(i) \/ ShowTicker(i) \/ Draw(i) \/ Finish(i) \/ Unlist(i) \/ ClearTicker(i) \/ Blank(i)
  \/ Scroll

Spec == Init /\ [][Next]_vars

-----------------------------------------------------------------------------
\* One fade or animation at a time moves the layer, from the request that starts it until
\* its deferred function clears the layer's channels.  The next one may start before the
\* goroutine has closed done; it does not touch the layer any more.
OneDriver == Cardinality({d \in Drivers : driver[d].pc # "none"}) <= 1

\* As long as requests do not overlap, and none fades or animates a layer an engine writes
\* on, nothing moves a layer that is off: whoever turns it off has waited for what moved it.
\* An engine does not wait: its end, and that of a ticker's strip, turns the layer off under
\* a pulse that was started meanwhile, even if requests come one at a time.
OffIsStill ==
  ~ overlapped /\ ~ layer.active => \A d \in Drivers : driver[d].pc \notin {"spawned", "running"}

\* Whatever overlaps, an engine that nobody has stopped has its entry until it deletes it
\* itself, so that requests find it and it is the only one of its kind: no other engine's
\* cleanup and no other start takes the entry.  Excepted is one that was started between
\* the stop of another, which takes the entry at once, and its cleanup, which takes it again.
EngineListed ==
  \A i \in Engines : Unlists(i) /\ ~ engine[i].cancelled /\ ~ engine[i].raced => entry[engine[i].kind] = i

\* text_animation.go: "IsRunning returns true if a text animation is active on the given
\* layer", and so ticker.go; Start, Stop and UpdateText rely on the same entry.
RunningKnown ==
  \A i \in Engines : engine[i].pc = "playing" /\ ~ engine[i].cancelled => entry[engine[i].kind] = i

\* A channel is closed twice only by two requests that end the same fade, the first of
\* which still waits.
ClosedOnce == panicked => \E c \in Clients : req[c].pc = "waiting"

\* A request waits for a goroutine that is still to close the channel, unless another
\* request has removed the layer meanwhile.
WaitEnds ==
  \A c \in Clients :
    /\ req[c].pc = "waiting" /\ layer.present
         => \E d \in Drivers : driver[d].pc # "none" /\ Slot(d) = req[c].on
    /\ req[c].pc = "waiting_text" => engine[req[c].text].pc # "none"

\* compositor.go: "The compositor is safe for concurrent use from multiple goroutines."
SafeTogether == ~ panicked
=============================================================================
