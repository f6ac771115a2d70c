--------------------------- MODULE GraphicsProofs ---------------------------
(***************************************************************************)
(* Theorems about Graphics for every set of requests, fades, animations    *)
(* and engines.  Whatever overlaps, one goroutine moves the layer, a       *)
(* request waits for one that will answer, and a channel is closed twice   *)
(* only under a request that waits for it (Shared); an engine that nobody  *)
(* has stopped has its entry, unless its start raced with the end of       *)
(* another (Kept).  As long as requests do not overlap, a layer that is    *)
(* off is still (Alone).                                                   *)
(***************************************************************************)
EXTENDS Graphics, FiniteSetTheorems, TLAPS

Alive(d) == driver[d].pc # "none"
Writes(i) == engine[i].pc # "none"

\* The requests that wait for the end of a fade or an animation.
Enders == {"on", "off", "remove", "stop_animation", "close", "text"}

Layers == [present : BOOLEAN, overlay : BOOLEAN, active : BOOLEAN, full : BOOLEAN,
           fade : Drivers \cup {NoDriver}, anim : Drivers \cup {NoDriver},
           ticker : Engines \cup {NoEngine}]
Drives == [pc : {"none", "spawned", "running", "leaving"}, kind : Fades \cup Moves,
           chan : Drivers \cup {NoDriver}]
Texts == [pc : {"none", "made", "started", "installed", "playing", "unlisting", "clearing", "blanking"},
          kind : {"text", "ticker"}, cancelled : BOOLEAN, scrolled : BOOLEAN, raced : BOOLEAN]
Requests == [pc : {"idle", "waiting", "woken", "begin_text", "waiting_text", "woken_text"},
             op : {"none", "on", "off", "remove", "stop_animation", "close", "text", "stop", "update"},
             next : {"anim", "act"}, on : Drivers \cup {NoDriver}, text : Engines \cup {NoEngine}]

\* TypeOK, with its sets of records named.
Typed ==
  /\ layer \in Layers
  /\ closed \in BOOLEAN /\ panicked \in BOOLEAN /\ overlapped \in BOOLEAN
  /\ driver \in [Drivers -> Drives] /\ cancelled \subseteq Drivers
  /\ entry \in [{"text", "ticker"} -> Engines \cup {NoEngine}]
  /\ engine \in [Engines -> Texts]
  /\ req \in [Clients -> Requests]

OneAlive == \A d, e \in Drivers : Alive(d) /\ Alive(e) => d = e

\* The layer's channels are those of the goroutine that moves it.
Slots ==
  layer.present =>
    /\ layer.fade # NoDriver => Alive(layer.fade) /\ driver[layer.fade].kind \in Fades
    /\ layer.anim # NoDriver => Alive(layer.anim) /\ driver[layer.anim].kind \in Moves
    /\ \A d \in Drivers : Alive(d) => Slot(d) = d

\* Who closed a cancel channel waits, as long as the channel is in use.
Awaited == \A d \in cancelled : \E c \in Clients : req[c].pc = "waiting" /\ req[c].on = d

\* What a request waits for.
Waits ==
  \A c \in Clients :
    /\ req[c].pc \in {"waiting", "woken"} => req[c].op \in Enders
    /\ req[c].pc = "waiting" => req[c].on \in Drivers /\ (layer.present => req[c].on \in {layer.fade, layer.anim})
    /\ req[c].pc = "waiting_text" => req[c].text \in Engines /\ Writes(req[c].text)
    /\ req[c].pc = "begin_text" => req[c].text \in Engines /\ req[c].op = "text"

\* The entry of a kind of engine is one that has not come to delete it yet.
Entries ==
  \A k \in {"text", "ticker"} : entry[k] # NoEngine =>
    /\ engine[entry[k]].kind = k
    /\ engine[entry[k]].pc \in {"made", "started", "installed", "playing", "unlisting"}

Shared == Typed /\ OneAlive /\ Slots /\ Awaited /\ Waits /\ Entries /\ ClosedOnce

LEMMA TypeSets == TypeOK <=> Typed
BY DEF TypeOK, Typed, Layers, Drives, Texts, Requests

LEMMA Blanks == NoDrive \in Drives /\ NoText \in Texts /\ Served \in Requests
<1>1. NoDrive \in Drives
  BY DEF NoDrive, Drives, Fades
<1>2. NoText \in Texts
  BY DEF NoText, Texts
<1>3. Served \in Requests
  BY DEF Served, Requests
<1>. QED BY <1>1, <1>2, <1>3

LEMMA InitShared == Init => Shared
<1>. SUFFICES ASSUME Init PROVE Shared
  OBVIOUS
<1>1. Typed
  <2>1. layer \in Layers
    BY DEF Init, Layers
  <2>. QED BY <2>1, Blanks DEF Init, Typed
<1>2. OneAlive /\ Slots
  BY GraphicsAssumption DEF Init, OneAlive, Slots, Alive, NoDrive
<1>3. Awaited /\ Waits /\ ClosedOnce
  BY DEF Init, Awaited, Waits, ClosedOnce, Served
<1>4. Entries
  BY DEF Init, Entries
<1>. QED BY <1>1, <1>2, <1>3, <1>4 DEF Shared
-----------------------------------------------------------------------------
(* Types                                                                   *)

LEMMA StartTyped ==
  ASSUME Typed, NEW c \in Clients, NEW d \in Drivers
  PROVE  /\ AutoOn(c, d) => Typed'
         /\ AutoOff(c, d) => Typed'
         /\ FlyOn(c, d) => Typed'
         /\ \A kind \in Moves : Animate(c, d, kind) => Typed'
<1>1. ASSUME NEW kind \in Fades \cup Moves, Spawn(d, kind)
      PROVE  /\ driver' \in [Drivers -> Drives] /\ cancelled' \subseteq Drivers
             /\ UNCHANGED <<closed, entry, engine, req, panicked>>
  <2>1. [pc |-> "spawned", kind |-> kind, chan |-> NoDriver] \in Drives
    BY DEF Drives
  <2>. QED BY <1>1, <2>1 DEF Spawn, Typed
<1>2. ASSUME NEW on \in BOOLEAN, NEW full \in BOOLEAN
      PROVE  /\ [layer EXCEPT !.active = on, !.full = full, !.fade = d] \in Layers
             /\ [layer EXCEPT !.active = on, !.full = full, !.anim = d] \in Layers
             /\ [layer EXCEPT !.fade = d] \in Layers /\ [layer EXCEPT !.anim = d] \in Layers
  BY DEF Typed, Layers
<1>3. ASSUME NEW op, NEW way \in BOOLEAN, Asked(c, op, way) PROVE overlapped' \in BOOLEAN
  BY <1>3 DEF Asked, Typed, Busy
<1>4. Written \in BOOLEAN /\ "in" \in Fades /\ "out" \in Fades /\ "slide" \in Moves
  BY DEF Written, Fades, Moves
<1>5. AutoOn(c, d) => Typed'
  BY <1>1, <1>2, <1>3, <1>4 DEF AutoOn, Typed
<1>6. AutoOff(c, d) => Typed'
  BY <1>1, <1>2, <1>3, <1>4 DEF AutoOff, Typed
<1>7. FlyOn(c, d) => Typed'
  BY <1>1, <1>2, <1>3, <1>4 DEF FlyOn, Typed
<1>8. ASSUME NEW kind \in Moves, Animate(c, d, kind) PROVE Typed'
  BY <1>1, <1>2, <1>3, <1>4, <1>8 DEF Animate, Typed
<1>. QED BY <1>5, <1>6, <1>7, <1>8

\* A cancellation, or what is done once nothing is to be cancelled any more.
LEMMA CancelTyped ==
  ASSUME Typed, NEW c \in Clients, NEW op \in Enders, NEW first \in {"fade", "anim", "act"},
         Cancel(c, op, first)
  PROVE  /\ layer' \in Layers /\ cancelled' \subseteq Drivers /\ driver' \in [Drivers -> Drives]
         /\ entry' = entry /\ engine' \in [Engines -> Texts] /\ req' \in [Clients -> Requests]
         /\ panicked' \in BOOLEAN
<1>1. CASE Act(c, op)
  <2>1. layer' \in Layers
    BY <1>1 DEF Act, Typed, Layers, Enders
  <2>2. engine' \in [Engines -> Texts]
    BY <1>1 DEF Act, Typed, Texts
  <2>3. req' \in [Clients -> Requests]
    BY <1>1, Blanks DEF Act, Typed
  <2>. QED BY <1>1, <2>1, <2>2, <2>3 DEF Act, Typed
<1>2. CASE ~ Act(c, op)
  <2>. DEFINE fading == first = "fade" /\ layer.fade # NoDriver
              d == IF fading THEN layer.fade ELSE IF first = "act" THEN NoDriver ELSE layer.anim
  <2>1. CASE /\ d \in Drivers \ cancelled /\ cancelled' = cancelled \cup {d}
             /\ req' = [req EXCEPT ![c] = [@ EXCEPT !.pc = "waiting", !.op = op, !.on = d,
                                                    !.next = IF fading THEN "anim" ELSE "act"]]
             /\ UNCHANGED <<layer, driver, entry, engine, panicked>>
    <3>. HIDE DEF d, fading
    <3>1. ASSUME NEW nx \in {"anim", "act"}
          PROVE  [req[c] EXCEPT !.pc = "waiting", !.op = op, !.on = d, !.next = nx] \in Requests
      BY <2>1 DEF Typed, Requests, Enders
    <3>2. req' \in [Clients -> Requests]
      BY <2>1, <3>1 DEF Typed
    <3>. QED BY <2>1, <3>2 DEF Typed
  <2>2. CASE panicked' = TRUE /\ UNCHANGED <<layer, driver, cancelled, entry, engine, req>>
    BY <2>2 DEF Typed
  <2>. QED BY <1>2, <2>1, <2>2 DEF Cancel
<1>. QED BY <1>1, <1>2

\* The requests that end a fade or an animation, and what they do after it.
LEMMA EndersCancel ==
  ASSUME Shared, NEW c \in Clients
  PROVE  /\ On(c) => Cancel(c, "on", "fade") /\ At(c, "idle") /\ Open /\ closed' = closed
         /\ Off(c) => Cancel(c, "off", "fade") /\ At(c, "idle") /\ Open /\ closed' = closed
         /\ RemoveLayer(c) => Cancel(c, "remove", "fade") /\ At(c, "idle") /\ Open /\ closed' = closed
         /\ StopAnimation(c) => Cancel(c, "stop_animation", "anim") /\ At(c, "idle") /\ Open /\ closed' = closed
         /\ Close(c) => At(c, "idle") /\ closed' = TRUE
         /\ Resume(c) => /\ Cancel(c, req[c].op, req[c].next) /\ At(c, "woken") /\ closed' = closed
                         /\ req[c].op \in Enders /\ req[c].next \in {"anim", "act"} /\ overlapped' = overlapped
<1>1. req[c] \in Requests
  BY DEF Shared, Typed
<1>2. Resume(c) => req[c].op \in Enders
  BY DEF Resume, At, Shared, Waits
<1>. QED BY <1>1, <1>2 DEF On, Off, RemoveLayer, StopAnimation, Close, Resume, Asked, Requests

LEMMA EndTyped ==
  ASSUME Shared, NEW c \in Clients,
         On(c) \/ Off(c) \/ RemoveLayer(c) \/ StopAnimation(c) \/ Close(c) \/ Resume(c)
  PROVE  Typed'
<1>1. closed' \in BOOLEAN
  BY EndersCancel DEF Shared, Typed
<1>2. overlapped' \in BOOLEAN
  BY DEF On, Off, RemoveLayer, StopAnimation, Close, Resume, Asked, Shared, Typed, Busy
<1>3. ASSUME NEW op \in Enders, NEW first \in {"fade", "anim", "act"}, Cancel(c, op, first) PROVE Typed'
  <2>1. Typed
    BY DEF Shared
  <2>. QED BY <1>1, <1>2, <1>3, <2>1, CancelTyped DEF Typed
<1>4. CASE Close(c)
  <2>1. CASE layer.present
    BY <1>3, <1>4, <2>1 DEF Close, Enders
  <2>2. CASE ~ layer.present
    BY <1>1, <1>2, <1>4, <2>2 DEF Close, Shared, Typed
  <2>. QED BY <2>1, <2>2
<1>6. CASE Resume(c)
  BY <1>3, <1>6, EndersCancel
<1>7. CASE On(c) \/ Off(c) \/ RemoveLayer(c) \/ StopAnimation(c)
  <2>1. {"on", "off", "remove", "stop_animation"} \subseteq Enders
    BY DEF Enders
  <2>2. \E op \in Enders, first \in {"fade", "anim", "act"} : Cancel(c, op, first)
    BY <1>7, <2>1, EndersCancel
  <2>. QED BY <1>3, <2>2
<1>. QED BY <1>4, <1>6, <1>7

LEMMA DriverTyped ==
  ASSUME Typed, NEW d \in Drivers, Begin(d) \/ Tick(d) \/ End(d) \/ Cancelled(d) \/ Leave(d)
  PROVE  Typed'
<1>1. ASSUME NEW pc \in {"running", "leaving"}, Step(d, pc) PROVE driver' \in [Drivers -> Drives]
  BY <1>1 DEF Step, Typed, Drives
<1>2. CASE Begin(d)
  <2>1. Slot(d) \in Drivers \cup {NoDriver}
    BY DEF Slot, Typed, Layers
  <2>2. [driver[d] EXCEPT !.pc = "running", !.chan = Slot(d)] \in Drives
    BY <2>1 DEF Typed, Drives
  <2>3. driver' \in [Drivers -> Drives]
    BY <1>2, <2>2, Blanks DEF Begin, Typed
  <2>. QED BY <1>2, <2>3 DEF Begin, Typed
<1>3. CASE Tick(d)
  <2>1. \A full \in BOOLEAN : [layer EXCEPT !.full = full] \in Layers
    BY DEF Typed, Layers
  <2>2. layer.full \in BOOLEAN
    BY DEF Typed, Layers
  <2>3. layer' \in Layers
    BY <1>3, <2>1, <2>2 DEF Tick, Typed
  <2>4. driver' \in [Drivers -> Drives]
    BY <1>1, <1>3 DEF Tick, Typed
  <2>. QED BY <1>3, <2>3, <2>4 DEF Tick, Typed
<1>4. CASE End(d)
  <2>1. layer' \in Layers
    BY <1>4 DEF End, Typed, Layers
  <2>2. driver' \in [Drivers -> Drives]
    BY <1>1, <1>4 DEF End
  <2>. QED BY <1>4, <2>1, <2>2 DEF End, Typed
<1>5. CASE Cancelled(d)
  BY <1>1, <1>5 DEF Cancelled, Typed
<1>6. CASE Leave(d)
  <2>0. /\ layer \in Layers /\ [layer EXCEPT !.fade = NoDriver] \in Layers
        /\ [layer EXCEPT !.anim = NoDriver, !.active = FALSE, !.full = FALSE] \in Layers
        /\ [layer EXCEPT !.anim = NoDriver] \in Layers
    BY DEF Typed, Layers
  <2>1. layer' \in Layers
    BY <1>6, <2>0 DEF Leave
  <2>2. driver' \in [Drivers -> Drives]
    BY <1>6, Blanks DEF Leave, Typed
  <2>3. \A c \in Clients : [req[c] EXCEPT !.pc = "woken", !.on = NoDriver] \in Requests /\ req[c] \in Requests
    BY DEF Typed, Requests
  <2>4. req' \in [Clients -> Requests]
    BY <1>6, <2>3 DEF Leave, Typed
  <2>5. cancelled' \subseteq Drivers
    BY <1>6 DEF Leave, Typed
  <2>. QED BY <1>6, <2>1, <2>2, <2>4, <2>5 DEF Leave, Typed
<1>. QED BY <1>2, <1>3, <1>4, <1>5, <1>6

LEMMA MadeTyped ==
  ASSUME Typed, NEW i \in Engines, NEW kind \in {"text", "ticker"}, NEW pc \in {"made", "started"},
         Made(i, kind, pc)
  PROVE  entry' \in [{"text", "ticker"} -> Engines \cup {NoEngine}] /\ engine' \in [Engines -> Texts]
<1>1. [NoText EXCEPT !.pc = pc, !.kind = kind, !.raced = Racing(kind)] \in Texts
  <2>1. Racing(kind) \in BOOLEAN
    BY DEF Racing
  <2>. QED BY <2>1 DEF NoText, Texts
<1>. QED BY <1>1 DEF Made, Typed

LEMMA TextRequestTyped ==
  ASSUME Shared, NEW c \in Clients
  PROVE  /\ \A i \in Engines : StartText(c, i) \/ StartTicker(c, i) => Typed'
         /\ \A kind \in {"text", "ticker"}, op \in {"stop", "update"} : StopText(c, kind, op) => Typed'
         /\ BeginText(c) \/ Stopped(c) \/ SetOverlay(c) => Typed'
<1>0. Typed /\ overlapped \in BOOLEAN
  BY DEF Shared, Typed
<1>a. ASSUME NEW op, NEW way \in BOOLEAN, Asked(c, op, way) PROVE overlapped' \in BOOLEAN
  BY <1>0, <1>a DEF Asked, Busy
<1>b. Written \in BOOLEAN /\ Driven \in BOOLEAN
  BY DEF Written, Driven
<1>1. ASSUME NEW i \in Engines, StartText(c, i) PROVE Typed'
  <2>1. [Served EXCEPT !.pc = "begin_text", !.op = "text", !.text = i] \in Requests
    BY DEF Served, Requests
  <2>2. req' \in [Clients -> Requests]
    BY <1>0, <1>1, <2>1 DEF StartText, Typed
  <2>3. overlapped' \in BOOLEAN
    BY <1>1, <1>a, <1>b DEF StartText
  <2>. QED BY <1>0, <1>1, <2>2, <2>3, MadeTyped DEF StartText, Typed
<1>2. ASSUME NEW i \in Engines, StartTicker(c, i) PROVE Typed'
  BY <1>0, <1>2, <1>a, <1>b, MadeTyped DEF StartTicker, Typed
<1>3. ASSUME NEW kind \in {"text", "ticker"}, NEW op \in {"stop", "update"}, StopText(c, kind, op) PROVE Typed'
  <2>1. entry[kind] \in Engines
    BY <1>0, <1>3 DEF StopText, Typed
  <2>2. [Served EXCEPT !.pc = "waiting_text", !.op = op, !.text = entry[kind]] \in Requests
    BY <2>1 DEF Served, Requests
  <2>3. req' \in [Clients -> Requests]
    BY <1>0, <1>3, <2>2 DEF StopText, Typed
  <2>4. engine' \in [Engines -> Texts]
    BY <1>0, <1>3, <2>1 DEF StopText, Typed, Texts
  <2>. QED BY <1>0, <1>3, <1>a, <2>3, <2>4 DEF StopText, Typed
<1>4. CASE BeginText(c)
  <2>1. CASE Cancel(c, "text", "anim")
    BY <1>0, <1>4, <2>1, CancelTyped DEF BeginText, Typed, Enders
  <2>2. CASE ~ Cancel(c, "text", "anim")
    <3>1. engine' \in [Engines -> Texts]
      BY <1>0, <1>4, <2>2 DEF BeginText, Typed, Texts
    <3>. QED BY <1>0, <1>4, <2>2, <3>1, Blanks DEF BeginText, Typed
  <2>. QED BY <2>1, <2>2
<1>5. CASE Stopped(c)
  <2>1. req' \in [Clients -> Requests]
    BY <1>0, <1>5, Blanks DEF Stopped, Typed
  <2>. QED BY <1>0, <1>5, <2>1, MadeTyped DEF Stopped, Typed
<1>6. CASE SetOverlay(c)
  <2>1. [layer EXCEPT !.overlay = TRUE] \in Layers
    BY <1>0 DEF Typed, Layers
  <2>. QED BY <1>0, <1>6, <1>a, <2>1 DEF SetOverlay, Typed
<1>. QED BY <1>1, <1>2, <1>3, <1>4, <1>5, <1>6

LEMMA EngineTyped ==
  ASSUME Typed, NEW i \in Engines,
         Play(i) \/ ShowTicker(i) \/ Draw(i) \/ Finish(i) \/ Unlist(i) \/ ClearTicker(i) \/ Blank(i)
  PROVE  Typed'
<1>1. ASSUME NEW pc \in {"playing", "installed", "unlisting", "clearing", "blanking"}, Goto(i, pc)
      PROVE engine' \in [Engines -> Texts]
  BY <1>1 DEF Goto, Typed, Texts
<1>2. /\ Shown \in Layers /\ [layer EXCEPT !.ticker = i, !.overlay = TRUE] \in Layers /\ layer \in Layers
      /\ [layer EXCEPT !.overlay = TRUE] \in Layers /\ [layer EXCEPT !.ticker = NoEngine] \in Layers
      /\ [layer EXCEPT !.active = FALSE, !.full = FALSE, !.overlay = FALSE] \in Layers
  BY DEF Shown, Typed, Layers
<1>3. CASE Play(i)
  BY <1>1, <1>2, <1>3 DEF Play, Typed
<1>4. CASE ShowTicker(i)
  BY <1>1, <1>2, <1>4 DEF ShowTicker, Typed
<1>5. CASE Draw(i)
  BY <1>2, <1>5 DEF Draw, Typed
<1>6. CASE Finish(i)
  BY <1>1, <1>6 DEF Finish, Typed
<1>7. CASE Unlist(i)
  <2>1. engine' \in [Engines -> Texts]
    BY <1>1, <1>7 DEF Unlist
  <2>2. entry' \in [{"text", "ticker"} -> Engines \cup {NoEngine}]
    BY <1>7 DEF Unlist, Typed
  <2>. QED BY <1>7, <2>1, <2>2 DEF Unlist, Typed
<1>8. CASE ClearTicker(i)
  BY <1>1, <1>2, <1>8 DEF ClearTicker, Typed
<1>9. CASE Blank(i)
  <2>1. engine' \in [Engines -> Texts]
    BY <1>9, Blanks DEF Blank, Typed
  <2>2. \A c \in Clients : [req[c] EXCEPT !.pc = "woken_text", !.text = NoEngine] \in Requests /\ req[c] \in Requests
    BY DEF Typed, Requests
  <2>3. req' \in [Clients -> Requests]
    BY <1>9, <2>2 DEF Blank, Typed
  <2>. QED BY <1>2, <1>9, <2>1, <2>3 DEF Blank, Typed
<1>. QED BY <1>3, <1>4, <1>5, <1>6, <1>7, <1>8, <1>9

LEMMA NextTyped == ASSUME Shared, [Next]_vars PROVE Typed'
<1>0. Typed
  BY DEF Shared
<1>1. CASE UNCHANGED vars
  BY <1>0, <1>1 DEF vars, Typed
<1>2. CASE Scroll
  <2>1. [layer EXCEPT !.active = FALSE] \in Layers
    BY <1>0 DEF Typed, Layers
  <2>2. engine' \in [Engines -> Texts]
    BY <1>0, <1>2 DEF Scroll, Typed, Texts
  <2>. QED BY <1>0, <1>2, <2>1, <2>2 DEF Scroll, Typed
<1>3. ASSUME NEW d \in Drivers, Begin(d) \/ Tick(d) \/ End(d) \/ Cancelled(d) \/ Leave(d) PROVE Typed'
  BY <1>0, <1>3, DriverTyped
<1>4. ASSUME NEW i \in Engines,
             Play(i) \/ ShowTicker(i) \/ Draw(i) \/ Finish(i) \/ Unlist(i) \/ ClearTicker(i) \/ Blank(i)
      PROVE  Typed'
  BY <1>0, <1>4, EngineTyped
<1>. QED BY <1>0, <1>1, <1>2, <1>3, <1>4, StartTyped, EndTyped, TextRequestTyped DEF Next
-----------------------------------------------------------------------------
(* One goroutine moves the layer, and waiters wait for it                  *)

\* No goroutine starts, and one that ends leaves a layer that is gone.
LEMMA KeepSlots ==
  ASSUME Shared, Typed', layer'.present => layer.present,
         layer'.fade = layer.fade, layer'.anim = layer.anim,
         \A d \in Drivers : Alive(d)' => Alive(d) /\ driver'[d].kind = driver[d].kind,
         \A d \in Drivers : layer.present /\ Alive(d) => Alive(d)'
  PROVE  OneAlive' /\ Slots'
<1>1. OneAlive'
  BY DEF Shared, OneAlive
<1>2. ASSUME layer'.present PROVE /\ layer'.fade # NoDriver => Alive(layer.fade)' /\ driver'[layer.fade].kind \in Fades
                                  /\ layer'.anim # NoDriver => Alive(layer.anim)' /\ driver'[layer.anim].kind \in Moves
  BY <1>2 DEF Shared, Slots, Typed, Layers
<1>3. ASSUME layer'.present, NEW d \in Drivers, Alive(d)' PROVE Slot(d)' = d
  BY <1>3 DEF Shared, Slots, Slot
<1>. QED BY <1>1, <1>2, <1>3 DEF Slots, Alive

\* No waiting request goes on, and one that comes waits for an engine at most.
LEMMA KeepWaiters ==
  ASSUME Shared, layer'.present => layer.present, layer'.fade = layer.fade, layer'.anim = layer.anim,
         cancelled' = cancelled, panicked' = panicked,
         \A i \in Engines : Writes(i) /\ ~ Writes(i)' =>
           \A c \in Clients : req'[c].pc = "waiting_text" => req'[c].text # i,
         \A c \in Clients : req'[c] # req[c] =>
           /\ req[c].pc # "waiting"
           /\ \/ req'[c].pc \in {"idle", "woken_text"}
              \/ req'[c].pc = "waiting_text" /\ req'[c].text \in Engines /\ engine'[req'[c].text].pc # "none"
              \/ req'[c].pc = "begin_text" /\ req'[c].text \in Engines /\ req'[c].op = "text"
  PROVE  Awaited' /\ Waits' /\ ClosedOnce'
<1>1. \A c \in Clients : req[c].pc = "waiting" => req'[c] = req[c]
  OBVIOUS
<1>2. Awaited'
  BY <1>1 DEF Shared, Awaited
<1>3. ClosedOnce'
  BY <1>1 DEF Shared, ClosedOnce
<1>4. ASSUME NEW c \in Clients
      PROVE  /\ req'[c].pc \in {"waiting", "woken"} => req'[c].op \in Enders
             /\ req'[c].pc = "waiting" =>
                  req'[c].on \in Drivers /\ (layer'.present => req'[c].on \in {layer'.fade, layer'.anim})
             /\ req'[c].pc = "waiting_text" => req'[c].text \in Engines /\ engine'[req'[c].text].pc # "none"
             /\ req'[c].pc = "begin_text" => req'[c].text \in Engines /\ req'[c].op = "text"
  <2>1. CASE req'[c] = req[c]
    BY <2>1 DEF Shared, Waits, Writes
  <2>2. CASE req'[c] # req[c]
    BY <2>2
  <2>. QED BY <2>1, <2>2
<1>5. Waits'
  BY <1>4 DEF Waits, Writes
<1>. QED BY <1>2, <1>3, <1>5

LEMMA KeepEntries ==
  ASSUME Shared,
         \A k \in {"text", "ticker"} : entry'[k] \in {entry[k], NoEngine},
         \A i \in Engines : (\E k \in {"text", "ticker"} : entry'[k] = i) =>
           /\ engine'[i].kind = engine[i].kind
           /\ engine'[i].pc \in {engine[i].pc, "started", "installed", "playing", "unlisting"}
  PROVE  Entries'
<1>. SUFFICES ASSUME NEW k \in {"text", "ticker"}, entry'[k] # NoEngine
              PROVE  /\ engine'[entry'[k]].kind = k
                     /\ engine'[entry'[k]].pc \in {"made", "started", "installed", "playing", "unlisting"}
  BY DEF Entries
<1>1. entry'[k] = entry[k] /\ entry[k] \in Engines
  BY DEF Shared, Typed
<1>2. /\ engine[entry[k]].kind = k
      /\ engine[entry[k]].pc \in {"made", "started", "installed", "playing", "unlisting"}
  BY <1>1 DEF Shared, Entries
<1>. QED BY <1>1, <1>2

\* A fade or an animation is started while nothing moves the layer.
LEMMA StartShared ==
  ASSUME Shared, Typed', NEW d \in Drivers, NEW kind \in Fades \cup Moves, Spawn(d, kind), Open, ~ Driven,
         layer'.present = layer.present,
         IF kind \in Fades THEN layer'.fade = d /\ layer'.anim = layer.anim
                           ELSE layer'.anim = d /\ layer'.fade = layer.fade
  PROVE  Shared'
<1>1. layer.present /\ layer.fade = NoDriver /\ layer.anim = NoDriver
  BY DEF Open, Driven
<1>2. \A e \in Drivers : ~ Alive(e)
  BY <1>1, GraphicsAssumption DEF Shared, Slots, Slot
<1>3. /\ driver'[d] = [pc |-> "spawned", kind |-> kind, chan |-> NoDriver]
      /\ \A e \in Drivers : e # d => driver'[e] = driver[e]
      /\ cancelled' = cancelled \ {d} /\ UNCHANGED <<engine, req, panicked>>
  BY DEF Spawn, Shared, Typed
<1>4. \A e \in Drivers : Alive(e)' <=> e = d
  BY <1>2, <1>3 DEF Alive
<1>5. OneAlive'
  BY <1>4 DEF OneAlive
<1>6. Slots'
  <2>1. CASE kind \in Fades
    BY <1>1, <1>3, <1>4, <2>1 DEF Slots, Slot, Alive
  <2>2. CASE kind \in Moves
    <3>1. kind \notin Fades
      BY <2>2 DEF Fades, Moves
    <3>. QED BY <1>1, <1>3, <1>4, <2>2, <3>1 DEF Slots, Slot, Alive
  <2>. QED BY <2>1, <2>2
<1>7. \A c \in Clients : req[c].pc # "waiting"
  BY <1>1, GraphicsAssumption DEF Shared, Waits
<1>8. Awaited' /\ ClosedOnce'
  BY <1>3 DEF Shared, Awaited, ClosedOnce
<1>9. Waits'
  BY <1>3, <1>7 DEF Shared, Waits, Writes
<1>10. Entries'
  BY DEF Spawn, Shared, Entries
<1>. QED BY <1>5, <1>6, <1>8, <1>9, <1>10 DEF Shared

LEMMA StartsShared ==
  ASSUME Shared, NEW c \in Clients, NEW d \in Drivers,
         AutoOn(c, d) \/ AutoOff(c, d) \/ FlyOn(c, d) \/ \E kind \in Moves : Animate(c, d, kind)
  PROVE  Shared'
<1>0. Typed /\ Typed'
  BY StartTyped DEF Shared
<1>1. "in" \in Fades /\ "out" \in Fades /\ "slide" \in Moves /\ "slide" \notin Fades
  BY DEF Fades, Moves
<1>2. CASE AutoOn(c, d)
  <2>1. layer'.present = layer.present /\ layer'.fade = d /\ layer'.anim = layer.anim
    BY <1>0, <1>2 DEF AutoOn, Typed, Layers
  <2>. QED BY <1>0, <1>1, <1>2, <2>1, StartShared DEF AutoOn
<1>3. CASE AutoOff(c, d)
  <2>1. layer'.present = layer.present /\ layer'.fade = d /\ layer'.anim = layer.anim
    BY <1>0, <1>3 DEF AutoOff, Typed, Layers
  <2>. QED BY <1>0, <1>1, <1>3, <2>1, StartShared DEF AutoOff
<1>4. CASE FlyOn(c, d)
  <2>1. layer'.present = layer.present /\ layer'.anim = d /\ layer'.fade = layer.fade
    BY <1>0, <1>4 DEF FlyOn, Typed, Layers
  <2>. QED BY <1>0, <1>1, <1>4, <2>1, StartShared DEF FlyOn
<1>5. ASSUME NEW kind \in Moves, Animate(c, d, kind) PROVE Shared'
  <2>1. layer'.present = layer.present /\ layer'.anim = d /\ layer'.fade = layer.fade
    BY <1>0, <1>5 DEF Animate, Typed, Layers
  <2>2. kind \notin Fades
    BY DEF Fades, Moves
  <2>. QED BY <1>0, <1>5, <2>1, <2>2, StartShared DEF Animate
<1>. QED BY <1>2, <1>3, <1>4, <1>5

\* A request that does not wait, or does not wait any longer, acts, cancels or panics.
LEMMA CancelShared ==
  ASSUME Shared, Typed', NEW c \in Clients, NEW op \in Enders, NEW first \in {"fade", "anim", "act"},
         req[c].pc # "waiting", Cancel(c, op, first)
  PROVE  Shared'
<1>0. Typed
  BY DEF Shared
<1>1. CASE Act(c, op)
  <2>1. (layer'.present => layer.present) /\ layer'.fade = layer.fade /\ layer'.anim = layer.anim
    BY <1>0, <1>1 DEF Act, Typed, Layers, Enders
  <2>2. UNCHANGED <<driver, cancelled, panicked>>
    BY <1>1 DEF Act
  <2>3. \A i \in Engines : Writes(i) => Writes(i)'
    BY <1>0, <1>1 DEF Act, Typed, Texts, Writes
  <2>4. req' = [req EXCEPT ![c] = Served]
    BY <1>1 DEF Act
  <2>5. \A b \in Clients : req'[b] # req[b] => b = c /\ req'[b].pc = "idle"
    BY <1>0, <2>4 DEF Typed, Served
  <2>6. OneAlive' /\ Slots'
    BY <2>1, <2>2, KeepSlots DEF Alive
  <2>7. Awaited' /\ Waits' /\ ClosedOnce'
    BY <2>1, <2>2, <2>3, <2>5, KeepWaiters
  <2>8. \A i \in Engines : engine'[i].kind = engine[i].kind /\ engine'[i].pc \in {engine[i].pc, "started"}
    BY <1>0, <1>1 DEF Act, Typed, Texts
  <2>9. Entries'
    BY <1>0, <1>1, <2>8, KeepEntries DEF Act
  <2>. QED BY <2>6, <2>7, <2>9 DEF Shared
<1>2. CASE panicked' = TRUE /\ UNCHANGED <<layer, driver, cancelled, entry, engine, req>>
           /\ \E d \in cancelled : TRUE
  <2>1. ClosedOnce'
    BY <1>2 DEF Shared, Awaited, ClosedOnce
  <2>2. OneAlive' /\ Slots' /\ Awaited' /\ Waits'
    BY <1>2 DEF Shared, OneAlive, Slots, Slot, Alive, Awaited, Waits, Writes
  <2>. QED BY <1>2, <2>1, <2>2 DEF Shared, Entries
<1>3. ASSUME NEW d \in Drivers, d \in {layer.fade, layer.anim}, NEW nx \in {"anim", "act"},
             cancelled' = cancelled \cup {d},
             req' = [req EXCEPT ![c] = [@ EXCEPT !.pc = "waiting", !.op = op, !.on = d, !.next = nx]],
             UNCHANGED <<layer, driver, entry, engine, panicked>>
      PROVE  Shared'
  <2>1. /\ req'[c].pc = "waiting" /\ req'[c].op = op /\ req'[c].on = d
        /\ \A b \in Clients : b # c => req'[b] = req[b]
    BY <1>0, <1>3 DEF Typed, Requests
  <2>2. OneAlive' /\ Slots'
    BY <1>3, KeepSlots DEF Alive
  <2>3. Awaited' /\ ClosedOnce'
    BY <1>3, <2>1 DEF Shared, Awaited, ClosedOnce
  <2>4. Waits'
    BY <1>3, <2>1 DEF Shared, Waits, Writes
  <2>. QED BY <1>3, <2>2, <2>3, <2>4 DEF Shared, Entries
<1>4. CASE ~ Act(c, op)
  <2>. DEFINE fading == first = "fade" /\ layer.fade # NoDriver
              d == IF fading THEN layer.fade ELSE IF first = "act" THEN NoDriver ELSE layer.anim
              nx == IF fading THEN "anim" ELSE "act"
  <2>1. \/ /\ d \in Drivers \ cancelled /\ cancelled' = cancelled \cup {d}
           /\ req' = [req EXCEPT ![c] = [@ EXCEPT !.pc = "waiting", !.op = op, !.on = d, !.next = nx]]
           /\ UNCHANGED <<layer, driver, entry, engine, panicked>>
        \/ d \in cancelled /\ panicked' = TRUE /\ UNCHANGED <<layer, driver, cancelled, entry, engine, req>>
    BY <1>4 DEF Cancel
  <2>2. d \in Drivers => d \in {layer.fade, layer.anim}
    BY GraphicsAssumption
  <2>3. nx \in {"anim", "act"}
    OBVIOUS
  <2>. HIDE DEF d, nx, fading
  <2>. QED BY <1>2, <1>3, <2>1, <2>2, <2>3
<1>. QED BY <1>1, <1>4

\* A goroutine that ends wakes those who wait for it, unless the layer is gone.
LEMMA LeaveShared == ASSUME Shared, Typed', NEW d \in Drivers, Leave(d) PROVE Shared'
<1>0. Typed /\ Alive(d) /\ ~ panicked /\ UNCHANGED <<entry, engine, panicked>>
  BY DEF Shared, Leave, DriverAt, Alive
<1>1. ~ Alive(d)' /\ \A e \in Drivers : e # d => driver'[e] = driver[e]
  BY <1>0 DEF Leave, Typed, NoDrive, Alive
<1>2. CASE ~ layer.present
  <2>1. UNCHANGED <<layer, cancelled, req>>
    BY <1>2 DEF Leave
  <2>2. OneAlive' /\ Slots'
    BY <1>1, <1>2, <2>1, KeepSlots DEF Alive
  <2>3. Awaited' /\ Waits' /\ ClosedOnce'
    BY <1>0, <1>2, <2>1, KeepWaiters DEF Writes
  <2>. QED BY <1>0, <2>2, <2>3 DEF Shared, Entries
<1>3. CASE layer.present
  <2>1. Slot(d) = d /\ \A e \in Drivers : Alive(e) => e = d
    BY <1>0, <1>3 DEF Shared, Slots, OneAlive
  <2>2. \A e \in Drivers : ~ Alive(e)'
    BY <1>1, <2>1 DEF Alive
  <2>3. /\ layer'.fade = NoDriver /\ layer'.anim = NoDriver
    <3>1. layer.fade # NoDriver => layer.fade = d /\ driver[d].kind \in Fades
      BY <1>0, <1>3, <2>1 DEF Shared, Slots, Typed, Layers
    <3>2. layer.anim # NoDriver => layer.anim = d /\ driver[d].kind \in Moves
      BY <1>0, <1>3, <2>1 DEF Shared, Slots, Typed, Layers
    <3>3. CASE driver[d].kind \in Fades
      <4>1. layer.anim = NoDriver
        BY <3>2, <3>3 DEF Fades, Moves
      <4>2. layer' = [layer EXCEPT !.fade = NoDriver]
        BY <1>3, <3>3 DEF Leave, Fades
      <4>. QED BY <1>0, <4>1, <4>2 DEF Typed, Layers
    <3>4. CASE driver[d].kind \notin Fades
      <4>1. layer.fade = NoDriver
        BY <3>1, <3>4
      <4>2. \/ layer' = [layer EXCEPT !.anim = NoDriver, !.active = FALSE, !.full = FALSE]
            \/ layer' = [layer EXCEPT !.anim = NoDriver]
        BY <1>3, <3>4 DEF Leave
      <4>. QED BY <1>0, <4>1, <4>2 DEF Typed, Layers
    <3>. QED BY <3>3, <3>4
  <2>4. \A c \in Clients : req[c].pc = "waiting" => req[c].on = d
    BY <1>0, <1>3, <2>1, GraphicsAssumption DEF Shared, Slots, Waits, Typed, Layers
  <2>5. \A c \in Clients : req[c] \in Requests
    BY <1>0 DEF Typed
  <2>6. \A c \in Clients :
          IF req[c].pc = "waiting" THEN req'[c].pc = "woken" /\ req'[c].op = req[c].op ELSE req'[c] = req[c]
    <3>1. req' = [c \in Clients |-> IF req[c].pc = "waiting" /\ req[c].on = d
                                      THEN [req[c] EXCEPT !.pc = "woken", !.on = NoDriver] ELSE req[c]]
      BY <1>3, <2>1 DEF Leave
    <3>2. \A c \in Clients : /\ [req[c] EXCEPT !.pc = "woken", !.on = NoDriver].pc = "woken"
                             /\ [req[c] EXCEPT !.pc = "woken", !.on = NoDriver].op = req[c].op
      BY <2>5 DEF Requests
    <3>. QED BY <2>4, <3>1, <3>2
  <2>7. OneAlive' /\ Slots'
    BY <2>2, <2>3 DEF OneAlive, Slots
  <2>8. cancelled' = {}
    <3>1. \A e \in cancelled : e = d
      BY <2>4 DEF Shared, Awaited
    <3>2. cancelled' = cancelled \ {d}
      BY <1>3, <2>1 DEF Leave
    <3>. QED BY <3>1, <3>2
  <2>9. Awaited' /\ ClosedOnce'
    BY <1>0, <2>8 DEF Awaited, ClosedOnce
  <2>10. Waits'
    BY <1>0, <2>6 DEF Shared, Waits, Writes
  <2>. QED BY <1>0, <2>7, <2>9, <2>10 DEF Shared, Entries
<1>. QED BY <1>2, <1>3

LEMMA DriverShared ==
  ASSUME Shared, Typed', NEW d \in Drivers, Begin(d) \/ Tick(d) \/ End(d) \/ Cancelled(d) \/ Leave(d)
  PROVE  Shared'
<1>0. Typed
  BY DEF Shared
<1>1. CASE Leave(d)
  BY <1>1, LeaveShared
<1>2. CASE ~ Leave(d)
  <2>1. UNCHANGED <<cancelled, entry, engine, req, panicked>>
    BY <1>2 DEF Begin, Tick, End, Cancelled
  <2>2. layer'.present = layer.present /\ layer'.fade = layer.fade /\ layer'.anim = layer.anim
    BY <1>0, <1>2 DEF Begin, Tick, End, Cancelled, Typed, Layers
  <2>3. Alive(d)
    BY <1>2 DEF Begin, Tick, End, Cancelled, DriverAt, Alive
  <2>4. \A e \in Drivers : e # d => driver'[e] = driver[e]
    BY <1>0, <1>2 DEF Begin, Tick, End, Cancelled, Step, Typed
  <2>5. (Alive(d)' => driver'[d].kind = driver[d].kind) /\ (layer.present => Alive(d)')
    <3>1. driver[d] \in Drives
      BY <1>0 DEF Typed
    <3>2. CASE Begin(d)
      <4>1. CASE layer.present
        <5>1. driver'[d] = [driver[d] EXCEPT !.pc = "running", !.chan = Slot(d)]
          BY <1>0, <3>2, <4>1 DEF Begin, Typed
        <5>. QED BY <3>1, <5>1 DEF Drives, Alive
      <4>2. CASE ~ layer.present
        <5>1. driver'[d] = NoDrive
          BY <1>0, <3>2, <4>2 DEF Begin, Typed
        <5>. QED BY <4>2, <5>1 DEF NoDrive, Alive
      <4>. QED BY <4>1, <4>2
    <3>3. CASE driver' = driver
      BY <2>3, <3>3 DEF Alive
    <3>4. CASE \E pc \in {"running", "leaving"} : driver' = [driver EXCEPT ![d].pc = pc]
      BY <1>0, <3>4 DEF Typed, Drives, Alive
    <3>. QED BY <1>2, <3>2, <3>3, <3>4 DEF Tick, End, Cancelled, Step
  <2>7. OneAlive' /\ Slots'
    BY <2>2, <2>3, <2>4, <2>5, KeepSlots DEF Alive
  <2>8. Awaited' /\ Waits' /\ ClosedOnce'
    BY <2>1, <2>2, KeepWaiters DEF Writes
  <2>. QED BY <2>1, <2>7, <2>8 DEF Shared, Entries
<1>. QED BY <1>1, <1>2

LEMMA EndersShared ==
  ASSUME Shared, Typed', NEW c \in Clients,
         On(c) \/ Off(c) \/ RemoveLayer(c) \/ StopAnimation(c) \/ Close(c) \/ Resume(c)
  PROVE  Shared'
<1>1. CASE Close(c) /\ ~ layer.present
  <2>1. UNCHANGED <<layer, driver, cancelled, entry, engine, req, panicked>>
    BY <1>1 DEF Close
  <2>. QED BY <2>1, KeepSlots, KeepWaiters DEF Shared, Alive, Writes, Entries
<1>2. CASE Close(c) /\ layer.present
  <2>1. Cancel(c, "close", "fade") /\ req[c].pc # "waiting"
    BY <1>2 DEF Close, Asked, At
  <2>. QED BY <2>1, CancelShared DEF Enders
<1>3. CASE On(c) \/ Off(c) \/ RemoveLayer(c) \/ StopAnimation(c) \/ Resume(c)
  <2>1. {"on", "off", "remove", "stop_animation"} \subseteq Enders
    BY DEF Enders
  <2>2. (\E op \in Enders, first \in {"fade", "anim", "act"} : Cancel(c, op, first)) /\ req[c].pc # "waiting"
    BY <1>3, <2>1, EndersCancel DEF At
  <2>. QED BY <2>2, CancelShared
<1>. QED BY <1>1, <1>2, <1>3

LEMMA MadeWrites ==
  ASSUME Typed, NEW i \in Engines, NEW kind \in {"text", "ticker"}, NEW pc \in {"made", "started"},
         Made(i, kind, pc)
  PROVE  /\ engine'[i].pc = pc /\ engine'[i].kind = kind /\ engine'[i].cancelled = FALSE
         /\ \A j \in Engines : j # i => engine'[j] = engine[j]
         /\ entry'[kind] = i /\ \A k \in {"text", "ticker"} : k # kind => entry'[k] = entry[k]
<1>1. engine' = [engine EXCEPT ![i] = [NoText EXCEPT !.pc = pc, !.kind = kind, !.raced = Racing(kind)]]
  BY DEF Made
<1>2. engine'[i] = [NoText EXCEPT !.pc = pc, !.kind = kind, !.raced = Racing(kind)] /\ \A j \in Engines : j # i => engine'[j] = engine[j]
  BY <1>1 DEF Typed
<1>3. engine'[i].pc = pc /\ engine'[i].kind = kind /\ engine'[i].cancelled = FALSE
  BY <1>2 DEF NoText
<1>4. entry'[kind] = i /\ \A k \in {"text", "ticker"} : k # kind => entry'[k] = entry[k]
  BY DEF Made, Typed
<1>. QED BY <1>2, <1>3, <1>4

\* The requests to the engines, up to those that end an animation.
LEMMA TextRequestShared ==
  ASSUME Shared, Typed', NEW c \in Clients
  PROVE  /\ \A i \in Engines : StartText(c, i) \/ StartTicker(c, i) => Shared'
         /\ \A kind \in {"text", "ticker"}, op \in {"stop", "update"} : StopText(c, kind, op) => Shared'
         /\ BeginText(c) \/ Stopped(c) \/ SetOverlay(c) => Shared'
<1>0. Typed
  BY DEF Shared
<1>a. ASSUME UNCHANGED <<driver, cancelled, panicked>>,
             layer'.present = layer.present, layer'.fade = layer.fade, layer'.anim = layer.anim, Entries',
             \A i \in Engines : Writes(i) => Writes(i)',
             \A b \in Clients : req'[b] # req[b] =>
               /\ req[b].pc # "waiting"
               /\ \/ req'[b].pc \in {"idle", "woken_text"}
                  \/ req'[b].pc = "waiting_text" /\ req'[b].text \in Engines /\ engine'[req'[b].text].pc # "none"
                  \/ req'[b].pc = "begin_text" /\ req'[b].text \in Engines /\ req'[b].op = "text"
      PROVE  Shared'
  <2>1. OneAlive' /\ Slots'
    BY <1>a, KeepSlots DEF Alive
  <2>2. Awaited' /\ Waits' /\ ClosedOnce'
    BY <1>a, KeepWaiters
  <2>. QED BY <1>a, <2>1, <2>2 DEF Shared
<1>b. ASSUME NEW i \in Engines, NEW kind \in {"text", "ticker"}, NEW pc \in {"made", "started"}, Made(i, kind, pc)
      PROVE  Entries' /\ \A j \in Engines : Writes(j) => Writes(j)'
  <2>0. /\ engine'[i].pc = pc /\ engine'[i].kind = kind
        /\ \A j \in Engines : j # i => engine'[j] = engine[j]
        /\ entry'[kind] = i /\ \A k \in {"text", "ticker"} : k # kind => entry'[k] = entry[k]
    BY <1>0, <1>b, MadeWrites
  <2>1. \A k \in {"text", "ticker"} : k # kind /\ entry[k] # NoEngine => entry[k] \in Engines /\ entry[k] # i
    BY <1>0, <1>b DEF Made, Shared, Entries, Typed
  <2>2. ASSUME NEW k \in {"text", "ticker"}, entry'[k] # NoEngine
        PROVE  /\ engine'[entry'[k]].kind = k
               /\ engine'[entry'[k]].pc \in {"made", "started", "installed", "playing", "unlisting"}
    <3>1. CASE k = kind
      BY <2>0, <3>1
    <3>2. CASE k # kind
      <4>1. entry'[k] = entry[k] /\ engine'[entry[k]] = engine[entry[k]]
        BY <2>0, <2>1, <2>2, <3>2
      <4>. QED BY <2>2, <4>1 DEF Shared, Entries
    <3>. QED BY <3>1, <3>2
  <2>. QED BY <1>b, <2>0, <2>2 DEF Entries, Made, Writes
<1>1. ASSUME NEW i \in Engines, StartText(c, i) PROVE Shared'
  <2>1. Entries' /\ \A j \in Engines : Writes(j) => Writes(j)'
    BY <1>1, <1>b DEF StartText
  <2>2. req' = [req EXCEPT ![c] = [Served EXCEPT !.pc = "begin_text", !.op = "text", !.text = i]]
    BY <1>1 DEF StartText
  <2>3. /\ req'[c] = [Served EXCEPT !.pc = "begin_text", !.op = "text", !.text = i]
        /\ \A b \in Clients : b # c => req'[b] = req[b]
    BY <1>0, <2>2 DEF Typed
  <2>4. req'[c].pc = "begin_text" /\ req'[c].op = "text" /\ req'[c].text = i
    BY <2>3 DEF Served
  <2>. QED BY <1>1, <1>a, <2>1, <2>3, <2>4 DEF StartText, Asked, At
<1>2. ASSUME NEW i \in Engines, StartTicker(c, i) PROVE Shared'
  BY <1>2, <1>a, <1>b DEF StartTicker
<1>3. ASSUME NEW kind \in {"text", "ticker"}, NEW op \in {"stop", "update"}, StopText(c, kind, op)
      PROVE Shared'
  <2>1. entry[kind] \in Engines /\ Writes(entry[kind])
    BY <1>0, <1>3 DEF StopText, Typed, Shared, Entries, Writes
  <2>2. /\ engine' = [engine EXCEPT ![entry[kind]].cancelled = TRUE]
        /\ entry' = [entry EXCEPT ![kind] = NoEngine]
        /\ req' = [req EXCEPT ![c] = [Served EXCEPT !.pc = "waiting_text", !.op = op, !.text = entry[kind]]]
    BY <1>3 DEF StopText
  <2>3. \A j \in Engines : engine'[j].pc = engine[j].pc /\ engine'[j].kind = engine[j].kind
    BY <1>0, <2>2 DEF Typed, Texts
  <2>4. \A k \in {"text", "ticker"} : entry'[k] \in {entry[k], NoEngine}
    BY <1>0, <2>2 DEF Typed
  <2>5. Entries'
    BY <2>3, <2>4, KeepEntries
  <2>6. /\ req'[c] = [Served EXCEPT !.pc = "waiting_text", !.op = op, !.text = entry[kind]]
        /\ \A b \in Clients : b # c => req'[b] = req[b]
    BY <1>0, <2>2 DEF Typed
  <2>7. req'[c].pc = "waiting_text" /\ req'[c].text = entry[kind]
    BY <2>6 DEF Served
  <2>8. engine'[req'[c].text].pc # "none" /\ \A j \in Engines : Writes(j) => Writes(j)'
    BY <2>1, <2>3, <2>7 DEF Writes
  <2>9. UNCHANGED <<layer, driver, cancelled, panicked>> /\ req[c].pc = "idle"
    BY <1>3 DEF StopText, Asked, At
  <2>. QED BY <1>a, <2>1, <2>5, <2>6, <2>7, <2>8, <2>9
<1>4. CASE BeginText(c)
  <2>0. req[c].pc # "waiting"
    BY <1>4 DEF BeginText, At
  <2>1. CASE Open /\ layer.anim # NoDriver
    BY <1>4, <2>0, <2>1, CancelShared DEF BeginText, Enders
  <2>2. CASE ~ (Open /\ layer.anim # NoDriver)
    <3>1. /\ engine' = [engine EXCEPT ![req[c].text].pc = "started"] /\ req' = [req EXCEPT ![c] = Served]
          /\ UNCHANGED <<layer, driver, cancelled, entry, panicked>>
      BY <1>4, <2>2 DEF BeginText
    <3>2. \A i \in Engines : engine'[i].kind = engine[i].kind /\ engine'[i].pc \in {engine[i].pc, "started"}
      BY <1>0, <3>1 DEF Typed, Texts
    <3>3. Entries' /\ \A i \in Engines : Writes(i) => Writes(i)'
      BY <3>1, <3>2, KeepEntries DEF Writes
    <3>4. \A b \in Clients : req'[b] # req[b] => b = c /\ req'[b].pc = "idle"
      BY <1>0, <3>1 DEF Typed, Served
    <3>. QED BY <1>a, <2>0, <3>1, <3>3, <3>4
  <2>. QED BY <2>1, <2>2
<1>5. CASE Stopped(c)
  <2>1. Entries' /\ \A i \in Engines : Writes(i) => Writes(i)'
    BY <1>5, <1>b DEF Stopped, Shared, Entries, Writes
  <2>2. req' = [req EXCEPT ![c] = Served] /\ UNCHANGED <<layer, driver, cancelled, panicked>> /\ req[c].pc # "waiting"
    BY <1>5 DEF Stopped, At
  <2>3. \A b \in Clients : req'[b] # req[b] => b = c /\ req'[b].pc = "idle"
    BY <1>0, <2>2 DEF Typed, Served
  <2>. QED BY <1>a, <2>1, <2>2, <2>3
<1>6. CASE SetOverlay(c)
  <2>1. layer'.present = layer.present /\ layer'.fade = layer.fade /\ layer'.anim = layer.anim
    BY <1>0, <1>6 DEF SetOverlay, Typed, Layers
  <2>2. UNCHANGED <<driver, cancelled, entry, engine, req, panicked>>
    BY <1>6 DEF SetOverlay
  <2>. QED BY <1>a, <2>1, <2>2 DEF Writes, Shared, Entries
<1>. QED BY <1>1, <1>2, <1>3, <1>4, <1>5, <1>6

\* The goroutines of the engines; one that ends wakes those who wait for it.
LEMMA EngineShared ==
  ASSUME Shared, Typed', NEW i \in Engines,
         Play(i) \/ ShowTicker(i) \/ Draw(i) \/ Finish(i) \/ Unlist(i) \/ ClearTicker(i) \/ Blank(i)
  PROVE  Shared'
<1>0. Typed /\ UNCHANGED <<driver, cancelled, panicked>> /\ Writes(i)
  BY DEF Shared, Play, ShowTicker, Draw, Finish, Unlist, ClearTicker, Blank, EngineAt, Writes
<1>1. layer'.present = layer.present /\ layer'.fade = layer.fade /\ layer'.anim = layer.anim
  BY <1>0 DEF Play, ShowTicker, Draw, Finish, Unlist, ClearTicker, Blank, Shown, Typed, Layers
<1>2. OneAlive' /\ Slots'
  BY <1>0, <1>1, KeepSlots DEF Alive
<1>3. CASE Blank(i)
  <2>1. engine' = [engine EXCEPT ![i] = NoText] /\ entry' = entry /\ engine[i].pc = "blanking"
    BY <1>3 DEF Blank, EngineAt
  <2>2. \A j \in Engines : j # i => engine'[j] = engine[j]
    BY <1>0, <2>1 DEF Typed
  <2>3. \A k \in {"text", "ticker"} : entry[k] # i
    BY <2>1, GraphicsAssumption DEF Shared, Entries
  <2>4. Entries'
    BY <2>1, <2>2, <2>3, KeepEntries
  <2>5. \A c \in Clients : req[c] \in Requests
    BY <1>0 DEF Typed
  <2>6. \A c \in Clients : IF req[c].pc = "waiting_text" /\ req[c].text = i
                              THEN req'[c].pc = "woken_text" ELSE req'[c] = req[c]
    BY <1>3, <2>5 DEF Blank, Requests
  <2>7. Awaited' /\ Waits' /\ ClosedOnce'
    BY <1>0, <1>1, <2>2, <2>6, KeepWaiters DEF Writes
  <2>. QED BY <1>2, <2>4, <2>7 DEF Shared
<1>4. CASE ~ Blank(i)
  <2>1. req' = req
    BY <1>4 DEF Play, ShowTicker, Draw, Finish, Unlist, ClearTicker
  <2>2. \A j \in Engines : j # i => engine'[j] = engine[j]
    BY <1>0, <1>4 DEF Play, ShowTicker, Draw, Finish, Unlist, ClearTicker, Goto, Typed
  <2>3. engine'[i].kind = engine[i].kind /\ engine'[i].pc # "none"
    BY <1>0, <1>4 DEF Play, ShowTicker, Draw, Finish, Unlist, ClearTicker, Goto, Typed, Texts, Writes
  <2>4. Awaited' /\ Waits' /\ ClosedOnce'
    BY <1>0, <1>1, <2>1, <2>2, <2>3, KeepWaiters DEF Writes
  <2>5. Entries'
    <3>1. CASE Unlist(i)
      <4>1. entry' = [entry EXCEPT ![engine[i].kind] = NoEngine] /\ engine[i].kind \in {"text", "ticker"}
        BY <1>0, <3>1 DEF Unlist, Typed, Texts
      <4>2. \A k \in {"text", "ticker"} : entry'[k] \in {entry[k], NoEngine} /\ entry'[k] # i
        BY <1>0, <4>1, GraphicsAssumption DEF Typed, Shared, Entries
      <4>. QED BY <2>2, <4>2, KeepEntries
    <3>2. CASE ClearTicker(i)
      <4>1. entry' = entry /\ engine[i].pc = "clearing"
        BY <3>2 DEF ClearTicker, EngineAt
      <4>2. \A k \in {"text", "ticker"} : entry[k] # i
        BY <4>1, GraphicsAssumption DEF Shared, Entries
      <4>. QED BY <2>2, <4>1, <4>2, KeepEntries
    <3>3. CASE Play(i) \/ ShowTicker(i) \/ Draw(i) \/ Finish(i)
      <4>1. entry' = entry
        BY <3>3 DEF Play, ShowTicker, Draw, Finish
      <4>2. engine'[i].pc \in {engine[i].pc, "started", "installed", "playing", "unlisting"}
        BY <1>0, <3>3 DEF Play, ShowTicker, Draw, Finish, Goto, Typed, Texts
      <4>. QED BY <2>2, <2>3, <4>1, <4>2, KeepEntries
    <3>. QED BY <1>4, <3>1, <3>2, <3>3
  <2>. QED BY <1>2, <2>4, <2>5 DEF Shared
<1>. QED BY <1>3, <1>4

LEMMA NextShared == ASSUME Shared, [Next]_vars PROVE Shared'
<1>0. Typed /\ Typed'
  BY NextTyped DEF Shared
<1>1. CASE UNCHANGED vars
  BY <1>0, <1>1, KeepSlots, KeepWaiters DEF vars, Shared, Alive, Writes, Entries
<1>2. CASE Scroll
  <2>1. layer'.present = layer.present /\ layer'.fade = layer.fade /\ layer'.anim = layer.anim
    BY <1>0, <1>2 DEF Scroll, Typed, Layers
  <2>2. \A i \in Engines : engine'[i].pc = engine[i].pc /\ engine'[i].kind = engine[i].kind
    BY <1>0, <1>2 DEF Scroll, Typed, Texts
  <2>3. UNCHANGED <<driver, cancelled, entry, req, panicked>>
    BY <1>2 DEF Scroll
  <2>4. Entries'
    BY <2>2, <2>3, KeepEntries
  <2>. QED BY <1>0, <2>1, <2>2, <2>3, <2>4, KeepSlots, KeepWaiters DEF Shared, Alive, Writes
<1>3. ASSUME NEW d \in Drivers, Begin(d) \/ Tick(d) \/ End(d) \/ Cancelled(d) \/ Leave(d) PROVE Shared'
  BY <1>0, <1>3, DriverShared
<1>4. ASSUME NEW i \in Engines,
             Play(i) \/ ShowTicker(i) \/ Draw(i) \/ Finish(i) \/ Unlist(i) \/ ClearTicker(i) \/ Blank(i)
      PROVE  Shared'
  BY <1>0, <1>4, EngineShared
<1>. QED BY <1>0, <1>1, <1>2, <1>3, <1>4, StartsShared, EndersShared, TextRequestShared DEF Next
-----------------------------------------------------------------------------
(* The entries of the engines                                              *)

Listing == {"made", "started", "installed", "playing", "unlisting"}

\* An engine that is not started yet waits for one request, the one that made it.
Making ==
  /\ \A c \in Clients : req[c].op = "text" => req[c].text \in Engines /\ engine[req[c].text].pc = "made"
  /\ \A b, c \in Clients : req[b].op = "text" /\ req[c].op = "text" /\ req[b].text = req[c].text => b = c

\* An engine that nobody has stopped, and whose start did not race, has its entry, and no
\* other of its kind is left that could delete it.
Kept ==
  \A i \in Engines : engine[i].pc \in Listing /\ ~ engine[i].cancelled /\ ~ engine[i].raced =>
    /\ entry[engine[i].kind] = i
    /\ \A j \in Engines : engine[j].pc \in Listing /\ engine[j].kind = engine[i].kind => j = i

LEMMA InitKept == Init => Making /\ Kept
BY DEF Init, Making, Kept, Served, NoText, Listing

\* Entries stay, and no engine comes to have one to delete.
LEMMA KeepKept ==
  ASSUME Kept, entry' = entry,
         \A i \in Engines : engine'[i].pc \in Listing =>
           /\ engine[i].pc \in Listing /\ engine'[i].kind = engine[i].kind
           /\ engine'[i].cancelled = engine[i].cancelled /\ engine'[i].raced = engine[i].raced
  PROVE  Kept'
BY DEF Kept

\* No request comes to wait with an engine, and the engines of those that wait stay.
LEMMA KeepMaking ==
  ASSUME Making,
         \A c \in Clients : req'[c].op = "text" =>
           /\ req[c].op = "text" /\ req'[c].text = req[c].text
           /\ req[c].text \in Engines /\ engine[req[c].text].pc = "made" => engine'[req[c].text].pc = "made"
  PROVE  Making'
BY DEF Making

\* A new engine: if the start does not race, there is no other of its kind.
LEMMA MadeKept ==
  ASSUME Typed, Kept, NEW n \in Engines, NEW kind \in {"text", "ticker"}, NEW pc \in {"made", "started"},
         Made(n, kind, pc), entry[kind] = NoEngine
  PROVE  Kept'
<1>1. engine' = [engine EXCEPT ![n] = [NoText EXCEPT !.pc = pc, !.kind = kind, !.raced = Racing(kind)]]
  BY DEF Made
<1>2. /\ engine'[n] = [NoText EXCEPT !.pc = pc, !.kind = kind, !.raced = Racing(kind)]
      /\ \A j \in Engines : j # n => engine'[j] = engine[j]
  BY <1>1 DEF Typed
<1>3. /\ engine'[n].kind = kind /\ engine[n].pc = "none"
      /\ entry'[kind] = n /\ \A k \in {"text", "ticker"} : k # kind => entry'[k] = entry[k]
  <2>1. engine[n].pc = "none"
    BY DEF Made
  <2>2. /\ engine'[n].kind = kind
        /\ entry'[kind] = n /\ \A k \in {"text", "ticker"} : k # kind => entry'[k] = entry[k]
    BY MadeWrites
  <2>. QED BY <2>1, <2>2
<1>4. \A j \in Engines : engine[j].kind \in {"text", "ticker"}
  BY DEF Typed, Texts
<1>5. ~ Racing(kind) => \A j \in Engines : engine[j].pc \in Listing => engine[j].kind # kind
  <2>. SUFFICES ASSUME ~ Racing(kind), NEW j \in Engines, engine[j].pc \in Listing, engine[j].kind = kind
                PROVE  FALSE
    OBVIOUS
  <2>1. ~ engine[j].cancelled /\ ~ engine[j].raced
    BY DEF Racing, Unlists, Listing
  <2>2. entry[kind] = j
    BY <2>1 DEF Kept
  <2>. QED BY <2>2, GraphicsAssumption
<1>6. ~ engine'[n].raced => ~ Racing(kind)
  BY <1>2 DEF NoText
<1>7. ASSUME NEW i \in Engines, engine'[i].pc \in Listing, ~ engine'[i].cancelled, ~ engine'[i].raced
      PROVE  /\ entry'[engine'[i].kind] = i
             /\ \A j \in Engines : engine'[j].pc \in Listing /\ engine'[j].kind = engine'[i].kind => j = i
  <2>1. CASE i = n
    BY <1>2, <1>3, <1>5, <1>6, <1>7, <2>1
  <2>2. CASE i # n
    <3>1. /\ engine'[i] = engine[i] /\ entry[engine[i].kind] = i
          /\ \A j \in Engines : engine[j].pc \in Listing /\ engine[j].kind = engine[i].kind => j = i
      BY <1>2, <1>7, <2>2 DEF Kept
    <3>2. engine[i].kind # kind
      BY <3>1, GraphicsAssumption
    <3>. QED BY <1>2, <1>3, <1>4, <3>1, <3>2
  <2>. QED BY <2>1, <2>2
<1>. QED BY <1>7 DEF Kept

\* A request that ends an animation starts no engine but the one it has made.
LEMMA CancelKept ==
  ASSUME Typed, Making, Kept, NEW c \in Clients, NEW op \in Enders, NEW first \in {"fade", "anim", "act"},
         op = "text" => req[c].op = "text", Cancel(c, op, first)
  PROVE  Making' /\ Kept'
<1>1. CASE Act(c, op)
  <2>1. entry' = entry /\ req' = [req EXCEPT ![c] = Served]
    BY <1>1 DEF Act
  <2>2. \A b \in Clients : (b # c => req'[b] = req[b]) /\ (b = c => req'[b].op = "none")
    BY <2>1 DEF Typed, Served
  <2>3. CASE op = "text"
    <3>1. req[c].text \in Engines /\ engine[req[c].text].pc = "made"
      BY <2>3 DEF Making
    <3>2. engine' = [engine EXCEPT ![req[c].text].pc = "started"]
      BY <1>1, <2>3 DEF Act
    <3>3. \A i \in Engines : /\ i # req[c].text => engine'[i] = engine[i]
                             /\ engine'[i].kind = engine[i].kind /\ engine'[i].cancelled = engine[i].cancelled
                             /\ engine'[i].raced = engine[i].raced
      BY <3>1, <3>2 DEF Typed, Texts
    <3>4. Kept'
      BY <2>1, <3>1, <3>3, KeepKept DEF Listing
    <3>5. \A b \in Clients : b # c /\ req[b].op = "text" => req[b].text # req[c].text
      BY <2>3 DEF Making
    <3>6. Making'
      BY <2>2, <3>3, <3>5, KeepMaking
    <3>. QED BY <3>4, <3>6
  <2>4. CASE op # "text"
    <3>1. engine' = engine
      BY <1>1, <2>4 DEF Act
    <3>. QED BY <2>1, <2>2, <3>1, KeepKept, KeepMaking
  <2>. QED BY <2>3, <2>4
<1>2. ASSUME NEW d, NEW nx,
             req' = [req EXCEPT ![c] = [@ EXCEPT !.pc = "waiting", !.op = op, !.on = d, !.next = nx]],
             UNCHANGED <<entry, engine>>
      PROVE  Making' /\ Kept'
  <2>1. /\ req'[c].op = op /\ req'[c].text = req[c].text
        /\ \A b \in Clients : b # c => req'[b] = req[b]
    BY <1>2 DEF Typed, Requests
  <2>. QED BY <1>2, <2>1, KeepKept, KeepMaking
<1>3. CASE UNCHANGED <<entry, engine, req>>
  BY <1>3, KeepKept, KeepMaking
<1>4. CASE ~ Act(c, op)
  <2>. DEFINE fading == first = "fade" /\ layer.fade # NoDriver
              d == IF fading THEN layer.fade ELSE IF first = "act" THEN NoDriver ELSE layer.anim
              nx == IF fading THEN "anim" ELSE "act"
  <2>1. \/ /\ req' = [req EXCEPT ![c] = [@ EXCEPT !.pc = "waiting", !.op = op, !.on = d, !.next = nx]]
           /\ UNCHANGED <<entry, engine>>
        \/ UNCHANGED <<entry, engine, req>>
    BY <1>4 DEF Cancel
  <2>. HIDE DEF d, nx, fading
  <2>. QED BY <1>2, <1>3, <2>1
<1>. QED BY <1>1, <1>4

LEMMA EndersKept ==
  ASSUME Shared, Making, Kept, NEW c \in Clients,
         On(c) \/ Off(c) \/ RemoveLayer(c) \/ StopAnimation(c) \/ Close(c) \/ Resume(c)
  PROVE  Making' /\ Kept'
<1>0. Typed
  BY DEF Shared
<1>1. CASE Close(c)
  <2>1. CASE layer.present
    BY <1>0, <1>1, <2>1, CancelKept DEF Close, Enders
  <2>2. CASE ~ layer.present
    BY <1>1, <2>2, KeepKept, KeepMaking DEF Close
  <2>. QED BY <2>1, <2>2
<1>2. CASE Resume(c)
  BY <1>0, <1>2, EndersCancel, CancelKept
<1>3. CASE On(c) \/ Off(c) \/ RemoveLayer(c) \/ StopAnimation(c)
  <2>1. \E op \in Enders \ {"text"}, first \in {"fade", "anim", "act"} : Cancel(c, op, first)
    BY <1>3, EndersCancel DEF Enders
  <2>. QED BY <1>0, <2>1, CancelKept
<1>. QED BY <1>1, <1>2, <1>3

\* The requests to the engines.
LEMMA TextRequestKept ==
  ASSUME Shared, Making, Kept, NEW c \in Clients
  PROVE  /\ \A i \in Engines : StartText(c, i) \/ StartTicker(c, i) => Making' /\ Kept'
         /\ \A kind \in {"text", "ticker"}, op \in {"stop", "update"} : StopText(c, kind, op) => Making' /\ Kept'
         /\ BeginText(c) \/ Stopped(c) => Making' /\ Kept'
<1>0. Typed
  BY DEF Shared
<1>a. ASSUME NEW i \in Engines, NEW kind \in {"text", "ticker"}, NEW pc \in {"made", "started"}, Made(i, kind, pc)
      PROVE  /\ engine'[i].pc = pc /\ \A b \in Clients : req[b].text # i
             /\ \A j \in Engines : engine[j].pc = "made" => j # i /\ engine'[j].pc = "made"
  BY <1>0, <1>a, MadeWrites DEF Made
<1>1. ASSUME NEW i \in Engines, StartText(c, i) PROVE Making' /\ Kept'
  <2>1. /\ Made(i, "text", "made") /\ entry["text"] = NoEngine
        /\ req' = [req EXCEPT ![c] = [Served EXCEPT !.pc = "begin_text", !.op = "text", !.text = i]]
    BY <1>1 DEF StartText
  <2>2. /\ req'[c] = [Served EXCEPT !.pc = "begin_text", !.op = "text", !.text = i]
        /\ \A b \in Clients : b # c => req'[b] = req[b]
    BY <1>0, <2>1 DEF Typed
  <2>3. req'[c].op = "text" /\ req'[c].text = i
    BY <2>2 DEF Served
  <2>4. /\ engine'[i].pc = "made" /\ \A b \in Clients : req[b].text # i
        /\ \A j \in Engines : engine[j].pc = "made" => engine'[j].pc = "made"
    BY <1>a, <2>1
  <2>5. Making'
    <3>1. \A b \in Clients : req'[b].op = "text" => req'[b].text \in Engines /\ engine'[req'[b].text].pc = "made"
      BY <2>2, <2>3, <2>4 DEF Making
    <3>2. \A b \in Clients : req'[b].text = i => b = c
      BY <2>2, <2>4
    <3>3. \A a, b \in Clients : req'[a].op = "text" /\ req'[b].op = "text" /\ req'[a].text = req'[b].text => a = b
      <4>. SUFFICES ASSUME NEW a \in Clients, NEW b \in Clients,
                           req'[a].op = "text", req'[b].op = "text", req'[a].text = req'[b].text
                    PROVE  a = b
        OBVIOUS
      <4>1. CASE a = c \/ b = c
        BY <2>3, <3>2, <4>1
      <4>2. CASE a # c /\ b # c
        BY <2>2, <4>2 DEF Making
      <4>. QED BY <4>1, <4>2
    <3>. QED BY <3>1, <3>3 DEF Making
  <2>. QED BY <1>0, <2>1, <2>5, MadeKept
<1>2. ASSUME NEW i \in Engines, StartTicker(c, i) PROVE Making' /\ Kept'
  <2>1. Made(i, "ticker", "started") /\ entry["ticker"] = NoEngine /\ req' = req
    BY <1>2 DEF StartTicker
  <2>2. \A j \in Engines : engine[j].pc = "made" => engine'[j].pc = "made"
    BY <1>a, <2>1
  <2>. QED BY <1>0, <2>1, <2>2, MadeKept, KeepMaking
<1>3. ASSUME NEW kind \in {"text", "ticker"}, NEW op \in {"stop", "update"}, StopText(c, kind, op)
      PROVE  Making' /\ Kept'
  <2>1. /\ entry[kind] # NoEngine /\ entry' = [entry EXCEPT ![kind] = NoEngine]
        /\ engine' = [engine EXCEPT ![entry[kind]].cancelled = TRUE]
        /\ req' = [req EXCEPT ![c] = [Served EXCEPT !.pc = "waiting_text", !.op = op, !.text = entry[kind]]]
    BY <1>3 DEF StopText
  <2>. DEFINE e == entry[kind]
  <2>2. /\ e \in Engines /\ engine[e].kind = kind
        /\ \A k \in {"text", "ticker"} : k # kind => entry'[k] = entry[k]
        /\ \A j \in Engines : engine[j].kind \in {"text", "ticker"}
    BY <1>0, <2>1 DEF Typed, Texts, Shared, Entries
  <2>3. /\ \A j \in Engines : /\ engine'[j].pc = engine[j].pc /\ engine'[j].kind = engine[j].kind
                              /\ engine'[j].raced = engine[j].raced
                              /\ j # e => engine'[j].cancelled = engine[j].cancelled
        /\ engine'[e].cancelled
    BY <1>0, <2>1, <2>2 DEF Typed, Texts
  <2>4. req'[c].op = op /\ \A b \in Clients : b # c => req'[b] = req[b]
    <3>1. /\ req'[c] = [Served EXCEPT !.pc = "waiting_text", !.op = op, !.text = entry[kind]]
          /\ \A b \in Clients : b # c => req'[b] = req[b]
      BY <1>0, <2>1 DEF Typed
    <3>. QED BY <3>1 DEF Served
  <2>5. Making'
    BY <2>3, <2>4, KeepMaking
  <2>6. ASSUME NEW i \in Engines, engine'[i].pc \in Listing, ~ engine'[i].cancelled, ~ engine'[i].raced
        PROVE  /\ entry'[engine'[i].kind] = i
               /\ \A j \in Engines : engine'[j].pc \in Listing /\ engine'[j].kind = engine'[i].kind => j = i
    <3>1. /\ i # e /\ entry[engine[i].kind] = i
          /\ \A j \in Engines : engine[j].pc \in Listing /\ engine[j].kind = engine[i].kind => j = i
      BY <2>3, <2>6 DEF Kept
    <3>2. engine[i].kind # kind
      BY <3>1
    <3>. QED BY <2>2, <2>3, <3>1, <3>2
  <2>. QED BY <2>5, <2>6 DEF Kept
<1>4. CASE BeginText(c)
  <2>1. req[c].op = "text"
    BY <1>4 DEF BeginText, At, Shared, Waits
  <2>2. CASE Cancel(c, "text", "anim")
    BY <1>0, <2>1, <2>2, CancelKept DEF Enders
  <2>3. CASE /\ engine' = [engine EXCEPT ![req[c].text].pc = "started"] /\ req' = [req EXCEPT ![c] = Served]
             /\ entry' = entry
    <3>1. req[c].text \in Engines /\ engine[req[c].text].pc = "made"
      BY <2>1 DEF Making
    <3>2. \A i \in Engines : /\ i # req[c].text => engine'[i] = engine[i]
                             /\ engine'[i].kind = engine[i].kind /\ engine'[i].cancelled = engine[i].cancelled
                             /\ engine'[i].raced = engine[i].raced
      BY <1>0, <2>3, <3>1 DEF Typed, Texts
    <3>3. \A b \in Clients : /\ b # c => req'[b] = req[b]
                             /\ b = c => req'[b].op = "none"
                             /\ b # c /\ req[b].op = "text" => req[b].text # req[c].text
      BY <1>0, <2>1, <2>3 DEF Typed, Served, Making
    <3>4. Kept'
      BY <2>3, <3>1, <3>2, KeepKept DEF Listing
    <3>5. Making'
      BY <3>2, <3>3, KeepMaking
    <3>. QED BY <3>4, <3>5
  <2>. QED BY <1>4, <2>2, <2>3 DEF BeginText
<1>5. CASE Stopped(c)
  <2>1. req' = [req EXCEPT ![c] = Served]
    BY <1>5 DEF Stopped
  <2>2. \A b \in Clients : (b # c => req'[b] = req[b]) /\ (b = c => req'[b].op = "none")
    BY <1>0, <2>1 DEF Typed, Served
  <2>3. CASE UNCHANGED <<entry, engine>>
    BY <2>2, <2>3, KeepKept, KeepMaking
  <2>4. ASSUME NEW i \in Engines, Made(i, "ticker", "started"), entry["ticker"] = NoEngine PROVE Making' /\ Kept'
    <3>1. \A j \in Engines : engine[j].pc = "made" => engine'[j].pc = "made"
      BY <1>a, <2>4
    <3>. QED BY <1>0, <2>2, <2>4, <3>1, MadeKept, KeepMaking
  <2>. QED BY <1>5, <2>3, <2>4 DEF Stopped
<1>. QED BY <1>1, <1>2, <1>3, <1>4, <1>5

\* An engine that goes on deletes no entry but its own.
LEMMA EngineKept ==
  ASSUME Shared, Making, Kept, NEW i \in Engines,
         Play(i) \/ ShowTicker(i) \/ Draw(i) \/ Finish(i) \/ Unlist(i) \/ ClearTicker(i) \/ Blank(i)
  PROVE  Making' /\ Kept'
<1>0. Typed /\ engine[i].pc # "made"
  BY DEF Shared, Play, ShowTicker, Draw, Finish, Unlist, ClearTicker, Blank, EngineAt
<1>1. \A j \in Engines : j # i => engine'[j] = engine[j]
  BY <1>0 DEF Play, ShowTicker, Draw, Finish, Unlist, ClearTicker, Blank, Goto, Typed
<1>2. Making'
  <2>1. \A c \in Clients : req'[c] = req[c] \/ (req'[c].op = req[c].op /\ req[c].text = i)
    <3>1. \A c \in Clients : req[c] \in Requests
      BY <1>0 DEF Typed
    <3>2. CASE Blank(i)
      BY <3>1, <3>2 DEF Blank, Requests
    <3>3. CASE ~ Blank(i)
      BY <3>3 DEF Play, ShowTicker, Draw, Finish, Unlist, ClearTicker
    <3>. QED BY <3>2, <3>3
  <2>2. \A c \in Clients : req[c].op = "text" => req[c].text \in Engines /\ req[c].text # i
    BY <1>0 DEF Making
  <2>. QED BY <1>1, <2>1, <2>2, KeepMaking
<1>3. CASE Play(i) \/ ShowTicker(i) \/ Draw(i) \/ Finish(i) \/ ClearTicker(i)
  <2>1. entry' = entry
    BY <1>3 DEF Play, ShowTicker, Draw, Finish, ClearTicker
  <2>2. engine'[i].pc \in Listing =>
          /\ engine[i].pc \in Listing /\ engine'[i].kind = engine[i].kind
          /\ engine'[i].cancelled = engine[i].cancelled /\ engine'[i].raced = engine[i].raced
    BY <1>0, <1>3 DEF Play, ShowTicker, Draw, Finish, ClearTicker, EngineAt, Goto, Typed, Texts, Listing
  <2>. QED BY <1>1, <1>2, <2>1, <2>2, KeepKept
<1>4. CASE Unlist(i)
  <2>1. /\ engine[i].pc \in Listing /\ engine'[i].pc \notin Listing
        /\ entry' = [entry EXCEPT ![engine[i].kind] = NoEngine]
        /\ \A j \in Engines : engine[j].kind \in {"text", "ticker"}
    BY <1>0, <1>4 DEF Unlist, EngineAt, Goto, Typed, Texts, Listing
  <2>2. \A k \in {"text", "ticker"} : k # engine[i].kind => entry'[k] = entry[k]
    BY <1>0, <2>1 DEF Typed
  <2>3. ASSUME NEW j \in Engines, engine'[j].pc \in Listing, ~ engine'[j].cancelled, ~ engine'[j].raced
        PROVE  /\ entry'[engine'[j].kind] = j
               /\ \A k \in Engines : engine'[k].pc \in Listing /\ engine'[k].kind = engine'[j].kind => k = j
    <3>1. j # i /\ engine'[j] = engine[j]
      BY <1>1, <2>1, <2>3
    <3>2. /\ entry[engine[j].kind] = j /\ engine[j].kind # engine[i].kind
          /\ \A k \in Engines : engine[k].pc \in Listing /\ engine[k].kind = engine[j].kind => k = j
      BY <2>1, <2>3, <3>1 DEF Kept
    <3>. QED BY <1>1, <2>1, <2>2, <3>1, <3>2
  <2>. QED BY <1>2, <2>3 DEF Kept
<1>5. CASE Blank(i)
  <2>1. entry' = entry /\ engine'[i].pc \notin Listing
    BY <1>0, <1>5 DEF Blank, Typed, NoText, Listing
  <2>. QED BY <1>1, <1>2, <2>1, KeepKept
<1>. QED BY <1>3, <1>4, <1>5

LEMMA NextKept == ASSUME Shared, Making, Kept, [Next]_vars PROVE Making' /\ Kept'
<1>0. Typed
  BY DEF Shared
<1>1. CASE UNCHANGED <<entry, engine, req>>
  BY <1>1, KeepKept, KeepMaking
<1>2. CASE Scroll
  <2>1. \A i \in Engines : /\ engine'[i].pc = engine[i].pc /\ engine'[i].kind = engine[i].kind
                           /\ engine'[i].cancelled = engine[i].cancelled /\ engine'[i].raced = engine[i].raced
    BY <1>0, <1>2 DEF Scroll, Typed, Texts
  <2>2. UNCHANGED <<entry, req>>
    BY <1>2 DEF Scroll
  <2>. QED BY <2>1, <2>2, KeepKept, KeepMaking
<1>3. ASSUME NEW d \in Drivers, Leave(d) PROVE Making' /\ Kept'
  <2>1. \A c \in Clients : req[c] \in Requests
    BY <1>0 DEF Typed
  <2>2. \A c \in Clients : req'[c].op = req[c].op /\ req'[c].text = req[c].text
    <3>1. \A c \in Clients : LET woken == [req[c] EXCEPT !.pc = "woken", !.on = NoDriver]
                             IN  woken.op = req[c].op /\ woken.text = req[c].text
      BY <2>1 DEF Requests
    <3>2. \A c \in Clients : req'[c] \in {req[c], [req[c] EXCEPT !.pc = "woken", !.on = NoDriver]}
      BY <1>3 DEF Leave
    <3>. QED BY <3>1, <3>2
  <2>3. UNCHANGED <<entry, engine>>
    BY <1>3 DEF Leave
  <2>. QED BY <2>2, <2>3, KeepKept, KeepMaking
<1>4. ASSUME NEW d \in Drivers, Begin(d) \/ Tick(d) \/ End(d) \/ Cancelled(d) PROVE Making' /\ Kept'
  BY <1>1, <1>4 DEF Begin, Tick, End, Cancelled
<1>5. ASSUME NEW c \in Clients, NEW d \in Drivers,
             AutoOn(c, d) \/ AutoOff(c, d) \/ FlyOn(c, d) \/ \E kind \in Moves : Animate(c, d, kind)
      PROVE  Making' /\ Kept'
  BY <1>1, <1>5 DEF AutoOn, AutoOff, FlyOn, Animate, Spawn
<1>6. ASSUME NEW c \in Clients, SetOverlay(c) PROVE Making' /\ Kept'
  BY <1>1, <1>6 DEF SetOverlay
<1>7. CASE UNCHANGED vars
  BY <1>1, <1>7 DEF vars
<1>8. ASSUME NEW i \in Engines,
             Play(i) \/ ShowTicker(i) \/ Draw(i) \/ Finish(i) \/ Unlist(i) \/ ClearTicker(i) \/ Blank(i)
      PROVE  Making' /\ Kept'
  BY <1>8, EngineKept
<1>. QED BY <1>2, <1>3, <1>4, <1>5, <1>6, <1>7, <1>8, EndersKept, TextRequestKept DEF Next
-----------------------------------------------------------------------------
(* Requests that do not overlap                                            *)

OneRequest == \A b, c \in Clients : req[b].pc # "idle" /\ req[c].pc # "idle" => b = c
OneWriter == \A i, j \in Engines : Writes(i) /\ Writes(j) => i = j

\* What a fade or an animation relies on.
Undisturbed ==
  \A d \in Drivers : Alive(d) =>
    /\ layer.present /\ layer.ticker = NoEngine
    /\ driver[d].pc \in {"spawned", "running"} => layer.active
    /\ \A i \in Engines : engine[i].pc \in {"none", "made"}
    /\ closed => \E c \in Clients : req[c].pc = "waiting" /\ req[c].op = "close"

\* What a request finds when it goes on.
Phases ==
  \A c \in Clients :
    /\ req[c].pc \in {"waiting", "woken"} => layer.present
    /\ req[c].pc \in {"woken", "waiting_text", "woken_text"} => \A d \in Drivers : ~ Alive(d)
    /\ req[c].pc = "begin_text" => layer.fade = NoDriver \/ ~ layer.present
    /\ req[c].pc \in {"begin_text", "waiting", "woken"} /\ req[c].op = "text" =>
         req[c].text \in Engines /\ engine[req[c].text].pc = "made"
    /\ req[c].pc = "waiting_text" => engine[req[c].text].pc # "made"
    /\ req[c].pc = "woken_text" => \A i \in Engines : ~ Writes(i)

MadeFor ==
  \A i \in Engines : engine[i].pc = "made" =>
    \E c \in Clients : req[c].pc \in {"begin_text", "waiting", "woken"} /\ req[c].op = "text" /\ req[c].text = i

\* The strip on the layer is that of a ticker that is still to take it off.
Strip ==
  layer.present /\ layer.ticker # NoEngine =>
    /\ engine[layer.ticker].pc \in {"installed", "playing", "unlisting", "clearing"}
    /\ engine[layer.ticker].kind = "ticker"

Calm == OneRequest /\ OneWriter /\ Undisturbed /\ Phases /\ MadeFor /\ Strip

Alone == ~ overlapped => Calm

LEMMA InitAlone == Init => Alone
BY DEF Init, Alone, Calm, OneRequest, OneWriter, Undisturbed, Phases, MadeFor, Strip,
       Alive, Writes, NoDrive, NoText, Served

\* Nobody is served: no engine waits to be started.
LEMMA NobodyServed ==
  ASSUME Shared, Calm, \A c \in Clients : req[c].pc = "idle"
  PROVE  /\ \A i \in Engines : engine[i].pc # "made"
         /\ cancelled = {}
BY DEF Calm, MadeFor, Shared, Awaited

\* Nothing writes: there is no strip on the layer.
LEMMA NothingWrites ==
  ASSUME Shared, Calm, layer.present, \A i \in Engines : ~ Writes(i)
  PROVE  layer.ticker = NoEngine
BY DEF Shared, Typed, Layers, Calm, Strip, Writes

LEMMA StartsAlone ==
  ASSUME Shared, Alone, Shared', ~ overlapped', NEW c \in Clients, NEW d \in Drivers,
         AutoOn(c, d) \/ AutoOff(c, d) \/ FlyOn(c, d) \/ \E kind \in Moves : Animate(c, d, kind)
  PROVE  Calm'
<1>1. /\ ~ overlapped /\ \A b \in Clients : req[b].pc = "idle"
      /\ \A i \in Engines : engine[i].pc = "none"
      /\ layer.present /\ ~ closed
  BY DEF AutoOn, AutoOff, FlyOn, Animate, Asked, Busy, Written, Open
<1>2. UNCHANGED <<closed, entry, engine, req>>
  BY DEF AutoOn, AutoOff, FlyOn, Animate, Spawn
<1>3. Calm /\ layer.ticker = NoEngine
  BY <1>1, NothingWrites DEF Alone, Writes
<1>4. layer'.present /\ layer'.ticker = NoEngine /\ layer'.active
  BY <1>1, <1>3 DEF AutoOn, AutoOff, FlyOn, Animate, Shared, Typed, Layers
<1>5. Undisturbed'
  BY <1>1, <1>2, <1>4 DEF Undisturbed
<1>. QED BY <1>1, <1>2, <1>4, <1>5 DEF Calm, OneRequest, OneWriter, Phases, MadeFor, Strip, Writes

\* The request of c closes the cancel channel of d.
WaitFor(c, op, d, next) ==
  /\ d \in {layer.fade, layer.anim}
  /\ req' = [req EXCEPT ![c] = [@ EXCEPT !.pc = "waiting", !.op = op, !.on = d, !.next = next]]
  /\ UNCHANGED <<layer, driver, entry, engine>>

\* Without another that waits, a request acts or waits, and does not panic.
LEMMA CancelCases ==
  ASSUME Shared, NEW c \in Clients, NEW op \in Enders, NEW first \in {"fade", "anim", "act"},
         \A b \in Clients : req[b].pc # "waiting", Cancel(c, op, first)
  PROVE  \/ /\ Act(c, op) /\ (first = "fade" => layer.fade = NoDriver) /\ (first # "act" => layer.anim = NoDriver)
         \/ first # "act" /\ \E d \in Drivers, nx \in {"anim", "act"} : WaitFor(c, op, d, nx)
<1>1. cancelled = {} /\ Typed
  BY DEF Shared, Awaited
<1>. DEFINE fading == first = "fade" /\ layer.fade # NoDriver
            d == IF fading THEN layer.fade ELSE IF first = "act" THEN NoDriver ELSE layer.anim
            nx == IF fading THEN "anim" ELSE "act"
<1>2. \/ d = NoDriver /\ Act(c, op)
      \/ /\ d \in Drivers \ cancelled /\ cancelled' = cancelled \cup {d}
         /\ req' = [req EXCEPT ![c] = [@ EXCEPT !.pc = "waiting", !.op = op, !.on = d, !.next = nx]]
         /\ UNCHANGED <<layer, driver, entry, engine, panicked>>
      \/ d \in cancelled /\ panicked' = TRUE /\ UNCHANGED <<layer, driver, cancelled, entry, engine, req>>
  BY DEF Cancel
<1>3. /\ d = NoDriver => (first = "fade" => layer.fade = NoDriver) /\ (first # "act" => layer.anim = NoDriver)
      /\ d \in Drivers => d \in {layer.fade, layer.anim} /\ first # "act"
      /\ nx \in {"anim", "act"}
  BY GraphicsAssumption
<1>. HIDE DEF d, nx, fading
<1>. QED BY <1>1, <1>2, <1>3 DEF WaitFor

\* It acts on a layer that nothing moves.
LEMMA ActAlone ==
  ASSUME Shared, Calm, NEW c \in Clients, NEW op \in Enders,
         \A b \in Clients : b # c => req[b].pc = "idle", \A d \in Drivers : ~ Alive(d),
         IF op = "text" THEN req[c].pc \in {"begin_text", "woken"} /\ req[c].op = "text"
                        ELSE req[c].pc = "idle" \/ req[c].op = op,
         Act(c, op)
  PROVE  Calm'
<1>0. Typed
  BY DEF Shared
<1>1. layer'.ticker = layer.ticker /\ (layer'.present => layer.present)
  BY <1>0 DEF Act, Typed, Layers, Enders
<1>2. driver' = driver /\ entry' = entry /\ \A b \in Clients : req'[b].pc = "idle"
  BY <1>0 DEF Act, Typed, Served
<1>3. /\ \A i \in Engines : /\ engine[i].pc # "made" => engine'[i] = engine[i]
                            /\ engine[i].pc = "made" => /\ engine'[i].pc = "started" /\ engine'[i].kind = engine[i].kind
                                                        /\ engine'[i].cancelled = engine[i].cancelled
  <2>1. CASE op = "text"
    <3>1. req[c].text \in Engines /\ engine[req[c].text].pc = "made"
      BY <2>1 DEF Calm, Phases
    <3>2. \A i \in Engines : engine[i].pc = "made" => i = req[c].text
      BY <3>1 DEF Calm, OneWriter, Writes
    <3>3. engine' = [engine EXCEPT ![req[c].text].pc = "started"]
      BY <2>1 DEF Act
    <3>. QED BY <1>0, <3>1, <3>2, <3>3 DEF Typed, Texts
  <2>2. CASE op # "text"
    <3>1. \A i \in Engines : engine[i].pc # "made"
      BY <2>2 DEF Calm, MadeFor
    <3>. QED BY <2>2, <3>1 DEF Act
  <2>. QED BY <2>1, <2>2
<1>4. \A i \in Engines : (Writes(i)' <=> Writes(i)) /\ engine'[i].pc # "made"
  BY <1>3 DEF Writes
<1>5. Undisturbed'
  BY <1>2 DEF Undisturbed, Alive
<1>6. OneRequest' /\ OneWriter' /\ Phases' /\ MadeFor'
  BY <1>2, <1>4 DEF Calm, OneRequest, OneWriter, Phases, MadeFor
<1>7. Strip'
  BY <1>0, <1>1, <1>3 DEF Calm, Strip, Typed, Layers
<1>. QED BY <1>5, <1>6, <1>7 DEF Calm

\* It waits for what moves the layer.
LEMMA WaitAlone ==
  ASSUME Shared, Calm, NEW c \in Clients, NEW op \in Enders, NEW d \in Drivers, NEW nx \in {"anim", "act"},
         \A b \in Clients : b # c => req[b].pc = "idle", layer.present,
         IF op = "text" THEN req[c].pc = "begin_text" ELSE req[c].pc = "idle",
         closed' = closed \/ op = "close", WaitFor(c, op, d, nx)
  PROVE  Calm'
<1>. USE DEF WaitFor
<1>0. Typed
  BY DEF Shared
<1>1. /\ req'[c].pc = "waiting" /\ req'[c].op = op /\ req'[c].text = req[c].text
      /\ \A b \in Clients : b # c => req'[b] = req[b]
  BY <1>0 DEF Typed, Requests
<1>2. closed' => op = "close"
  <2>1. Alive(d) /\ req[c].pc # "waiting"
    BY GraphicsAssumption DEF Shared, Slots
  <2>2. ~ closed
    BY <2>1 DEF Calm, Undisturbed
  <2>. QED BY <2>2
<1>3. OneRequest'
  BY <1>1 DEF OneRequest
<1>4. Undisturbed'
  BY <1>1, <1>2 DEF Calm, Undisturbed, Alive
<1>5. op = "text" => req[c].text \in Engines /\ engine[req[c].text].pc = "made"
  BY DEF Calm, Phases, Shared, Waits
<1>6. Phases'
  BY <1>1, <1>5 DEF Phases
<1>7. MadeFor'
  BY <1>1 DEF Calm, MadeFor, Shared, Waits
<1>8. OneWriter' /\ Strip'
  BY DEF Calm, OneWriter, Strip, Writes
<1>. QED BY <1>3, <1>4, <1>6, <1>7, <1>8 DEF Calm

\* A layer that is there is moved only by what its channels name.
LEMMA Unmoved ==
  ASSUME Shared, layer.present, layer.fade = NoDriver, layer.anim = NoDriver
  PROVE  \A d \in Drivers : ~ Alive(d)
BY GraphicsAssumption DEF Shared, Slots, Slot

LEMMA EndersAlone ==
  ASSUME Shared, Alone, ~ overlapped', NEW c \in Clients,
         On(c) \/ Off(c) \/ RemoveLayer(c) \/ StopAnimation(c) \/ (Close(c) /\ layer.present)
  PROVE  Calm'
<1>1. ~ overlapped /\ layer.present /\ \A b \in Clients : req[b].pc = "idle"
  BY DEF On, Off, RemoveLayer, StopAnimation, Close, Asked, Busy, Open
<1>2. Calm
  BY <1>1 DEF Alone
<1>3. ASSUME NEW op \in Enders, NEW first \in {"fade", "anim"}, Cancel(c, op, first), op # "text",
             closed' = closed \/ op = "close", first = "anim" => layer.anim # NoDriver
      PROVE  Calm'
  <2>0. (\A b \in Clients : req[b].pc # "waiting") /\ first # "act" /\ first \in {"fade", "anim", "act"}
    BY <1>1, <1>3
  <2>1. CASE /\ Act(c, op) /\ (first = "fade" => layer.fade = NoDriver) /\ (first # "act" => layer.anim = NoDriver)
    <3>1. \A d \in Drivers : ~ Alive(d)
      BY <1>1, <1>3, <2>1, Unmoved
    <3>. QED BY <1>1, <1>2, <1>3, <2>1, <3>1, ActAlone
  <2>2. ASSUME NEW d \in Drivers, NEW nx \in {"anim", "act"}, WaitFor(c, op, d, nx) PROVE Calm'
    BY <1>1, <1>2, <1>3, <2>2, WaitAlone
  <2>. QED BY <1>3, <2>0, <2>1, <2>2, CancelCases
<1>4. /\ On(c) => Cancel(c, "on", "fade") /\ closed' = closed
      /\ Off(c) => Cancel(c, "off", "fade") /\ closed' = closed
      /\ RemoveLayer(c) => Cancel(c, "remove", "fade") /\ closed' = closed
      /\ StopAnimation(c) => Cancel(c, "stop_animation", "anim") /\ closed' = closed /\ layer.anim # NoDriver
      /\ Close(c) => Cancel(c, "close", "fade")
  BY <1>1 DEF On, Off, RemoveLayer, StopAnimation, Close
<1>. QED BY <1>3, <1>4 DEF Enders

LEMMA TextRequestAlone ==
  ASSUME Shared, Alone, Shared', ~ overlapped', NEW c \in Clients
  PROVE  /\ \A i \in Engines : StartText(c, i) \/ StartTicker(c, i) => Calm'
         /\ \A kind \in {"text", "ticker"}, op \in {"stop", "update"} : StopText(c, kind, op) => Calm'
         /\ SetOverlay(c) \/ (Close(c) /\ ~ layer.present) => Calm'
<1>0. Typed
  BY DEF Shared
<1>1. ASSUME NEW i \in Engines, StartText(c, i) PROVE Calm'
  <2>1. /\ ~ overlapped /\ layer.fade = NoDriver
        /\ (\A b \in Clients : req[b].pc = "idle") /\ (\A j \in Engines : ~ Writes(j))
        /\ UNCHANGED <<layer, closed, driver>> /\ Made(i, "text", "made")
        /\ req' = [req EXCEPT ![c] = [Served EXCEPT !.pc = "begin_text", !.op = "text", !.text = i]]
    BY <1>1 DEF StartText, Asked, Busy, Written, Writes
  <2>2. /\ req'[c] = [Served EXCEPT !.pc = "begin_text", !.op = "text", !.text = i]
        /\ \A b \in Clients : b # c => req'[b] = req[b]
    BY <1>0, <2>1 DEF Typed
  <2>3. req'[c].pc = "begin_text" /\ req'[c].op = "text" /\ req'[c].text = i
    BY <2>2 DEF Served
  <2>4. /\ engine'[i].pc = "made" /\ engine'[i].kind = "text" /\ engine'[i].cancelled = FALSE
        /\ \A j \in Engines : j # i => engine'[j] = engine[j] /\ engine'[j].pc = "none"
        /\ entry'["text"] = i
    <3>1. /\ engine'[i].pc = "made" /\ engine'[i].kind = "text" /\ engine'[i].cancelled = FALSE
          /\ (\A j \in Engines : j # i => engine'[j] = engine[j]) /\ entry'["text"] = i
      BY <1>0, <2>1, MadeWrites
    <3>. QED BY <2>1, <3>1 DEF Writes
  <2>5. Calm /\ (layer.present => layer.ticker = NoEngine)
    BY <2>1, NothingWrites DEF Alone
  <2>6. OneRequest' /\ OneWriter'
    BY <2>1, <2>2, <2>4 DEF OneRequest, OneWriter, Writes
  <2>7. Undisturbed'
    BY <2>1, <2>4, <2>5 DEF Calm, Undisturbed, Alive
  <2>8. Phases' /\ MadeFor'
    BY <2>1, <2>2, <2>3, <2>4 DEF Phases, MadeFor
  <2>9. Strip'
    BY <2>1, <2>5 DEF Strip
  <2>. QED BY <2>6, <2>7, <2>8, <2>9 DEF Calm
<1>2. ASSUME NEW i \in Engines, StartTicker(c, i) PROVE Calm'
  <2>1. /\ ~ overlapped /\ layer.fade = NoDriver /\ layer.anim = NoDriver
        /\ (\A b \in Clients : req[b].pc = "idle") /\ (\A j \in Engines : ~ Writes(j))
        /\ UNCHANGED <<layer, closed, driver, req>> /\ Made(i, "ticker", "started")
    BY <1>2 DEF StartTicker, Asked, Busy, Written, Writes, Driven
  <2>2. /\ engine'[i].pc = "started" /\ engine'[i].kind = "ticker" /\ engine'[i].cancelled = FALSE
        /\ \A j \in Engines : j # i => engine'[j] = engine[j] /\ engine'[j].pc = "none"
        /\ entry'["ticker"] = i
    <3>1. /\ engine'[i].pc = "started" /\ engine'[i].kind = "ticker" /\ engine'[i].cancelled = FALSE
          /\ (\A j \in Engines : j # i => engine'[j] = engine[j]) /\ entry'["ticker"] = i
      BY <1>0, <2>1, MadeWrites
    <3>. QED BY <2>1, <3>1 DEF Writes
  <2>3. Calm /\ (layer.present => layer.ticker = NoEngine)
    BY <2>1, NothingWrites DEF Alone
  <2>4. \A d \in Drivers : ~ Alive(d)
    BY <2>1, <2>3, Unmoved DEF Calm, Undisturbed
  <2>5. OneRequest' /\ OneWriter' /\ MadeFor'
    BY <2>1, <2>2 DEF OneRequest, OneWriter, Writes, MadeFor
  <2>6. Undisturbed' /\ Strip'
    BY <2>1, <2>3, <2>4 DEF Undisturbed, Alive, Strip
  <2>7. Phases'
    BY <2>1 DEF Phases
  <2>. QED BY <2>5, <2>6, <2>7 DEF Calm
<1>3. ASSUME NEW kind \in {"text", "ticker"}, NEW op \in {"stop", "update"}, StopText(c, kind, op) PROVE Calm'
  <2>1. /\ ~ overlapped /\ \A b \in Clients : req[b].pc = "idle"
        /\ UNCHANGED <<layer, closed, driver>> /\ entry[kind] # NoEngine
        /\ engine' = [engine EXCEPT ![entry[kind]].cancelled = TRUE]
        /\ req' = [req EXCEPT ![c] = [Served EXCEPT !.pc = "waiting_text", !.op = op, !.text = entry[kind]]]
    BY <1>3 DEF StopText, Asked, Busy
  <2>. DEFINE i == entry[kind]
  <2>2. Calm
    BY <2>1 DEF Alone
  <2>3. i \in Engines /\ Writes(i) /\ engine[i].pc # "made"
    BY <1>0, <2>1, <2>2, NobodyServed DEF Shared, Typed, Entries, Writes
  <2>4. /\ req'[c] = [Served EXCEPT !.pc = "waiting_text", !.op = op, !.text = entry[kind]]
        /\ \A b \in Clients : b # c => req'[b] = req[b]
    BY <1>0, <2>1 DEF Typed
  <2>5. req'[c].pc = "waiting_text" /\ req'[c].text = i
    BY <2>4 DEF Served
  <2>6. /\ \A j \in Engines : engine'[j].pc = engine[j].pc /\ engine'[j].kind = engine[j].kind
        /\ engine'[i].cancelled
    BY <1>0, <2>1, <2>3 DEF Typed, Texts
  <2>7. \A j \in Engines : j # i => engine[j].pc = "none"
    BY <2>2, <2>3 DEF Calm, OneWriter, Writes
  <2>8. \A d \in Drivers : ~ Alive(d)
    BY <2>2, <2>3 DEF Calm, Undisturbed, Writes
  <2>. HIDE DEF i
  <2>9. OneRequest'
    BY <2>1, <2>4 DEF OneRequest
  <2>10. OneWriter' /\ MadeFor'
    BY <2>3, <2>6, <2>7 DEF OneWriter, MadeFor, Writes
  <2>11. Undisturbed'
    BY <2>1, <2>8 DEF Undisturbed, Alive
  <2>12. Phases'
    BY <2>1, <2>3, <2>4, <2>5, <2>6, <2>8 DEF Phases, Alive
  <2>13. Strip'
    BY <1>0, <2>1, <2>2, <2>6 DEF Calm, Strip, Typed, Layers
  <2>. QED BY <2>9, <2>10, <2>11, <2>12, <2>13 DEF Calm
<1>4. ASSUME SetOverlay(c) \/ (Close(c) /\ ~ layer.present) PROVE Calm'
  <2>1. /\ ~ overlapped /\ UNCHANGED <<driver, entry, engine, req>>
        /\ layer' \in {layer, [layer EXCEPT !.overlay = TRUE]}
        /\ closed' = closed \/ ~ layer.present
    BY <1>4 DEF SetOverlay, Close, Asked
  <2>2. /\ layer'.present = layer.present /\ layer'.active = layer.active
        /\ layer'.fade = layer.fade /\ layer'.ticker = layer.ticker
    BY <1>0, <2>1 DEF Typed, Layers
  <2>. QED BY <2>1, <2>2 DEF Alone, Calm, OneRequest, OneWriter, Undisturbed, Phases, MadeFor, Strip,
                             Alive, Writes
<1>. QED BY <1>1, <1>2, <1>3, <1>4

\* The requests that go on.
LEMMA ResumedAlone ==
  ASSUME Shared, Alone, Shared', ~ overlapped', NEW c \in Clients, Resume(c) \/ BeginText(c) \/ Stopped(c)
  PROVE  Calm'
<1>0. Typed /\ Calm /\ req[c].pc # "idle"
  BY DEF Shared, Alone, Resume, BeginText, Stopped, At
<1>1. \A b \in Clients : b # c => req[b].pc = "idle"
  BY <1>0 DEF Calm, OneRequest
<1>2. CASE Resume(c)
  <2>1. /\ req[c].pc = "woken" /\ req[c].op \in Enders /\ req[c].next \in {"anim", "act"}
        /\ Cancel(c, req[c].op, req[c].next)
    BY <1>2, EndersCancel DEF At
  <2>2. layer.present /\ \A d \in Drivers : ~ Alive(d)
    BY <1>0, <2>1 DEF Calm, Phases
  <2>3. layer.anim = NoDriver
    BY <1>0, <2>2 DEF Shared, Slots, Typed, Layers
  <2>4. ~ \E d \in Drivers, nx \in {"anim", "act"} : req[c].next # "act" /\ WaitFor(c, req[c].op, d, nx)
    <3>1. layer.fade = NoDriver
      BY <1>0, <2>2 DEF Shared, Slots, Typed, Layers
    <3>. QED BY <2>3, <3>1, GraphicsAssumption DEF WaitFor
  <2>5. Act(c, req[c].op)
    BY <1>1, <2>1, <2>4, CancelCases
  <2>. QED BY <1>0, <1>1, <2>1, <2>2, <2>5, ActAlone
<1>3. CASE BeginText(c)
  <2>1. req[c].pc = "begin_text" /\ req[c].op = "text" /\ closed' = closed
    BY <1>3 DEF BeginText, At, Shared, Waits
  <2>2. CASE Open /\ layer.anim # NoDriver
    <3>1. Cancel(c, "text", "anim")
      BY <1>3, <2>2 DEF BeginText
    <3>2. \E d \in Drivers, nx \in {"anim", "act"} : WaitFor(c, "text", d, nx)
      BY <1>1, <2>1, <2>2, <3>1, CancelCases DEF Enders
    <3>. QED BY <1>0, <1>1, <2>1, <2>2, <3>2, WaitAlone DEF Enders, Open
  <2>3. CASE ~ (Open /\ layer.anim # NoDriver)
    <3>1. /\ engine' = [engine EXCEPT ![req[c].text].pc = "started"] /\ req' = [req EXCEPT ![c] = Served]
          /\ UNCHANGED <<layer, driver, cancelled, entry, panicked>>
      BY <1>3, <2>3 DEF BeginText
    <3>2. \A d \in Drivers : ~ Alive(d)
      <4>1. CASE closed \/ ~ layer.present
        BY <1>0, <1>1, <2>1, <4>1 DEF Calm, Undisturbed
      <4>2. CASE ~ closed /\ layer.present
        BY <1>0, <2>1, <2>3, <4>2, Unmoved DEF Open, Calm, Phases
      <4>. QED BY <4>1, <4>2
    <3>3. req[c].text \in Engines /\ engine[req[c].text].pc = "made"
      BY <1>0, <2>1 DEF Calm, Phases
    <3>. DEFINE i == req[c].text
    <3>4. \A j \in Engines : j # i => engine[j].pc = "none"
      BY <1>0, <3>3 DEF Calm, OneWriter, Writes
    <3>5. /\ engine'[i].pc = "started" /\ engine'[i].kind = engine[i].kind
          /\ engine'[i].cancelled = engine[i].cancelled /\ \A j \in Engines : j # i => engine'[j] = engine[j]
      BY <1>0, <3>1, <3>3 DEF Typed, Texts
    <3>6. \A b \in Clients : req'[b].pc = "idle"
      BY <1>0, <1>1, <3>1 DEF Typed, Served
    <3>. HIDE DEF i
    <3>7. OneRequest' /\ Phases'
      BY <3>6 DEF OneRequest, Phases
    <3>8. OneWriter' /\ MadeFor'
      BY <3>4, <3>5 DEF OneWriter, MadeFor, Writes
    <3>9. Undisturbed'
      BY <3>1, <3>2 DEF Undisturbed, Alive
    <3>10. Strip'
      <4>1. layer.present /\ layer.ticker # NoEngine => layer.ticker \in Engines /\ layer.ticker # i
        BY <1>0, <3>3 DEF Calm, Strip, Typed, Layers, i
      <4>. QED BY <1>0, <3>1, <3>5, <4>1 DEF Calm, Strip
    <3>. QED BY <3>7, <3>8, <3>9, <3>10 DEF Calm
  <2>. QED BY <2>2, <2>3
<1>4. CASE Stopped(c)
  <2>1. /\ req[c].pc = "woken_text" /\ UNCHANGED <<layer, closed, driver>> /\ req' = [req EXCEPT ![c] = Served]
        /\ (\E i \in Engines : Made(i, "ticker", "started")) \/ UNCHANGED <<entry, engine>>
    BY <1>4 DEF Stopped, At
  <2>2. (\A d \in Drivers : ~ Alive(d)) /\ \A i \in Engines : ~ Writes(i)
    BY <1>0, <2>1 DEF Calm, Phases
  <2>3. \A b \in Clients : req'[b].pc = "idle"
    BY <1>0, <1>1, <2>1 DEF Typed, Served
  <2>4. layer.present => layer.ticker = NoEngine
    BY <1>0, <2>2, NothingWrites
  <2>5. Undisturbed' /\ Strip' /\ OneRequest' /\ Phases'
    BY <2>1, <2>2, <2>3, <2>4 DEF Undisturbed, Strip, OneRequest, Phases, Alive
  <2>6. CASE UNCHANGED <<entry, engine>>
    BY <2>2, <2>5, <2>6 DEF Calm, OneWriter, MadeFor, Writes
  <2>7. ASSUME NEW i \in Engines, Made(i, "ticker", "started") PROVE Calm'
    <3>1. /\ engine'[i].pc = "started" /\ engine'[i].kind = "ticker"
          /\ \A j \in Engines : j # i => engine'[j] = engine[j] /\ engine'[j].pc = "none"
          /\ entry'["ticker"] = i
      <4>1. /\ engine'[i].pc = "started" /\ engine'[i].kind = "ticker"
            /\ (\A j \in Engines : j # i => engine'[j] = engine[j]) /\ entry'["ticker"] = i
        BY <1>0, <2>7, MadeWrites
      <4>. QED BY <2>2, <4>1 DEF Writes
    <3>. QED BY <2>5, <3>1 DEF Calm, OneWriter, MadeFor, Writes
  <2>. QED BY <2>1, <2>6, <2>7
<1>. QED BY <1>2, <1>3, <1>4

LEMMA DriverAlone ==
  ASSUME Shared, Alone, Shared', ~ overlapped', NEW d \in Drivers,
         Begin(d) \/ Tick(d) \/ End(d) \/ Cancelled(d) \/ Leave(d)
  PROVE  Calm'
<1>0. Typed /\ Calm /\ Alive(d)
  BY DEF Shared, Alone, Begin, Tick, End, Cancelled, Leave, DriverAt, Alive
<1>1. /\ layer.present /\ layer.ticker = NoEngine
      /\ \A e \in Drivers : Alive(e) => e = d
      /\ \A c \in Clients : req[c].pc \notin {"woken", "waiting_text", "woken_text"}
  BY <1>0 DEF Calm, Undisturbed, Phases, Shared, OneAlive
<1>2. UNCHANGED <<closed, entry, engine>>
  BY DEF Begin, Tick, End, Cancelled, Leave
<1>3. \A e \in Drivers : e # d => driver'[e] = driver[e]
  BY <1>0 DEF Begin, Tick, End, Cancelled, Leave, Step, Typed
<1>4. OneWriter'
  BY <1>0, <1>2 DEF Calm, OneWriter, Writes
<1>5. CASE Leave(d)
  <2>1. layer'.present = layer.present /\ layer'.ticker = layer.ticker /\ layer'.fade \in {layer.fade, NoDriver}
    BY <1>0, <1>5 DEF Leave, Typed, Layers
  <2>2. \A e \in Drivers : ~ Alive(e)'
    BY <1>0, <1>1, <1>3, <1>5 DEF Leave, Typed, NoDrive, Alive
  <2>3. \A c \in Clients : req[c] \in Requests
    BY <1>0 DEF Typed
  <2>4. \A c \in Clients : \/ req'[c] = req[c]
                           \/ /\ req[c].pc = "waiting" /\ req'[c].pc = "woken"
                              /\ req'[c].op = req[c].op /\ req'[c].text = req[c].text
    <3>1. \A c \in Clients : LET woken == [req[c] EXCEPT !.pc = "woken", !.on = NoDriver]
                             IN  woken.pc = "woken" /\ woken.op = req[c].op /\ woken.text = req[c].text
      BY <2>3 DEF Requests
    <3>2. \A c \in Clients : \/ req'[c] = req[c]
                             \/ req[c].pc = "waiting" /\ req'[c] = [req[c] EXCEPT !.pc = "woken", !.on = NoDriver]
      BY <1>1, <1>5 DEF Leave
    <3>. QED BY <3>1, <3>2
  <2>5. Undisturbed' /\ Strip'
    BY <1>1, <2>1, <2>2 DEF Undisturbed, Strip
  <2>6. OneRequest'
    BY <1>0, <2>4 DEF Calm, OneRequest
  <2>7. MadeFor'
    <3>. SUFFICES ASSUME NEW i \in Engines, engine[i].pc = "made"
                  PROVE  \E c \in Clients : /\ req'[c].pc \in {"begin_text", "waiting", "woken"}
                                            /\ req'[c].op = "text" /\ req'[c].text = i
      BY <1>2 DEF MadeFor
    <3>1. PICK c \in Clients : req[c].pc \in {"begin_text", "waiting", "woken"} /\ req[c].op = "text" /\ req[c].text = i
      BY <1>0 DEF Calm, MadeFor
    <3>. QED BY <2>4, <3>1
  <2>8. Phases'
    <3>. SUFFICES ASSUME NEW c \in Clients
                  PROVE  /\ req'[c].pc \in {"waiting", "woken"} => layer'.present
                         /\ req'[c].pc = "begin_text" => layer'.fade = NoDriver \/ ~ layer'.present
                         /\ req'[c].pc \in {"begin_text", "waiting", "woken"} /\ req'[c].op = "text" =>
                              req'[c].text \in Engines /\ engine'[req'[c].text].pc = "made"
                         /\ req'[c].pc = "waiting_text" => engine'[req'[c].text].pc # "made"
                         /\ req'[c].pc # "woken_text"
      BY <2>2 DEF Phases
    <3>. QED BY <1>0, <1>1, <1>2, <2>1, <2>4 DEF Calm, Phases
  <2>. QED BY <1>4, <2>5, <2>6, <2>7, <2>8 DEF Calm
<1>6. CASE ~ Leave(d)
  <2>1. req' = req
    BY <1>6 DEF Begin, Tick, End, Cancelled
  <2>2. layer'.present = layer.present /\ layer'.ticker = layer.ticker /\ layer'.fade = layer.fade
    BY <1>0, <1>6 DEF Begin, Tick, End, Cancelled, Typed, Layers
  <2>3. driver'[d].pc \in {"spawned", "running"} => layer'.active
    <3>1. CASE Begin(d) \/ Tick(d)
      <4>1. layer'.active = layer.active
        BY <1>0, <3>1 DEF Begin, Tick, Typed, Layers
      <4>2. driver[d].pc \in {"spawned", "running"}
        BY <3>1 DEF Begin, Tick, DriverAt
      <4>. QED BY <1>0, <4>1, <4>2 DEF Calm, Undisturbed
    <3>2. CASE End(d) \/ Cancelled(d)
      BY <1>0, <3>2 DEF End, Cancelled, Step, Typed, Drives
    <3>. QED BY <1>6, <3>1, <3>2
  <2>4. Undisturbed'
    BY <1>0, <1>1, <1>2, <1>3, <2>1, <2>2, <2>3 DEF Calm, Undisturbed, Alive
  <2>5. Phases'
    BY <1>0, <1>1, <1>2, <2>1, <2>2 DEF Calm, Phases
  <2>6. OneRequest' /\ MadeFor' /\ Strip'
    BY <1>0, <1>2, <2>1, <2>2 DEF Calm, OneRequest, MadeFor, Strip
  <2>. QED BY <1>4, <2>4, <2>5, <2>6 DEF Calm
<1>. QED BY <1>5, <1>6

\* An engine that has been started writes alone, on a layer that nothing moves.
LEMMA EngineAlone ==
  ASSUME Shared, Alone, Shared', ~ overlapped', NEW i \in Engines,
         Play(i) \/ ShowTicker(i) \/ Draw(i) \/ Finish(i) \/ Unlist(i) \/ ClearTicker(i) \/ Blank(i)
  PROVE  Calm'
<1>0. Typed /\ Calm /\ engine[i].pc \notin {"none", "made"} /\ UNCHANGED <<closed, driver>>
  BY DEF Shared, Alone, Play, ShowTicker, Draw, Finish, Unlist, ClearTicker, Blank, EngineAt
<1>1. /\ \A d \in Drivers : ~ Alive(d)
      /\ \A j \in Engines : j # i => engine[j].pc = "none" /\ engine'[j] = engine[j]
  <2>1. \A d \in Drivers : ~ Alive(d)
    BY <1>0 DEF Calm, Undisturbed
  <2>2. \A j \in Engines : j # i => engine[j].pc = "none"
    BY <1>0 DEF Calm, OneWriter, Writes
  <2>3. \A j \in Engines : j # i => engine'[j] = engine[j]
    BY <1>0 DEF Play, ShowTicker, Draw, Finish, Unlist, ClearTicker, Blank, Goto, Typed
  <2>. QED BY <2>1, <2>2, <2>3
<1>2. /\ layer.present /\ layer.ticker # NoEngine => /\ layer.ticker = i /\ engine[i].kind = "ticker"
                                                     /\ engine[i].pc \in {"installed", "playing", "unlisting", "clearing"}
      /\ \A c \in Clients : /\ req[c].pc # "woken_text"
                            /\ ~ (req[c].pc \in {"begin_text", "waiting", "woken"} /\ req[c].op = "text")
  <2>1. layer.present /\ layer.ticker # NoEngine => layer.ticker = i
    BY <1>0, <1>1 DEF Calm, Strip, Typed, Layers
  <2>2. \A c \in Clients : req[c].pc # "woken_text"
    BY <1>0 DEF Calm, Phases, Writes
  <2>3. \A c \in Clients : ~ (req[c].pc \in {"begin_text", "waiting", "woken"} /\ req[c].op = "text")
    BY <1>0, <1>1 DEF Calm, Phases
  <2>. QED BY <1>0, <2>1, <2>2, <2>3 DEF Calm, Strip
<1>3. layer'.present = layer.present /\ layer'.fade = layer.fade
  BY <1>0 DEF Play, ShowTicker, Draw, Finish, Unlist, ClearTicker, Blank, Shown, Typed, Layers
<1>4. Undisturbed' /\ \A d \in Drivers : ~ Alive(d)'
  BY <1>0, <1>1 DEF Undisturbed, Alive
<1>5. CASE Blank(i)
  <2>1. engine'[i].pc = "none" /\ engine[i].pc = "blanking"
    BY <1>0, <1>5 DEF Blank, EngineAt, Typed, NoText
  <2>2. \A j \in Engines : engine'[j].pc = "none"
    BY <1>1, <2>1
  <2>3. \A c \in Clients : req[c] \in Requests
    BY <1>0 DEF Typed
  <2>4. \A c \in Clients : req'[c] = req[c] \/ (req[c].pc = "waiting_text" /\ req'[c].pc = "woken_text")
    BY <1>5, <2>3 DEF Blank, Requests
  <2>5. layer'.ticker = layer.ticker
    BY <1>0, <1>5 DEF Blank, Typed, Layers
  <2>6. OneWriter' /\ MadeFor' /\ Strip'
    BY <1>2, <1>3, <2>1, <2>2, <2>5 DEF OneWriter, MadeFor, Strip, Writes
  <2>7. OneRequest'
    BY <1>0, <2>4 DEF Calm, OneRequest
  <2>8. Phases'
    <3>. SUFFICES ASSUME NEW c \in Clients
                  PROVE  /\ req'[c].pc \in {"waiting", "woken"} => layer'.present
                         /\ req'[c].pc = "begin_text" => layer'.fade = NoDriver \/ ~ layer'.present
                         /\ ~ (req'[c].pc \in {"begin_text", "waiting", "woken"} /\ req'[c].op = "text")
                         /\ req'[c].pc = "waiting_text" => engine'[req'[c].text].pc # "made"
      BY <1>4, <2>2 DEF Phases, Writes
    <3>1. CASE req'[c] = req[c]
      <4>1. req[c].pc = "waiting_text" => req[c].text \in Engines
        BY DEF Shared, Waits
      <4>. QED BY <1>0, <1>2, <1>3, <2>2, <3>1, <4>1 DEF Calm, Phases
    <3>2. CASE req'[c].pc = "woken_text"
      BY <3>2
    <3>. QED BY <2>4, <3>1, <3>2
  <2>. QED BY <1>4, <2>6, <2>7, <2>8 DEF Calm
<1>6. CASE ~ Blank(i)
  <2>1. req' = req
    BY <1>6 DEF Play, ShowTicker, Draw, Finish, Unlist, ClearTicker
  <2>2. /\ engine'[i].kind = engine[i].kind /\ engine'[i].cancelled = engine[i].cancelled
        /\ engine'[i].pc \notin {"none", "made"}
    BY <1>0, <1>6 DEF Play, ShowTicker, Draw, Finish, Unlist, ClearTicker, Goto, Typed, Texts
  <2>3. OneRequest' /\ OneWriter' /\ MadeFor'
    BY <1>0, <1>1, <2>1, <2>2 DEF Calm, OneRequest, OneWriter, MadeFor, Writes
  <2>4. Phases'
    <3>. SUFFICES ASSUME NEW c \in Clients
                  PROVE  /\ req[c].pc \in {"waiting", "woken"} => layer'.present
                         /\ req[c].pc = "begin_text" => layer'.fade = NoDriver \/ ~ layer'.present
                         /\ ~ (req[c].pc \in {"begin_text", "waiting", "woken"} /\ req[c].op = "text")
                         /\ req[c].pc = "waiting_text" => engine'[req[c].text].pc # "made"
                         /\ req[c].pc # "woken_text"
      BY <1>4, <2>1 DEF Phases
    <3>1. req[c].pc = "waiting_text" => req[c].text \in Engines
      BY DEF Shared, Waits
    <3>. QED BY <1>0, <1>1, <1>2, <1>3, <2>2, <3>1 DEF Calm, Phases
  <2>5. Strip'
    <3>1. CASE Play(i) /\ engine[i].kind = "ticker"
      <4>1. layer.present => layer.ticker = NoEngine
        BY <1>2, <3>1 DEF Play, EngineAt
      <4>2. /\ layer' = layer \/ (layer' = [layer EXCEPT !.ticker = i, !.overlay = TRUE] /\ engine'[i].pc = "installed")
        BY <1>0, <3>1 DEF Play, Goto, Typed, Texts
      <4>3. layer' = [layer EXCEPT !.ticker = i, !.overlay = TRUE] => layer'.ticker = i
        BY <1>0 DEF Typed, Layers
      <4>. QED BY <1>3, <2>2, <3>1, <4>1, <4>2, <4>3 DEF Strip
    <3>2. CASE Play(i) /\ engine[i].kind # "ticker"
      <4>1. layer.present => layer.ticker = NoEngine
        BY <1>2, <3>2
      <4>2. layer'.ticker = layer.ticker
        BY <1>0, <3>2 DEF Play, Shown, Typed, Layers
      <4>. QED BY <1>3, <4>1, <4>2 DEF Strip
    <3>3. CASE ClearTicker(i)
      <4>1. layer.present => layer'.ticker = NoEngine
        BY <1>0, <3>3 DEF ClearTicker, Typed, Layers
      <4>. QED BY <1>3, <4>1 DEF Strip
    <3>4. CASE ShowTicker(i) \/ Draw(i) \/ Finish(i) \/ Unlist(i)
      <4>1. layer'.ticker = layer.ticker
        BY <1>0, <3>4 DEF ShowTicker, Draw, Finish, Unlist, Shown, Typed, Layers
      <4>2. engine[i].kind = "ticker" => engine'[i].pc \in {"installed", "playing", "unlisting", "clearing"}
        BY <1>0, <3>4 DEF ShowTicker, Draw, Finish, Unlist, EngineAt, Goto, Typed, Texts
      <4>. QED BY <1>2, <1>3, <2>2, <4>1, <4>2 DEF Strip
    <3>. QED BY <1>6, <3>1, <3>2, <3>3, <3>4
  <2>. QED BY <1>4, <2>3, <2>4, <2>5 DEF Calm
<1>. QED BY <1>5, <1>6

LEMMA NextAlone == ASSUME Shared, Alone, [Next]_vars PROVE Alone'
<1>. SUFFICES ASSUME ~ overlapped' PROVE Calm'
  BY DEF Alone
<1>0. Shared' /\ Typed
  BY NextShared DEF Shared
<1>1. CASE UNCHANGED vars
  <2>1. UNCHANGED vars /\ Calm
    BY <1>1 DEF vars, Alone
  <2>. QED BY <2>1 DEF vars, Calm, OneRequest, OneWriter, Undisturbed, Phases, MadeFor, Strip, Alive, Writes
<1>2. CASE Scroll
  <2>1. /\ Calm /\ layer.present /\ layer.ticker # NoEngine
        /\ layer' = [layer EXCEPT !.active = FALSE] /\ engine' = [engine EXCEPT ![layer.ticker].scrolled = TRUE]
        /\ UNCHANGED <<closed, driver, entry, req>>
    BY <1>2 DEF Scroll, Alone
  <2>2. layer'.present = layer.present /\ layer'.fade = layer.fade /\ layer'.ticker = layer.ticker
    BY <1>0, <2>1 DEF Typed, Layers
  <2>3. \A i \in Engines : /\ engine'[i].pc = engine[i].pc /\ engine'[i].kind = engine[i].kind
                           /\ engine'[i].cancelled = engine[i].cancelled
    BY <1>0, <2>1 DEF Typed, Texts
  <2>4. \A d \in Drivers : ~ Alive(d)
    BY <2>1 DEF Calm, Undisturbed
  <2>5. Undisturbed'
    BY <2>1, <2>4 DEF Undisturbed, Alive
  <2>6. OneRequest' /\ OneWriter' /\ MadeFor'
    BY <2>1, <2>3 DEF Calm, OneRequest, OneWriter, MadeFor, Writes
  <2>7. Strip'
    <3>1. layer.ticker \in Engines
      BY <1>0, <2>1 DEF Typed, Layers
    <3>. QED BY <2>1, <2>2, <2>3, <3>1 DEF Calm, Strip
  <2>8. Phases'
    <3>1. \A c \in Clients : req[c].pc = "waiting_text" => req[c].text \in Engines
      BY DEF Shared, Waits
    <3>. QED BY <2>1, <2>2, <2>3, <2>4, <3>1 DEF Calm, Phases, Alive, Writes
  <2>. QED BY <2>5, <2>6, <2>7, <2>8 DEF Calm
<1>3. ASSUME NEW d \in Drivers, Begin(d) \/ Tick(d) \/ End(d) \/ Cancelled(d) \/ Leave(d) PROVE Calm'
  BY <1>0, <1>3, DriverAlone
<1>4. ASSUME NEW i \in Engines,
             Play(i) \/ ShowTicker(i) \/ Draw(i) \/ Finish(i) \/ Unlist(i) \/ ClearTicker(i) \/ Blank(i)
      PROVE  Calm'
  BY <1>0, <1>4, EngineAlone
<1>5. ASSUME NEW c \in Clients, Close(c) PROVE Calm'
  BY <1>0, <1>5, EndersAlone, TextRequestAlone
<1>. QED BY <1>0, <1>1, <1>2, <1>3, <1>4, <1>5, StartsAlone, EndersAlone, TextRequestAlone, ResumedAlone DEF Next
-----------------------------------------------------------------------------
(* Theorems                                                                *)

\* The inductive invariant.
LEMMA Invariance == Spec => [](Shared /\ Alone /\ Making /\ Kept)
<1>1. Init => Shared /\ Alone /\ Making /\ Kept
  BY InitShared, InitAlone, InitKept
<1>2. Shared /\ Alone /\ Making /\ Kept /\ [Next]_vars => (Shared /\ Alone /\ Making /\ Kept)'
  BY NextShared, NextAlone, NextKept
<1>. QED BY <1>1, <1>2, PTL DEF Spec

\* Every variable stays within the values of its type.
THEOREM Typing == Spec => []TypeOK
<1>1. Shared /\ Alone => TypeOK
  BY TypeSets DEF Shared
<1>. QED BY <1>1, Invariance, PTL

\* One fade or animation at a time moves the layer, whatever requests overlap.
THEOREM OneMovesTheLayer == Spec => []OneDriver
<1>1. Shared /\ Alone => OneDriver
  <2>. SUFFICES ASSUME Shared PROVE OneDriver
    OBVIOUS
  <2>. DEFINE S == {d \in Drivers : driver[d].pc # "none"}
  <2>1. CASE S = {}
    BY <2>1, FS_EmptySet DEF OneDriver
  <2>2. CASE S # {}
    <3>1. PICK d : S = {d}
      BY <2>2 DEF Shared, OneAlive, Alive
    <3>. QED BY <3>1, FS_Singleton DEF OneDriver
  <2>. QED BY <2>1, <2>2
<1>. QED BY <1>1, Invariance, PTL

\* Without overlapping requests nothing moves a layer that is off.
THEOREM OffStaysStill == Spec => []OffIsStill
<1>1. Shared /\ Alone => OffIsStill
  BY DEF Alone, Calm, Undisturbed, OffIsStill, Alive
<1>. QED BY <1>1, Invariance, PTL

\* Whatever requests overlap, an engine that nobody has stopped has its entry until it
\* deletes it, unless it was started while a stopped one of its kind had still to delete it.
THEOREM EnginesStayListed == Spec => []EngineListed
<1>1. Kept => EngineListed
  BY DEF Kept, EngineListed, Unlists, Listing
<1>. QED BY <1>1, Invariance, PTL

\* A channel is closed twice only while another request that closed it waits.
THEOREM ChannelsClosedOnce == Spec => []ClosedOnce
<1>1. Shared /\ Alone => ClosedOnce
  BY DEF Shared
<1>. QED BY <1>1, Invariance, PTL

\* A request waits for a goroutine that will close its channel.
THEOREM WaitsEnd == Spec => []WaitEnds
<1>1. Shared /\ Alone => WaitEnds
  <2>. SUFFICES ASSUME Shared, NEW c \in Clients
                PROVE  /\ req[c].pc = "waiting" /\ layer.present
                            => \E d \in Drivers : driver[d].pc # "none" /\ Slot(d) = req[c].on
                       /\ req[c].pc = "waiting_text" => engine[req[c].text].pc # "none"
    BY DEF WaitEnds
  <2>1. ASSUME req[c].pc = "waiting", layer.present
        PROVE  \E d \in Drivers : driver[d].pc # "none" /\ Slot(d) = req[c].on
    <3>1. req[c].on \in Drivers /\ req[c].on \in {layer.fade, layer.anim}
      BY <2>1 DEF Shared, Waits
    <3>2. Alive(req[c].on) /\ Slot(req[c].on) = req[c].on
      BY <2>1, <3>1, GraphicsAssumption DEF Shared, Slots
    <3>. QED BY <3>1, <3>2 DEF Alive
  <2>2. req[c].pc = "waiting_text" => engine[req[c].text].pc # "none"
    BY DEF Shared, Waits, Writes
  <2>. QED BY <2>1, <2>2
<1>. QED BY <1>1, Invariance, PTL
=============================================================================
