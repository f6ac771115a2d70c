# SwitchFrame: models, checks and proofs

SwitchFrame is a live video switcher. Its server (`server/`, in Go) takes video sources in, puts one of
them on air as the *program*, moves from one to another by cuts, mixes and fades to black, mixes the
audio that goes with them, and sends the result to recordings and network outputs. This directory holds
TLA+ models of the parts whose correctness depends on the order in which goroutines run, the TLC
configurations that check them on small instances, and proofs, checked by TLAPS, that the most important
properties hold for any number of sources, controllers, engines and connections.

1. [The system](#1-the-system) 2. [The modules](#2-the-modules) 3. [The checks](#3-the-checks)
4. [Bounds, abstractions and fairness](#4-bounds-abstractions-and-fairness)
5. [The proofs](#5-the-proofs) 6. [What the code does otherwise](#6-what-the-code-does-otherwise)
7. [What is not modelled](#7-what-is-not-modelled) 8. [Plan](#8-plan)

Line numbers in this file are of the files under `server/`.

## 1. The system

A request comes over REST (`control`, `fastctrl`) and becomes a call of one component. Components share
no memory but what a call hands over; each has a mutex of its own and calls the others, and its state
callbacks, after its unlock. That convention (`docs/locking-and-concurrency.md`) keeps the server free
of lock cycles and is also where most of the hazards come from: what a component tells another after its
unlock may already be stale.

### Switching engine (`switcher/switcher.go`)

*State*, under `s.mu`: the state machine (`idle`, `transitioning`, `ftb_transitioning`, `ftb`,
`ftb_reversing`), program and preview source, the registered sources, the published transition engine;
atomics beside it: the program epoch, `gpuTransActive`. *Operations*: register and unregister a source,
set preview, cut, start a transition, fade to black and back, move the T-bar, abort; the handlers of the
engine's completion. *Interaction*: creates engines, calls the mixer (`audioCut`, `audioTransition`) and
the frame synchronizer, routes every decoded frame. *Hard*: a start holds the lock twice and works
without it in between; a completion runs in a goroutine of its own and takes the lock some time after
the engine has finished; the mixer and the synchronizer are told after the unlock. *Correct when*: a
marked transition always has somebody who will end it; no two run at a time; a callback completes the
transition it belongs to; nothing that belongs to a transition outlives it; the program is a registered
source.

### Transition engine (`transition/engine.go`)

*State*, under its own mutex: idle or active, kind, endpoints, position, time of the last frame.
*Operations*: start, frame in, T-bar position, stop, abort, force complete, the 10 s watchdog. *Hard*:
finishes in whatever goroutine noticed it, and calls back exactly once. *Correct when*: an active engine
ends, by completion, abort or watchdog, whatever its sources do.

### Audio mixer (`audio/`)

*State*: the crossfade under way, the countdown of a cut, the channels that are active because of
audio-follow-video (AFV), the program mute; gains, equalizers, compressors, meters. *Operations* the
switcher calls: `OnCut`, `OnProgramChange`, `OnTransitionStart/Position/Complete/Abort`,
`SetProgramMute`; the output ticker. *Hard*: calls of several requests and callbacks arrive in an order
that is not that of `s.mu`. *Correct when*: once all is quiet the program is heard, and nothing else;
muted exactly at black.

### Frame path (`switcher/frame_sync.go`, `source_decoder.go`, `processing_frame.go`, `frame_pool.go`, `node_encode.go`)

*State*: per source a ring of decoded frames and the last one, repeated while nothing new comes; the
newest-wins queue to the processing loop; reference counts and the pool of picture buffers.
*Operations*: push, tick, route, enqueue with eviction, make writable, process, encode, release. *Hard*:
a buffer is shared by synchronizer, queue, loop and encoder; the tick delivers borrowed copies after its
unlock; the queue is drained by its writers as well. *Correct when*: counts are exact, a buffer in the
pool is in nobody's hands, a picture being drawn into is seen by nobody else, and only frames of the
program get through.

### SRT output, caller (`output/srt_caller.go`)

*State*: the connection under a mutex; state, reconnecting flag and key frame gate as atomics.
*Operations*: start, write, the reconnect loop, close. *Hard*: everything between the atomics. *Correct
when*: at most one reconnect loop runs; no connection is lost open; an active output has a connection; a
new connection starts with a key frame; a lost connection is made again; close ends everything.

### SCTE-35 injector (`scte35/injector.go`)

*State*, under one mutex: the open ad breaks, each with its auto-return timer and pre-roll cancellation;
a closed flag. *Operations*: inject, schedule, return, cancel, hold, extend, close; timers and pre-roll
goroutines. *Hard*: a timer that has fired waits for the mutex and cannot be stopped any more; messages
go to the muxer after the unlock. *Correct when*: what one message opened ends together; a break with
auto-return ends, a held one does not; every timer belongs to a break; the receivers of the stream agree
with the injector.

### Output manager (`output/manager.go`, `muxer.go`, `async_adapter.go`, `cbr_pacer.go`)

*State*: under `m.mu` the recording, the SRT output, the destinations and the list of their adapters;
the muxer and the CBR pacer behind atomic pointers; a queue with a drain goroutine in front of each
adapter that is not paced. *Operations*: start, stop, add, remove, close; the encoder and the mixer
write without the lock. *Hard*: the last output takes muxer and pacer down while a writer is on its way
through them; an adapter leaves the list under the lock and is closed after it. *Correct when*: active
outputs are fed by one live muxer; a queue is written out before its adapter is closed, once; nobody
waits for ever for a writer, a queue or the pacer.

### Operator sessions and locks, macros (`operator/`, `macro/`, `control/api_operator.go`, `api_macro.go`)

*State*: the store of operators (a file too), sessions and locks under another mutex; the macro under
way with its cancel function and generation, under a third. *Operations*: register, reconnect,
heartbeat, lock, unlock, force, disconnect, delete, the stale cleanup, the middleware's check of every
command, run, cancel, dismiss. *Hard*: a request is identified in one section and acts in another; each
step of a macro reports and overwrites the API's state; a crash loses sessions and locks, not operators.
*Correct when*: locks belong to sessions; a command takes effect under its lock; macros exclude one
another; a cancelled one ends.

### Instant replay and clip players (`replay/`, `clip/`, their callbacks in `cmd/switchframe/`)

*State*: the current player (one, or one per slot) and what is shown of it, under `m.mu`; the player's
goroutine, state and pause channel; the source it feeds. *Operations*: play, pause, resume, stop, quick
replay, load, eject, close; the player's ready and done callbacks. *Hard*: no lock is held over a wait
for the goroutine, nor over the callbacks that register the source. *Correct when*: one player plays; a
decoder is closed once and not under its user; the source is registered while pictures come out; every
request returns.

### Graphics and text (`graphics/compositor.go`, `text_animation.go`, `ticker.go`)

*State*: layers with the channels of their fade and animation, under the compositor's mutex; engines
that write text into a layer, each with a map of its own. *Operations*: on, off, fades, animations,
removal, text, ticker, close; the goroutines. *Hard*: a request that ends a fade gives the mutex up to
wait for it. *Correct when*: one goroutine moves a layer; one that is off is still; a running engine can
be found; no channel is closed twice.

### Other components with state

| Component | State and operations | What would make it correct |
|---|---|---|
| SRT listener (`output/srt_listener.go`) | accepted connections; fan-out, eviction of slow ones | a slow client delays nobody |
| Delay buffer (`switcher/delay_buffer.go`) | per source delay, a timer per frame | frames keep their order, none after removal |
| Capture buffers (`replay/buffer.go`) | pictures bounded by time and bytes, marks | a clip starts with a key frame |
| Layout, stingers | slots, picture sequences | geometry |
| SRT and MXL input (`srt/`, `mxl/`) | connections to sources | a source that returns is one source |

The rest (codecs, GPU kernels, signal processing, SCTE-104 and caption coding, presets, metrics, the
Svelte client) computes on data or does I/O; `PROJECT.json` lists every part with the reason.

## 2. The modules

```
ProgramBus        what an operator may rely on: one source on air, one move at a time
   ^ refinement
SwitcherBus       the mapping of the engine's variables to the bus
SwitcherProps     properties of the switching engine
Switcher          the switching engine, its transition engines, callbacks, frames in flight
   + Mixer        the mixer's methods as operators on a record
SwitcherAV        switcher, mixer and synchronizer together, a call where the code makes it
FramePath         synchronizer, routing, queue, processing loop, reference counts, pool
SRTCaller         an SRT output with its writer and reconnect loops
OutputManager     outputs that start and stop, adapters, queues, the muxer, the pacer
SpliceInjector    ad breaks, timers, pre-rolls, and the receivers' view
Operators         operators, sessions, locks, the middleware; crashes
   + Macros       macros: handlers, goroutine, runner
Control           both, restarted together
Replay            instant replay: manager, player, callbacks
ClipPlayers       a clip slot: manager, player, decoder, source
Graphics          a layer: fades, animations, text and ticker engines
MC*               instances for TLC: symmetry, bounds, and a VIEW
SwitcherProofs    theorems: types, the hand-off, the bus, and audio and pace following the program
FrameProofs       theorems: reference counts, the pool, private drawing
OutputProofs      theorems about OutputManager and SRTCaller
GraphicsProofs    theorems about a layer: who moves it, who waits for whom, entries
Splice-, Control-, Replay-, ClipProofs: theorems about the module they name
```

**Switcher.** Threads are program counters: `ctl` for a control request, `comp` for the completion
callback of an engine, `frame` for the frame a source has in flight. A step is what a goroutine does
inside one critical section. `StartTransition` is `MarkTransition` (checks and mark, 1738-1814),
`StartRollback` or `StartEngine` (engine.Start, without the lock), `StartFade` (the audio call), and
`Publish` (the lock again). `Cut` over a transition goes on with `StopEngine`, `AbortFade`, `CutFade`,
`CutFollow`, each a call after the unlock. An engine's `Finish` is `cleanup`, from which exactly one
callback starts: `CompleteMix` and `CompleteFade` are the locked parts of the three handlers,
`CompleteLate` their early return, `CompleteSync`, `CompleteAudio`, `CompleteFollow` the calls after it.
A frame is routed under the read lock (`FrameRoute`), ingested by the engine it was routed to
(`FrameIngest`), and may find the duration over (`FrameComplete`). The constant `Operations` names what
the environment uses (`start`, `ftb`, `tbar`, `cut`, `preview`, `unregister`, and the ones that lead
into trouble: `cut_override`, `ftb_again`, `abort`, `unregister_target`).

**Mixer and SwitcherAV.** Each mixer method holds the mixer's mutex throughout, so it is an operator on
a record. `SwitcherAV` conjoins it to the switcher's action at the point of the call. Sources come and
go by the stream callbacks, which tell the switcher first (`AVRegister`, `AVUnregister`) and then the
mixer (`WireMixer`).

**FramePath.** Decoded frames enter `pending` (`Push`), the tick pops them (`TickPop`) and delivers
value copies after its unlock (`TickDeliver`); or decoders deliver directly (`Decode`). `Route`,
`Stamp`, `Send`, `SendFull`, `Evict`, `GiveUp` are `handleRawVideoFrame`, `broadcastProcessedFromPF` and
`enqueueVideoWork` up to the next point at which another goroutine gets in; `Dequeue`, `MakeWritable`,
`Detach`, `Process`, `LoopRelease` and `Encode` the processing loop and the asynchronous encoder. A
picture is the source it shows.

**SRTCaller.** Reads and writes of the atomics are steps of their own: the writer reads the state
(`WriteState`), passes the gate (`WriteGate`), takes the connection (`WriteConn`), writes (`WriteSent`,
`WriteFailed`), and swaps the flag (`WriteSpawn`). A loop looks at the context, waits, dials, installs,
raises the gate, announces, notifies and leaves. `fresh` records connections of a reconnection over
which nothing was sent. The ring buffer is left out: the loop throws its contents away in every case
(263), although the comment above the function (229) still says that it is flushed.

**SpliceInjector.** `active` is the map of open breaks; `group` stands for the descriptors of the
message that opened one (a splice_insert opens one, a time_signal as many as it has cue-out
descriptors). `timer` is pending, or fired and waiting for the lock. `wire` is what a receiver makes of
the messages sent so far. Requests for the most recent break (ID 0) are covered by any ID.

**OutputManager.** A request is its locked section (`Start`, `Stop`, `AddDestination`,
`RemoveDestination`, `Close`) and what follows: `CloseMuxer` (muxer.Close, which waits for a writer),
`StopPacer` and `PacerStopped` with the lock still held when the last output went, then `StopQueue`,
`QueueStopped`, `CloseAdapter` for each adapter, without it. A write is `LoadMuxer`, `Write` (under the
muxer's own lock, which it keeps through the callback), `Enqueue` for each adapter on the list it read,
`EnqueuePaced`. Drains and ticks are `DrainOne`, `DrainEnd`, `PacerTick`, `PacerEnd`. A packet is
`"late"` if it was queued after the stop. What each adapter does with its bytes is left out; `SRTCaller`
is one.

**Operators, Macros, Control.** A handler is `Identify` (or `AskDelete`, `Command`), the section of the
store, and then the one of the session manager (`Connect`, `AcquireLock`, `CheckLock`, ...). `Register`
and `Delete` write the file. `Age` lets a session go stale, `Cleanup` is the ticker, `OpRestart` a
crash. A command that passed `CheckLock` is at `"effect"`. A macro's goroutine goes from `Begin` over
`StepBegin`, `StepDone`, `StepFailed`, `WaitCut` to `Finish` and `Complete`; each `Notify` stores its
state over the API's, as `onProgress` does.

**Replay, ClipPlayers.** A pause is three sections: taken in hand (`Take`), done to the player
(`PausePlayer`), written back (`Tell`); a stop is `Stop` and the wait (`Stopped`; `Waited`, `SourceOff`,
`Put` in a slot). The players' goroutines are `Ready`, `GoLive`, `Begin`, `Hold`, `End`, `Done`, `GoOff`
in a replay, `Hold`, `Finish`, `OnDone`, `Leave` in a clip, the callbacks among them.

**Graphics.** `Act` is what a request does once the layer is free; `Cancel` closes the channel of the
fade (or animation) it finds and waits, `Resume` comes back from the wait and looks again. A driver is a
goroutine that fades or animates: `Begin`, `Tick`, `End`, `Cancelled`, `Leave` (its deferred function).
Engines: `StartText`, `BeginText`, `StartTicker`, `StopText`, `Stopped` by requests; `Play`,
`ShowTicker`, `Draw`, `Finish`, `Scroll`, `Unlist`, `ClearTicker`, `Blank` by goroutines. `panicked` is
a channel closed twice: the request dies and the mutex stays locked.

## 3. The checks

Passing runs. TLC explores each completely.

| Run | Question | Shows |
|---|---|---|
| `bus` | Two controllers mix, fade and cut between transitions, with a GPU: threads, engines and callbacks against `ProgramBus` | a transition is handed from request to engine to callback and never dropped (`HandOff`), the handler that runs is the right one (`RightHandler`), only valid changes of state (`StateMachine`); refinement, with fairness: every move arrives or is given up (`ImplementsFairBus`) |
| `orphans` | Double fades, cuts over transitions and aborts leave engines behind; a T-bar is held, the source comes and goes | each is stopped in the end (`OrphanReaped`) |
| `audio` | Mixes, fades, T-bar, cuts over transitions, sources that come and go; requests wait for callbacks | when all is quiet mixer and pace agree with the program (`AudioFollowed`, `PaceFollowed`), which is a registered source (`ProgramRegistered`) |
| `frames` | Frames through the synchronizer, whose sources stay, and from concurrent decoders, with sources removed at any time | exact counts, clean pool, exclusive drawing, through a full queue (`RefsExact`, `PoolUnused`, `ExclusiveWrite`) |
| `srt_output` | Losses, reconnections and close, with a writer that close does not wait for | `OneLoop`, `ConnectionsHeld`, `ActiveConnected`, `KeyframeFirst`, and the loop ends after close (`LoopStops`) |
| `output` | Two requests start, stop and remove a recording and a destination, or close, beside a writer; paced or not | outputs, list, muxer and pacer agree when the lock is free (`Served`), a queue is written out before its adapter is closed (`ClosedDrained`), by one request (`ClosedOnce`), and every request returns (`RequestsReturn`) |
| `splice` | Two controllers, messages with two breaks, pre-rolls, timers; messages sent late, or in the order of the lock | breaks of a message end together (`SiblingsTogether`), no timer is lost sight of (`TimersOwned`), a break with auto-return ends (`BreakEnds`), and, when sent in order, receivers agree with the injector (`WireAgrees`) |
| `control` | Two requests of two operators, sessions that go stale, deletions, crashes; macros run, dismissed, cancelled | a lock has a session behind it (`LockHeld`), a command takes effect under it (`LockExcludes`), a lock taken while its holder is deleted is released (`DeletedUnlocked`); macros exclude one another (`MacroAlone`), a cancelled one ends (`CancelledEnds`) |
| `replay` | Two requests play, pause, resume, stop, restart, close beside the player's callbacks | one player (`OnePlayer`), a true status (`StatusTrue`), and a stop that returns (`StopReturns`) |
| `clips` | Two requests load, play, pause, stop, eject, close beside a player that ends and holds | decoders are closed once and in time (`DecoderSafe`), sources follow players (`SourceFollows`), requests return (`RequestsReturn`) |
| `graphics` | Requests put a layer on and off, fade, animate and remove it, and start, stop and update engines that write text into it | one goroutine moves the layer (`OneDriver`), one that is off is still (`OffIsStill`), an engine nobody has stopped keeps its entry, whatever ends or starts beside it, unless its own start raced with the end of another (`EngineListed`), a channel is closed twice only in the one known way (`ClosedOnce`), a wait is for a goroutine that will answer (`WaitEnds`) |

Each property of a passing run has a mutant, a plausible bug written as an operator `<Action>_<Bug>`
beside the action it changes (a dropped guard, a missing reset, a swapped order), with which TLC refutes
the property.

The run `v_graphics` refutes what a comment says (`compositor.go:145`, "safe for concurrent use from
multiple goroutines"): `SafeTogether`, section 6.

The type invariants (`TypeOK` of each module, `AVTypeOK`) are not listed in the configurations; they are
proved, except that of `Graphics`, which holds when added to its run.

## 4. Bounds, abstractions and fairness

*Sizes.* Two sources are enough for a mix, and its target to be cut to, cut away from or removed; two
controllers for a request to get in between the two halves of another; two engines for an old one's
callback to meet a new one, since an engine nothing refers to is reused (`Fresh`). Five buffers fill
ring, queue, loop, encoder and one delivery at a time, so that the pool runs empty and full; the queue
has two slots (8 in the code), filled and evicted from. `MaxEpoch` allows a change of program while a
frame is under way. Three connections: one held, one being dialed, one in the writer's hands. Two
goroutines suffice to see a second reconnect loop. Two event IDs, two timers, one pre-roll: the second
timer is the one an extension makes while the first has fired. Two outputs, one of them paced if a
muxrate is set, two muxers: one going down while the next comes up; queues of one packet (256 in the
code) are full at once. Three replay players: one that ends, one that starts, and one a request still
waits for; two in a slot, where the instance with three was explored as well. One macro step after which
the context is looked at again, two runs. One layer, since the layers share a mutex and nothing else;
two drivers; two engines, one that ends and one that is started beside it. `EngineListed` and `Kept`
were explored with three as well, on text and tickers that two requests start, stop and update at any
time: one stopped, one beside it, and one after both.

*Operations.* The constant names what the environment does. T-bar, preview and removals are used in
`orphans` and `audio` (and in the proofs) but not in `bus`: a T-bar that is held, or a source that is
removed for ever and again, refutes its liveness as it should. `Together` (Graphics) are the requests
that may come while another is under way; the others come alone.

*Reuse.* Engines, connections, timers, event IDs, adapters, muxers and players are unbounded in the
program; the models reuse one once nothing refers to it, which is what the garbage collector or the
counter does.

*One at a time.* `Patient` (Switcher): requests wait until no callback is under way; `patient`
(ClipPlayers) and `prompt` (Replay) are variables that never change, so that a run explores both values,
and some properties are stated for one. Without it the audio properties fail (section 6); with it they
say that the sequence of calls of each request and callback is right. `prompt` of SpliceInjector is the
same for messages not sent yet. `dismissed` (Macros) is a history variable used in the same way, and so
is `overlapped` (Graphics), for `OffIsStill` alone: it says that something came while another request
was under way, *or* that a fade or an animation was requested while an engine wrote. The second is more
than requests one at a time: an engine does not wait when it ends, and turns the layer off under a pulse
started meanwhile (section 6). `raced` is history of one engine: when it was started, a stopped engine
of its kind had not run its cleanup yet, or one that had been started so was still there. Nothing else
is excused in `EngineListed`: requests overlap, text and tickers run together, an engine starts while
an older one still clears the layer, and once the engines of a race are gone the next is listed again. *CallerPaced* (SRTCaller): the CBR pacer writes to the adapter and close does not wait
for it; otherwise the drain goroutine writes and is stopped first.

*Bound* (MCControl): macros are run while no operator is registered, and operators come before the first
macro. The two share no variable but time, and the proofs do without it.

*VIEW.* `AVLive` maps states that differ only in what no step and no property reads again to one.
*Symmetry* is used in runs without liveness only.

*Deadlock* is checked in the runs of the switcher, the frame path and the control plane. The others end
with everything closed, so there it is not.

*Data left out*: pixels, samples, easing curves and positions (the T-bar is at zero, moved, or at the
end), durations (a timer or a transition may end at any time), formats and PTS.

*Fairness.*
- Switcher: goroutines that can run do run (weak fairness of each request's continuation, callback and
  watchdog); sources in `Delivering` keep sending; of frames that keep reaching an engine one comes
  after the duration is over (strong fairness of `FrameComplete`, since in between the engine is not
  always in a state in which a frame could complete it).
- ProgramBus: a move arrives or is given up.
- SRTCaller: loops and writer run, the manager closes what it has removed, and of dials repeated for
  ever one succeeds (strong fairness of `LoopDialed`); `Recovers` is refuted in spite of this.
- SpliceInjector: timers fire, a callback that waits for the lock gets it in the end (strong fairness: a
  Go mutex does not starve a waiter, but while `prompt` a repetition of the cue may be in hand again and
  again), messages in hand are sent.
- OutputManager, Replay, ClipPlayers: goroutines run, each step of them weakly fair; nobody is obliged
  to make a request, and a clip need not end unless its context is cancelled.
- Control: sessions age and the cleanup ticks; requests may hang, but a macro's goroutine and its
  handlers run. A step that acts ends; a wait may last for ever, and `CancelledEnds` is about cutting it
  short.

## 5. The proofs

TLAPS checks the following for all values of the constants, under the hypotheses named.

**`SwitcherProofs`**, *types*: `Typing` is `Spec => []TypeOK`, for any use of the operations. It is not
mere typing: a request that is past the read of an engine must hold one, and a mix always a target.

*The hand-off* is about *disciplined* use: no cut or abort during a transition, no second fade during a
fade (`Disciplined`). None of the properties proved there is inductive. A transition that is `Driven` by
a request must hold the engine it will publish; when an engine finishes, its callback must find it
published; a frame or T-bar must not have another engine in hand. `HandOff` says all this: the state
belongs to exactly one starter, *or* to the published engine, which is active or has its callback
waiting; every active engine is published or held by a starter; every waiting callback is the published
engine's. The proof has a lemma for each group of steps (`RequestHandOff`, `ContinueHandOff`,
`EngineStepHandOff`, `SourceStepHandOff`) and one for each way a step disturbs the invariant
(`MarkHandOff`, `FinishHandOff`, `CompleteHandOff`, `LateHandOff`, `BystanderHandOff`). From `HandOff`
follow `Driven`, `OneTransition`, `NoOrphan`, `RightHandler`, `GateOnlyInMix` and the action property
`StateMachine`. `ProgramStaysRegistered` adds `TargetRegistered` and assumes that no target of a
transition is removed. The assumptions are needed: section 6 has the failures.

*The bus*: the disciplined engine implements `ProgramBus` (`Spec => Bus!BusSpec`): initial states map to
initial states, and each step to a bus step or a stutter.

*Audio follow video*: `AVImplements` shows that the switching engine with mixer and synchronizer does
what it does without them (`AVSpec => Spec`). `AudioAlwaysFollows`, `PaceAlwaysFollows` and
`ProgramStaysOn` prove the three properties of the run `audio` for any number of sources and engines,
from `AVInv`, which TLC checked on that instance before. They are about one operator who waits for the
callbacks (`Orderly`), and who may cut into a transition, between its mark and its publication or any
time later, but not abort it, fade twice, or unregister its target. `HandOff` does not survive such a
cut, so `Relay` takes its place: one engine is alive at a time, with its callback; it is the published
one, or is held by the request that starts it or stops it; a callback whose transition was cut finds
nothing published and nothing marked (`PublishedOrLate`), and one past the lock or a cut past the lock
finds the bus as it left it (`HandlerFound`, `CutFound`). `CutsKeepOrder` draws the properties of the
hand-off from it. Audio and pace are not right in between, so `Following` says who still has to tell
them what: the program is on air, or a cut or callback has still to put it there (`AirHeld`); a
crossfade has somebody who will clear it (`FadeOwned`); the output is muted exactly if held at black, up
to the callback that has still to mute and the request that has still to unmute (`MuteOwned`); somebody
paces (`PaceOwned`); and a source whose channel is not wired up yet is not in use (`Wiring`). When all
is quiet nobody is left, and the properties remain. Each of the uses that `Orderly` excludes breaks one
of the three properties (section 6).

**`FrameProofs`** proves `RefsExact`, `PoolUnused` and `ExclusiveWrite` for any sizes of pool, rings and
queue and any number of sources and decoders. A buffer's count is the sum over the places that hold it:
rings, last pictures, decoders, senders, queue, the loop's two fields, the encoder. Each step moves a
buffer from one place to another or changes count and places by one; a lemma for each place says by how
much. To know that a set of places changes by one the invariant `FrameInv` needs that the synchronizer
holds a buffer once (`Distinct`); to know that what the tick has borrowed is not in the pool, that it
still is its source's last picture (`Borrowing`); and for the private picture, that the loop's copy and
the picture it draws into have the count 1 (`Private`). The hypothesis is that no source is removed
while the synchronizer is in use (`"sync" \notin Removals`): a removal between tick and delivery breaks
`Borrowing`, and the code breaks all three properties then (section 6).

**`OutputProofs`**, about *OutputManager*, proves `Served`, `ClosedDrained` and `ClosedOnce` for any number of outputs,
adapters, muxers, requests and writers and any queue size, without any assumption on use. `Served` is
not inductive because the lock is held while a muxer goes down: `OutInv` says that whoever waits in
there holds the lock alone, with no muxer up and no output active (`HeldAlone`), so that nothing is
served that could be served wrongly. The rest follows an adapter off the list: it is open and in one
request's hands until that has waited for its queue (`ClosedOnce`, `StaleFirst`), and a queue whose
goroutine has ended keeps only what came after the stop (`EndedDrained`).

About *SRTCaller* it proves `OneLoop`, `ConnectionsHeld`, `ActiveConnected` and the action property
`KeyframeFirst`, without any assumption on use. The argument is that the *state* works as a lock that
keeps the writer away: while a loop is connecting the state is not active and no write is under way
beyond its first line (`WriterKeptAway`), so the loop may install a connection and raise the gate
without a lock; when it announces, the gate is up (`GateRaised`). A writer that has passed the gate for
a fresh connection carries a packet that may go first. `NewConnection` keeps a dialed connection open
until it is installed, and `AtStart` says that nothing has happened before `Start`.

**`ControlProofs`** proves `LockHeld`, `LockExcludes` and `MacroAlone` for any number of operators,
requests, runs and steps, crashes included. `LockExcludes` is inductive only beside `LockHeld`: an
operator who has just registered has no session, so holds no lock that could bind a command already past
its check. `MacroAlone` needs `CancelIsLast` (the cancel function kept is that of the run started last),
which makes the goroutine that clears "running" the one that set it; `StepsBounded` keeps the step in
its type.

**`ReplayProofs`** proves `OnePlayer`, which is inductive beside the types: these say that a request has
a player in hand exactly while it needs one. `StatusTrue` needs `SInv`, which follows each request and
callback through its sections: of those that disturb each other one is under way at a time, and for each
point at which it may stand it says how far state, source and player have got.

**`ClipProofs`** proves `DecoderSafe` and `SourceFollows`. The right to close a decoder is a token which
the slot has or one waiting request (`Closers`); that no decoder is closed twice follows whatever runs
beside each other. That none is closed under its player, or lost, is true of requests one at a time, and
needs an invariant about them (`Orderly`): at most one is under way (`OneRequest`), it finds the slot as
it left it (`OutOfSlot`, `Starting`), who decodes still has its token (`DecoderOpen`), no token falls
(`CloserKept`), and the source is on and off with the player (`On`, `Off`).

**`SpliceProofs`** proves `SiblingsTogether` and `TimersOwned` for requests that leave event IDs to the
injector (`GeneratedIds`). Both are inductive then: an ID is handed out only when no break, timer,
pre-roll or message has it (`FreshIds`), so a new break replaces none and no old timer ends it. Section
6 says what an explicit ID does. `WireAgrees` follows from `WireInv`: in the order of the lock one
message is in hand at most, and what receivers will have open after it is what the injector tracks
(`InOrder`); a repetition concerns breaks that are open, or is cancelled with them (`RepetitionsOwned`).

**`GraphicsProofs`** proves the five invariants of the run `graphics`. `Shared` holds whatever
requests overlap: one goroutine moves the layer, and the layer's channels are its own (`OneAlive`,
`Slots`); a cancel channel that is closed has somebody who waits (`Awaited`), for a goroutine that is
alive (`Waits`); and an entry is that of an engine which has still to delete it (`Entries`). `OneDriver`,
`ClosedOnce` and `WaitEnds` follow, the last because a request that ends an animation is let go only by
the deferred function of the goroutine whose channels the layer still has. `EngineListed` does not follow
from that, since a cleanup deletes whatever entry it finds. `Kept` adds what is needed, again for all
overlaps: beside an engine that nobody has stopped and that did not race there is no other of its kind
whose cleanup is still to come. A start keeps it because the map has no entry then, so that an engine
left over was stopped, or raced, and the new one is marked (`MadeKept`); and an engine is started by the
request that made it and no other (`Making`). `Alone` says what holds in addition as long as requests do
not overlap (`~ overlapped`): one request and one engine at most (`OneRequest`, `OneWriter`); what moves
a layer finds it on, without a ticker's strip and without an engine that writes (`Undisturbed`); a
request that goes on after its wait finds the layer still there and nothing moving it (`Phases`); an
engine that is made is that of the request which will start it (`MadeFor`); and a strip is that of a
ticker which has still to take it off (`Strip`). `OffIsStill` follows. TLC checked them on the run's
instance before.

*Only model-checked*: everything temporal under fairness (`ImplementsFairBus`' fair half,
`OrphanReaped`, `LoopStops`, `BreakEnds`, `RequestsReturn`, `StopReturns`, `DeletedUnlocked`,
`CancelledEnds`), since the prover does not treat fairness and ENABLED. Every invariant and every action
property of a passing run is a theorem.

## 6. What the code does otherwise

One of these is a run, `v_graphics`. Each of the others is a property stated in the modules which TLC
refutes on the configuration named, with the constants as changed; the counterexample is a schedule of
the code.

On `bus.cfg`, with `SPECIFICATION Spec` for the invariants:
- `GateOnlyInMix`, with `"cut_override"`: a cut over a GPU mix leaves `gpuTransActive` set; the
  processing loop goes on dropping the new program's frames until the next GPU mix completes.
- `OwnCallback`, with `"cut_override"`: an engine finishes, a cut and a new mix get the lock before its
  callback; the callback completes the new mix.
- `OneTransition`, with `"cut_override"`: a cut between mark and publication of a transition lets a
  second one start beside it.
- `NoOrphan`, with `"ftb_again"`: fade to black during a fade starts a second engine; the first is left
  running.
- `ProgramRegistered`, with `"unregister"` and `"unregister_target"`: the target of a running mix is
  unregistered, and the mix completes to it.
- `TransitionEnds`, with `Delivering = {a}`: the incoming source falls silent while the outgoing one
  sends; the watchdog is content and the mix never ends.

On `audio.cfg`:
- `FadeFollowsEngine`: a mix soon after a cut loses its crossfade to the cut's countdown.
- `OnlyProgramOnAir`: a mix taken back by the T-bar leaves its target's channel on air.
- `PaceFollowed` and `PaceFollowsTarget`, with two controllers and `Patient = FALSE`: the synchronizer
  hears of the end of a mix after the cut, or the start of the next mix, that came later.
- `AudioFollowed`, with `Patient = FALSE`: a cut to a source that has been registered, but has no channel
  in the mixer yet, leaves the program silent. With two controllers: of two cuts that overtake each other
  after the unlock the mixer hears the later one first, and keeps the source of the earlier.
- `AudioFollowed`, with `"ftb_again"`: a second fade to black that does not start rolls the state of the
  first back, whose crossfade stays.
- `PaceFollowed`, with `"abort"`: `AbortTransition` does not tell the synchronizer, and the callback of
  the engine it stops finds the transition over and returns before it would (2165-2169), so that the
  target of the mix paces the output until the next cut.
- `ProgramRegistered`, with `"unregister_target"`, as above.

On `frames.cfg`:
- `ProgramFrames`: a frame routed before a cut is stamped with the epoch after it, and gets through.
- `NoLeak`: `MakeWritable` drops the last reference without returning the buffer.
- `RefsExact`, `PoolUnused`, `PoolUncounted`, with `Modes` and `Removals` both `{"sync"}`: a source
  removed between tick and delivery returns a buffer that is still delivered.

On `srt_output.cfg`:
- `Recovers`: a write fails after the loop has said active and before its deferred reset of the flag; no
  loop is started and the output stays down.
- `CloseReleases`: a dial that succeeds during close is installed after it, and the closed output is
  active.

On `output.cfg`:
- `ClosedMuxerQuiet`: a writer that has read the muxer's pointer writes to it after its close, which
  only made it uninitialised: a key frame sets it up again (`stopMuxerLocked` says that writes in
  progress complete before).
- `ResidualSent`: the last output's adapter is taken from the pacer's list before the pacer drains, so
  what is left goes to nobody.

On `splice.cfg`:
- `HeldStays`: a held break is ended by a timer that had fired already, or by the one of the message it
  came with.
- `BreakEnds`, with `"extend_short"`: a break "extended" to a duration that has passed keeps auto-return
  but has no timer. (TLC's schedule repeats the extension; nothing else is left that could end the break
  but a request.)
- `ActiveBounded`, with `MaxActive = 1`: a message with two breaks is admitted when there is room for
  one.
- `TimersOwned`, with `"explicit_id"`: a cue with the ID of an open break leaves the old timer running,
  which ends the new break.

On `control.cfg`: `OneMacro`: a macro is dismissed, which makes room for the next, and the first still
has a step to end; its report ends the state of the second, and a third is run beside it.

On `replay.cfg`, with `Clients = {c1}`: `ResumeResumes`: a pause between the player's ready callback and
the store of "playing" after it (`player.go`) leaves an open channel nobody will close: the resume sees
a playing player and does nothing, and the player stays blocked until it is stopped.

On `clips.cfg`: `LoadEjects`: two loads take turns; the second overwrites a slot in which the first's
clip plays by then, and a player runs on that no request can reach.

`v_graphics`, `SafeTogether`: two requests end the same fade. The first has closed its cancel channel
and waits without the lock; the field is not cleared until the fade's deferred function has run, so that
the second closes the channel again and panics with `c.mu` held.

On `graphics.cfg`:
- `RunningKnown` (`text_animation.go:64`: "IsRunning returns true if a text animation is active on the
  given layer"): `Stop` takes the entry of the animation it stops, unlocks and waits; another request
  finds no entry and starts an animation, which is entered; the cleanup of the first
  (`text_animation.go:147`) deletes the layer's entry, which is the second's by then. The second plays,
  but `IsRunning` says no, `Stop` returns nil and leaves it, and `Start` puts a third beside it. The same
  happens with tickers, after `Stop` or `UpdateText` (`ticker.go:132`), where a looping one can no longer
  be stopped. `EngineListed` is what is left: it excepts these starts alone.
- `OffIsStill`, with requests one at a time (`Together = {}`) and without `Written` in `Animate`'s call
  of `Asked`: a pulse is started on a layer that a text animation or a ticker has turned on; the engine
  ends, or the strip runs out, and turns the layer off under the pulse (`compositor.go:408`), which goes
  on. A fade differs only in that it ends by itself.

## 7. What is not modelled

Within the modelled components: labels, positions, keying and layout configuration, pipeline rebuilds,
statistics and state broadcasts (no effect on the control modelled); GPU and MXL frame formats; in the
frame path audio rings, frame rate conversion and timestamps, and the split of `IngestRawVideo`'s lookup
and push; in the SRT caller backoff durations and the ring buffer's contents; in the output manager the
confidence monitor and the wire format; in the injector heartbeat, rules, event log, webhooks and
`CancelSegmentationEvent`, which sends a message and tracks nothing; tokens, names and the stores'
formats; replay buffers and marks, seek and speed of replays and clips, which change what is decoded and
not who decodes; blending, order and rectangles of layers.

Whole components: those of the table in section 1; signal and picture processing, codecs and GPU kernels
(arithmetic on large data, out of TLC's reach); bit-level coding of SCTE-35, SCTE-104 and captions
(data, no control); presets, metrics, logging and the web client. Together these are the larger part of
the source by lines.

## 8. Plan

Done: the modules of section 2 and the proofs of section 5. Next:

1. `SRTListener` and `OutputManager` composed with `SRTCaller`: an abstract output that is started and
   stopped, implemented by both.
2. The split of `IngestRawVideo` in `FramePath`, and `DelayBuffer`: no frame kept after a removal, order
   when a delay changes.
3. `SyncPTS`: the synchronizer's timestamps with 33-bit wrap; that released timestamps only grow.
4. `ReplayBuffer`: trimming under both limits; a clip starts with a key frame.
