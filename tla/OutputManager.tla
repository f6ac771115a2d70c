---------------------------- MODULE OutputManager ----------------------------
(***************************************************************************)
(* Program output (server/output): the manager that starts and stops the   *)
(* recording and the SRT destinations (manager.go), the shared MPEG-TS     *)
(* muxer (muxer.go), the queue in front of every directly written adapter  *)
(* (async_adapter.go) and the constant bitrate pacer (cbr_pacer.go).       *)
(*                                                                         *)
(* Threads: Clients (API requests), Writers (the encoder's goroutine with  *)
(* video, the mixer's with audio), a drain goroutine per queue, a tick     *)
(* loop per pacer.  m.mu is held by a request until the muxer is down;     *)
(* writers take no lock but the muxer's own.  A client's notifications     *)
(* (state broadcast, keyframe request) and the content of packets are left *)
(* out.                                                                    *)
(***************************************************************************)
EXTENDS Integers, FiniteSets, Sequences

CONSTANTS
  Outputs,       \* the recording, the SRT output and the destinations
  Destinations,  \* those outputs that are added and removed
  SRTOutputs,    \* those outputs that are paced when a muxrate is set
  Adapters,      \* adapter objects, one per start of an output
  NoAdapter,     \* the nil adapter
  Muxers,        \* muxer objects, each with the pacer made with it
  NoMuxer,       \* the nil pointer
  Clients,       \* goroutines serving requests
  NoClient,      \* m.mu is free
  Video,         \* the writer whose frames may be keyframes
  Writers,       \* Video and the mixer's goroutine
  QueueCap       \* asyncAdapterBufSize

ASSUME NilAssumption == NoAdapter \notin Adapters /\ NoMuxer \notin Muxers /\ NoClient \notin Clients
ASSUME KindAssumption == Destinations \subseteq Outputs /\ SRTOutputs \subseteq Outputs /\ Video \in Writers
ASSUME BoundAssumption == QueueCap \in Nat \ {0}

VARIABLES
  cbr,      \* never changes; TRUE: cbrMuxrate > 0
  known,    \* keys of m.destinations
  adapter,  \* per output: the active adapter
  device,   \* per adapter object: closed or open, paced or behind a queue
  listed,   \* m.directAdapters
  queue,    \* per adapter: its AsyncAdapter
  muxer,    \* m.muxer, m.directMuxer, and the m.cbrPacer made with it
  mux,      \* per muxer object
  pacer,    \* per muxer object: its CBRPacer
  lock,     \* holder of m.mu
  ctl,      \* per client: the request under way
  writer,   \* per writer: DirectWriteVideo or DirectWriteAudio under way
  closed    \* m.closed

vars == <<cbr, known, adapter, device, listed, queue, muxer, mux, pacer, lock, ctl, writer, closed>>

Active == {o \in Outputs : adapter[o] # NoAdapter}
Paced(o) == cbr /\ o \in SRTOutputs

NoQueue == [st |-> "none", packets |-> <<>>]
NewMux == [st |-> "none", init |-> FALSE]
NoPacer == [st |-> "none", data |-> FALSE, list |-> {}]
Idle == [pc |-> "idle", stale |-> {}, close |-> {}, mux |-> NoMuxer]
Resting == [pc |-> "idle", mux |-> NoMuxer, todo |-> {}]

\* A packet in a queue is "early", or "late" when it came after the queue's Stop.
TypeOK ==
  /\ cbr \in BOOLEAN /\ closed \in BOOLEAN
  /\ known \in SUBSET Destinations
  /\ adapter \in [Outputs -> Adapters \cup {NoAdapter}]
  /\ device \in [Adapters -> {"none", "open", "closed"}]
  /\ listed \in SUBSET Adapters
  /\ queue \in [Adapters -> [st : {"none", "draining", "stopping", "done"}, packets : Seq({"early", "late"})]]
  /\ \A a \in Adapters : Len(queue[a].packets) <= QueueCap
  /\ muxer \in Muxers \cup {NoMuxer}
  /\ mux \in [Muxers -> [st : {"none", "open", "closed"}, init : BOOLEAN]]
  /\ pacer \in [Muxers -> [st : {"none", "running", "stopping", "done"}, data : BOOLEAN,
                           list : SUBSET Adapters]]
  /\ lock \in Clients \cup {NoClient}
  /\ ctl \in [Clients -> [pc : {"idle", "muxer", "pacer", "drained", "queues"},
                          stale : SUBSET Adapters, close : SUBSET Adapters,
                          mux : Muxers \cup {NoMuxer}]]
  /\ writer \in [Writers -> [pc : {"idle", "loaded", "output"}, mux : Muxers \cup {NoMuxer},
                             todo : SUBSET Adapters]]

Init ==
  /\ cbr \in BOOLEAN
  /\ known = {} /\ adapter = [o \in Outputs |-> NoAdapter]
  /\ device = [a \in Adapters |-> "none"]
  /\ listed = {} /\ queue = [a \in Adapters |-> NoQueue]
  /\ muxer = NoMuxer /\ mux = [m \in Muxers |-> NewMux] /\ pacer = [m \in Muxers |-> NoPacer]
  /\ lock = NoClient /\ ctl = [c \in Clients |-> Idle]
  /\ writer = [w \in Writers |-> Resting]
  /\ closed = FALSE
-----------------------------------------------------------------------------
(* Objects are reused when nothing refers to them any more; which, is all  *)
(* the same.                                                               *)

FreshAdapters ==
  {a \in Adapters :
     /\ device[a] # "open"
     /\ \A w \in Writers : a \notin writer[w].todo
     /\ \A c \in Clients : a \notin ctl[c].stale \cup ctl[c].close
     /\ \A m \in Muxers : a \notin pacer[m].list}

FreshMuxers ==
  {m \in Muxers : m # muxer /\ (\A w \in Writers : writer[w].mux # m) /\ \A c \in Clients : ctl[c].mux # m}

\* A client gets m.mu.
Locks(c) == ctl[c].pc = "idle" /\ lock = NoClient
-----------------------------------------------------------------------------
(* StartRecording, StartSRTOutput, StartDestination; AddDestination        *)

\* The new adapter is listed, behind a queue of its own or for the pacer, and the first
\* output brings up a muxer.  m.closed is not looked at.
Start(c, o) ==
  /\ Locks(c)
  /\ adapter[o] = NoAdapter /\ (o \in Destinations => o \in known)
  /\ FreshAdapters # {} /\ (muxer = NoMuxer => FreshMuxers # {})
  /\ LET a == CHOOSE x \in FreshAdapters : TRUE IN
       /\ adapter' = [adapter EXCEPT ![o] = a]
       /\ device' = [device EXCEPT ![a] = "open"]
       /\ IF Paced(o) THEN queue' = [queue EXCEPT ![a] = NoQueue] /\ UNCHANGED listed
                      ELSE queue' = [queue EXCEPT ![a] = [NoQueue EXCEPT !.st = "draining"]]
                           /\ listed' = listed \cup {a}
       /\ LET paced == {adapter'[p] : p \in {q \in Outputs : Paced(q) /\ adapter'[q] # NoAdapter}}
          IN \/ /\ muxer # NoMuxer
                /\ pacer' = IF cbr THEN [pacer EXCEPT ![muxer].list = paced] ELSE pacer
                /\ UNCHANGED <<muxer, mux>>
             \/ /\ muxer = NoMuxer
                /\ LET m == CHOOSE x \in FreshMuxers : TRUE IN
                     /\ muxer' = m
                     /\ mux' = [mux EXCEPT ![m] = [st |-> "open", init |-> FALSE]]
                     /\ pacer' = [pacer EXCEPT ![m] = IF cbr THEN [st |-> "running", data |-> FALSE, list |-> paced]
                                                             ELSE NoPacer]
  /\ UNCHANGED <<cbr, known, lock, ctl, writer, closed>>

AddDestination(c, d) ==
  /\ Locks(c) /\ d \in Destinations \ known
  /\ known' = known \cup {d}
  /\ UNCHANGED <<cbr, adapter, device, listed, queue, muxer, mux, pacer, lock, ctl, writer, closed>>
-----------------------------------------------------------------------------
(* StopRecording, StopSRTOutput, StopDestination, RemoveDestination, Close *)

\* Mutant: the output still has its adapter when the lock is released.
TakeDown_Remembers(c, gone) ==
  LET as == {adapter[o] : o \in gone}
      queued == {a \in as : queue[a].st = "draining"}
  IN /\ listed' = listed \ as
     /\ ctl' = [ctl EXCEPT ![c] = [Idle EXCEPT !.pc = "queues", !.stale = queued, !.close = as]]
     /\ UNCHANGED <<adapter, muxer, lock>>

\* rebuildAdaptersLocked and stopMuxerIfNoAdaptersLocked after the outputs in gone went:
\* with the last one the muxer goes too, and the request keeps m.mu meanwhile.
TakeDown(c, gone) ==
  LET as == {adapter[o] : o \in gone}
      queued == {a \in as : queue[a].st = "draining"}
      last == Active \subseteq gone /\ muxer # NoMuxer
      m == IF last THEN muxer ELSE NoMuxer
  IN /\ adapter' = [o \in Outputs |-> IF o \in gone THEN NoAdapter ELSE adapter[o]]
     /\ listed' = listed \ as
     /\ muxer' = IF last THEN NoMuxer ELSE muxer
     /\ lock' = IF last THEN c ELSE NoClient
     /\ ctl' = [ctl EXCEPT ![c] = [pc |-> IF last THEN "muxer" ELSE "queues", stale |-> queued, close |-> as, mux |-> m]]

\* Mutant: the last output leaves the muxer up.
Stop_KeepsMuxer(c, o) ==
  /\ Locks(c) /\ o \in Active
  /\ adapter' = [adapter EXCEPT ![o] = NoAdapter]
  /\ listed' = listed \ {adapter[o]}
  /\ ctl' = [ctl EXCEPT ![c] = [Idle EXCEPT !.pc = "queues", !.close = {adapter[o]},
                                 !.stale = {a \in {adapter[o]} : queue[a].st = "draining"}]]
  /\ pacer' = IF cbr THEN [pacer EXCEPT ![muxer].list = @ \ {adapter[o]}] ELSE pacer
  /\ UNCHANGED <<cbr, known, device, queue, muxer, mux, lock, writer, closed>>

Stop(c, o) ==
  /\ Locks(c) /\ o \in Active
  /\ TakeDown(c, {o})
  /\ pacer' = IF cbr THEN [pacer EXCEPT ![muxer].list = @ \ {adapter[o]}] ELSE pacer
  /\ UNCHANGED <<cbr, known, device, queue, mux, writer, closed>>

RemoveDestination(c, d) ==
  /\ Locks(c) /\ d \in known
  /\ known' = known \ {d}
  /\ IF d \in Active
       THEN /\ TakeDown(c, {d})
            /\ pacer' = IF cbr THEN [pacer EXCEPT ![muxer].list = @ \ {adapter[d]}] ELSE pacer
       ELSE UNCHANGED <<adapter, listed, muxer, lock, ctl, pacer>>
  /\ UNCHANGED <<cbr, device, queue, mux, writer, closed>>

\* All outputs at once; the pacer keeps its list.
Close(c) ==
  /\ Locks(c) /\ ~ closed
  /\ closed' = TRUE /\ known' = {}
  /\ TakeDown(c, Active)
  /\ UNCHANGED <<cbr, device, queue, mux, pacer, writer>>
-----------------------------------------------------------------------------
(* stopMuxerLocked, m.mu held                                              *)

\* muxer.Close waits for the muxer's lock: for a writer in the output callback.
CloseMuxer(c) ==
  /\ ctl[c].pc = "muxer"
  /\ \A w \in Writers : writer[w].mux = ctl[c].mux => writer[w].pc # "output"
  /\ mux' = [mux EXCEPT ![ctl[c].mux] = [st |-> "closed", init |-> FALSE]]
  /\ IF cbr THEN ctl' = [ctl EXCEPT ![c].pc = "pacer"] /\ UNCHANGED lock
            ELSE ctl' = [ctl EXCEPT ![c].pc = "queues", ![c].mux = NoMuxer] /\ lock' = NoClient
  /\ UNCHANGED <<cbr, known, adapter, device, listed, queue, muxer, pacer, writer, closed>>

\* Mutant: the tick loop is not told.
StopPacer_Silent(c) ==
  /\ ctl[c].pc = "pacer"
  /\ ctl' = [ctl EXCEPT ![c].pc = "drained"]
  /\ UNCHANGED <<cbr, known, adapter, device, listed, queue, muxer, mux, pacer, lock, writer, closed>>

\* CBRPacer.Stop: signal the tick loop ...
StopPacer(c) ==
  /\ ctl[c].pc = "pacer"
  /\ pacer' = [pacer EXCEPT ![ctl[c].mux].st = "stopping"]
  /\ ctl' = [ctl EXCEPT ![c].pc = "drained"]
  /\ UNCHANGED <<cbr, known, adapter, device, listed, queue, muxer, mux, lock, writer, closed>>

\* ... and wait until it has drained.
PacerStopped(c) ==
  /\ ctl[c].pc = "drained" /\ pacer[ctl[c].mux].st = "done"
  /\ ctl' = [ctl EXCEPT ![c].pc = "queues", ![c].mux = NoMuxer]
  /\ lock' = NoClient
  /\ UNCHANGED <<cbr, known, adapter, device, listed, queue, muxer, mux, pacer, writer, closed>>
-----------------------------------------------------------------------------
(* After the unlock: stop the stale queues, close the adapters             *)

\* AsyncAdapter.Stop, first half: close(stopCh).
StopQueue(c, a) ==
  /\ ctl[c].pc = "queues" /\ a \in ctl[c].stale /\ queue[a].st = "draining"
  /\ queue' = [queue EXCEPT ![a].st = "stopping"]
  /\ UNCHANGED <<cbr, known, adapter, device, listed, muxer, mux, pacer, lock, ctl, writer, closed>>

\* Second half: <-doneCh.
QueueStopped(c, a) ==
  /\ ctl[c].pc = "queues" /\ a \in ctl[c].stale /\ queue[a].st = "done"
  /\ ctl' = [ctl EXCEPT ![c].stale = @ \ {a}]
  /\ UNCHANGED <<cbr, known, adapter, device, listed, queue, muxer, mux, pacer, lock, writer, closed>>

CloseAdapter(c, a) ==
  /\ ctl[c].pc = "queues" /\ ctl[c].stale = {} /\ a \in ctl[c].close
  /\ device' = [device EXCEPT ![a] = "closed"]
  /\ ctl' = [ctl EXCEPT ![c].close = @ \ {a}]
  /\ UNCHANGED <<cbr, known, adapter, listed, queue, muxer, mux, pacer, lock, writer, closed>>

Return(c) ==
  /\ ctl[c].pc = "queues" /\ ctl[c].stale = {} /\ ctl[c].close = {}
  /\ ctl' = [ctl EXCEPT ![c] = Idle]
  /\ UNCHANGED <<cbr, known, adapter, device, listed, queue, muxer, mux, pacer, lock, writer, closed>>
-----------------------------------------------------------------------------
(* DirectWriteVideo, DirectWriteAudio                                      *)

\* The pointer is loaded without a lock ...
LoadMuxer(w) ==
  /\ writer[w].pc = "idle" /\ muxer # NoMuxer
  /\ writer' = [writer EXCEPT ![w] = [pc |-> "loaded", mux |-> muxer, todo |-> {}]]
  /\ UNCHANGED <<cbr, known, adapter, device, listed, queue, muxer, mux, pacer, lock, ctl, closed>>

\* ... and the muxer's lock is taken: until a keyframe initialises the muxer frames are
\* dropped; Close only makes it uninitialised again.  The callback loads the list.
Write(w) ==
  /\ writer[w].pc = "loaded"
  /\ LET m == writer[w].mux IN
       /\ \A v \in Writers : writer[v].mux = m => writer[v].pc # "output"
       /\ \/ /\ mux[m].init \/ w = Video
             /\ mux' = [mux EXCEPT ![m].init = TRUE]
             /\ writer' = [writer EXCEPT ![w].pc = "output", ![w].todo = listed]
          \/ /\ ~ mux[m].init
             /\ writer' = [writer EXCEPT ![w] = Resting]
             /\ UNCHANGED mux
  /\ UNCHANGED <<cbr, known, adapter, device, listed, queue, muxer, pacer, lock, ctl, closed>>

\* AsyncAdapter.Write: a full queue drops the packet.
Enqueue(w, a) ==
  /\ writer[w].pc = "output" /\ a \in writer[w].todo
  /\ queue' = IF Len(queue[a].packets) < QueueCap
                THEN [queue EXCEPT ![a].packets =
                        Append(@, IF queue[a].st = "draining" THEN "early" ELSE "late")]
                ELSE queue
  /\ writer' = [writer EXCEPT ![w].todo = @ \ {a}]
  /\ UNCHANGED <<cbr, known, adapter, device, listed, muxer, mux, pacer, lock, ctl, closed>>

\* Then the pacer that is current now, if there is one.
EnqueuePaced(w) ==
  /\ writer[w].pc = "output" /\ writer[w].todo = {}
  /\ pacer' = IF cbr /\ muxer # NoMuxer THEN [pacer EXCEPT ![muxer].data = TRUE] ELSE pacer
  /\ writer' = [writer EXCEPT ![w] = Resting]
  /\ UNCHANGED <<cbr, known, adapter, device, listed, queue, muxer, mux, lock, ctl, closed>>
-----------------------------------------------------------------------------
(* AsyncAdapter.drain; CBRPacer.tickLoop                                   *)

DrainOne(a) ==
  /\ queue[a].st \in {"draining", "stopping"} /\ queue[a].packets # <<>>
  /\ queue' = [queue EXCEPT ![a].packets = Tail(@)]
  /\ UNCHANGED <<cbr, known, adapter, device, listed, muxer, mux, pacer, lock, ctl, writer, closed>>

\* Mutant: the stop is followed at once.
DrainEnd_AtOnce(a) ==
  /\ queue[a].st = "stopping"
  /\ queue' = [queue EXCEPT ![a].st = "done"]
  /\ UNCHANGED <<cbr, known, adapter, device, listed, muxer, mux, pacer, lock, ctl, writer, closed>>

\* The goroutine ends when it is stopped and finds the queue empty.
DrainEnd(a) ==
  /\ queue[a].st = "stopping" /\ queue[a].packets = <<>>
  /\ queue' = [queue EXCEPT ![a].st = "done"]
  /\ UNCHANGED <<cbr, known, adapter, device, listed, muxer, mux, pacer, lock, ctl, writer, closed>>

\* A tick sends what has come in to the adapters of the list.
PacerTick(m) ==
  /\ pacer[m].st \in {"running", "stopping"} /\ pacer[m].data
  /\ pacer' = [pacer EXCEPT ![m].data = FALSE]
  /\ UNCHANGED <<cbr, known, adapter, device, listed, queue, muxer, mux, lock, ctl, writer, closed>>

\* drainRemaining, and the end of the loop.
PacerEnd(m) ==
  /\ pacer[m].st = "stopping"
  /\ pacer' = [pacer EXCEPT ![m] = [NoPacer EXCEPT !.st = "done"]]
  /\ UNCHANGED <<cbr, known, adapter, device, listed, queue, muxer, mux, lock, ctl, writer, closed>>

Request(c) ==
  \/ \E o \in Outputs : Start(c, o) \/ Stop(c, o) \/ AddDestination(c, o) \/ RemoveDestination(c, o)
  \/ Close(c)

Continue(c) ==
  \/ CloseMuxer(c) \/ StopPacer(c) \/ PacerStopped(c) \/ Return(c)
  \/ \E a \in Adapters : StopQueue(c, a) \/ QueueStopped(c, a) \/ CloseAdapter(c, a)

Deliver(w) == Write(w) \/ EnqueuePaced(w) \/ \E a \in Adapters : Enqueue(w, a)
Drain(a) == DrainOne(a) \/ DrainEnd(a)
Pace(m) == PacerTick(m) \/ PacerEnd(m)

Next ==
  \/ \E c \in Clients : Request(c) \/ Continue(c)
  \/ \E w \in Writers : LoadMuxer(w) \/ Deliver(w)
  \/ \E a \in Adapters : Drain(a)
  \/ \E m \in Muxers : Pace(m)

Spec == Init /\ [][Next]_vars

\* Goroutines run: a request past its lock, a write under way, the drains and the ticks.
FairSpec ==
  /\ Spec
  /\ \A c \in Clients : WF_vars(Continue(c))
  /\ \A w \in Writers : WF_vars(Deliver(w))
  /\ \A a \in Adapters : WF_vars(Drain(a))
  /\ \A m \in Muxers : WF_vars(Pace(m))
-----------------------------------------------------------------------------
\* When nobody holds m.mu the outputs, the lists and the muxer agree: a muxer is up iff an
\* output is active, the lists hold exactly the active adapters, those are open and behind
\* a queue that is drained or on the list of a pacer that runs (rebuildAdaptersLocked).
Served ==
  lock = NoClient =>
    /\ (muxer # NoMuxer) = (Active # {})
    /\ listed = {adapter[o] : o \in {p \in Active : ~ Paced(p)}}
    /\ \A o \in Active :
         /\ device[adapter[o]] = "open"
         /\ IF Paced(o) THEN pacer[muxer].st = "running" /\ adapter[o] \in pacer[muxer].list
                        ELSE queue[adapter[o]].st = "draining"

\* An adapter behind a queue is closed after the last write to it (the drain goroutine has
\* ended), and all packets queued before the stop were written (AsyncAdapter.Stop).
ClosedDrained ==
  \A a \in Adapters : device[a] = "closed" =>
    queue[a].st \in {"none", "done"} /\ \A i \in 1 .. Len(queue[a].packets) : queue[a].packets[i] = "late"

\* Two outputs never share an adapter, and an adapter is closed by one request alone: none
\* is closed twice or while it is in use again.
ClosedOnce ==
  /\ \A o, p \in Active : adapter[o] = adapter[p] => o = p
  /\ \A c \in Clients : \A a \in ctl[c].close :
       /\ device[a] = "open" /\ \A o \in Outputs : adapter[o] # a
       /\ \A d \in Clients \ {c} : a \notin ctl[d].close

\* Every request returns, although it waits for writers, drains and the pacer.
RequestsReturn == \A c \in Clients : ctl[c].pc # "idle" ~> ctl[c].pc = "idle"

\* stopMuxerLocked: "Any in-progress DirectWriteVideo/DirectWriteAudio calls will complete
\* (muxer has its own mutex) before Close returns": nothing is muxed by a closed muxer.
ClosedMuxerQuiet == \A w \in Writers : writer[w].pc = "output" => mux[writer[w].mux].st = "open"

\* stopMuxerLocked: "Stop pacer after muxer (drains residual data)": when the last output
\* that stops is a paced one, its adapter is still on the list of the pacer that drains.
ResidualSent ==
  \A c \in Clients : ctl[c].pc = "drained" /\ pacer[ctl[c].mux].data =>
    {a \in ctl[c].close : queue[a].st = "none"} \subseteq pacer[ctl[c].mux].list
=============================================================================
