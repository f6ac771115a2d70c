----------------------------- MODULE OutputProofs -----------------------------
(***************************************************************************)
(* Theorems about OutputManager for every set of outputs, adapters,        *)
(* muxers, clients and writers and every queue size: the outputs, the      *)
(* lists and the muxer agree, an adapter is closed once, by one request,   *)
(* and only when its queue has been drained.  Then about SRTCaller, one of *)
(* the adapters: one reconnect loop at a time, no connection lost sight    *)
(* of, and a key frame first over a new connection.                        *)
(***************************************************************************)
EXTENDS OutputManager, SRTCaller, TLAPS

\* m.mu is held by a request that takes the muxer down: no muxer is up, no output active.
Holding(c) == ctl[c].pc \in {"muxer", "pacer", "drained"}
HeldAlone == \A c \in Clients : Holding(c) => lock = c /\ muxer = NoMuxer /\ ctl[c].mux \in Muxers

\* A muxer is up iff an output is active, and with a muxrate its pacer runs.
MuxerFollows ==
  /\ (muxer # NoMuxer) = (Active # {})
  /\ cbr /\ muxer # NoMuxer => pacer[muxer].st = "running"

\* The writers' list holds exactly the active adapters that are not paced.
ListFollows == listed = {adapter[o] : o \in {p \in Active : ~ Paced(p)}}

\* What an active output's adapter is in: nobody stops or closes it.
ActiveServed ==
  \A o \in Active :
    /\ device[adapter[o]] = "open"
    /\ Paced(o) => queue[adapter[o]].st = "none" /\ adapter[o] \in pacer[muxer].list
    /\ ~ Paced(o) => queue[adapter[o]].st = "draining"

\* A request waits for the queue of each adapter it closes, unless there is none.
StaleFirst ==
  \A c \in Clients :
    /\ ctl[c].stale \subseteq ctl[c].close
    /\ \A a \in ctl[c].close : a \notin ctl[c].stale => queue[a].st \in {"none", "done"}

\* A queue whose goroutine has ended holds what came after the stop, and a closed adapter
\* has no other queue.
EndedDrained ==
  \A a \in Adapters :
    /\ device[a] = "closed" => queue[a].st \in {"none", "done"}
    /\ queue[a].st \in {"none", "done"} =>
         \A i \in 1 .. Len(queue[a].packets) : queue[a].packets[i] = "late"

OutInv ==
  TypeOK /\ HeldAlone /\ MuxerFollows /\ ListFollows /\ ActiveServed /\ ClosedOnce /\ StaleFirst /\ EndedDrained

\* Types of a queue, a request and a write under way.
Queues == [st : {"none", "draining", "stopping", "done"}, packets : Seq({"early", "late"})]
Requests == [pc : {"idle", "muxer", "pacer", "drained", "queues"},
             stale : SUBSET Adapters, close : SUBSET Adapters, mux : Muxers \cup {NoMuxer}]
Writes == [pc : {"idle", "loaded", "output"}, mux : Muxers \cup {NoMuxer}, todo : SUBSET Adapters]
Pacers == [st : {"none", "running", "stopping", "done"}, data : BOOLEAN, list : SUBSET Adapters]
Muxes == [st : {"none", "open", "closed"}, init : BOOLEAN]

Typed ==
  /\ cbr \in BOOLEAN /\ closed \in BOOLEAN /\ known \in SUBSET Destinations
  /\ adapter \in [Outputs -> Adapters \cup {NoAdapter}]
  /\ device \in [Adapters -> {"none", "open", "closed"}]
  /\ listed \in SUBSET Adapters
  /\ queue \in [Adapters -> Queues] /\ \A a \in Adapters : Len(queue[a].packets) <= QueueCap
  /\ muxer \in Muxers \cup {NoMuxer} /\ mux \in [Muxers -> Muxes] /\ pacer \in [Muxers -> Pacers]
  /\ lock \in Clients \cup {NoClient}
  /\ ctl \in [Clients -> Requests] /\ writer \in [Writers -> Writes]

LEMMA TypeSets == TypeOK <=> Typed
  BY DEF TypeOK, Typed, Queues, Requests, Writes, Pacers, Muxes

LEMMA TypeSetsNext == TypeOK' <=> Typed'
  BY TypeSets, PTL

LEMMA BlankTypes ==
  /\ NoQueue \in Queues /\ NewMux \in Muxes /\ NoPacer \in Pacers
  /\ Idle \in Requests /\ Resting \in Writes
  /\ NoQueue.st = "none" /\ NoQueue.packets = <<>> /\ Len(NoQueue.packets) = 0
  BY DEF NoQueue, Queues, NewMux, Muxes, NoPacer, Pacers, Idle, Requests, Resting, Writes

LEMMA InitTyping == Init => TypeOK
<1>. SUFFICES ASSUME Init PROVE TypeOK
  OBVIOUS
<1>1. queue \in [Adapters -> Queues] /\ \A a \in Adapters : Len(queue[a].packets) <= QueueCap
  BY BlankTypes, BoundAssumption DEF Init
<1>2. mux \in [Muxers -> Muxes] /\ pacer \in [Muxers -> Pacers] /\ ctl \in [Clients -> Requests]
      /\ writer \in [Writers -> Writes]
  BY BlankTypes DEF Init
<1>3. cbr \in BOOLEAN /\ closed \in BOOLEAN
  BY Zenon DEF Init
<1>. QED BY <1>1, <1>2, <1>3, TypeSets DEF Typed, Init

\* Objects that nothing refers to can be chosen.
LEMMA FreshChosen ==
  /\ FreshAdapters # {} =>
       /\ (CHOOSE x \in FreshAdapters : TRUE) \in Adapters
       /\ device[CHOOSE x \in FreshAdapters : TRUE] # "open"
  /\ FreshMuxers # {} => (CHOOSE x \in FreshMuxers : TRUE) \in Muxers
  BY DEF FreshAdapters, FreshMuxers

\* What Start does, with the objects it takes named.
Starts(c, o, a, m) ==
  /\ Locks(c) /\ o \in Outputs /\ a \in Adapters /\ m \in Muxers
  /\ adapter[o] = NoAdapter /\ device[a] # "open"
  /\ adapter' = [adapter EXCEPT ![o] = a]
  /\ device' = [device EXCEPT ![a] = "open"]
  /\ queue' = [queue EXCEPT ![a] = IF Paced(o) THEN NoQueue ELSE [st |-> "draining", packets |-> <<>>]]
  /\ listed' = IF Paced(o) THEN listed ELSE listed \cup {a}
  /\ muxer' = m
  /\ \E paced \in SUBSET Adapters :
       /\ paced = {adapter'[p] : p \in {q \in Outputs : Paced(q) /\ adapter'[q] # NoAdapter}}
       /\ pacer' = [pacer EXCEPT ![m] = IF muxer # NoMuxer THEN IF cbr THEN [pacer[m] EXCEPT !.list = paced] ELSE pacer[m]
                                        ELSE IF cbr THEN [st |-> "running", data |-> FALSE, list |-> paced] ELSE NoPacer]
  /\ muxer # NoMuxer => m = muxer /\ mux' = mux
  /\ muxer = NoMuxer => mux' = [mux EXCEPT ![m] = [st |-> "open", init |-> FALSE]]
  /\ UNCHANGED <<cbr, known, lock, ctl, writer, closed>>

LEMMA StartFacts ==
  ASSUME TypeOK, NEW c \in Clients, NEW o \in Outputs, Start(c, o)
  PROVE  \E a \in Adapters, m \in Muxers : Starts(c, o, a, m)
<1>. DEFINE a == CHOOSE x \in FreshAdapters : TRUE
            m == IF muxer # NoMuxer THEN muxer ELSE CHOOSE x \in FreshMuxers : TRUE
            paced == {adapter'[p] : p \in {q \in Outputs : Paced(q) /\ adapter'[q] # NoAdapter}}
<1>1. a \in Adapters /\ device[a] # "open" /\ m \in Muxers
  BY FreshChosen DEF Start, TypeOK
<1>2. /\ Locks(c) /\ adapter[o] = NoAdapter /\ adapter' = [adapter EXCEPT ![o] = a]
      /\ device' = [device EXCEPT ![a] = "open"]
      /\ UNCHANGED <<cbr, known, lock, ctl, writer, closed>>
  BY DEF Start
<1>3. paced \in SUBSET Adapters
  <2>1. adapter' \in [Outputs -> Adapters \cup {NoAdapter}]
    BY <1>1, <1>2 DEF TypeOK
  <2>. QED BY <2>1
<1>4. queue' = [queue EXCEPT ![a] = IF Paced(o) THEN NoQueue ELSE [st |-> "draining", packets |-> <<>>]]
      /\ listed' = IF Paced(o) THEN listed ELSE listed \cup {a}
  BY DEF Start, NoQueue
<1>5. CASE muxer # NoMuxer
  <2>1. muxer' = muxer /\ mux' = mux /\ pacer' = IF cbr THEN [pacer EXCEPT ![muxer].list = paced] ELSE pacer
    BY <1>5 DEF Start
  <2>2. pacer' = [pacer EXCEPT ![m] = IF cbr THEN [pacer[m] EXCEPT !.list = paced] ELSE pacer[m]]
    BY <1>5, <2>1, TypeSets DEF Typed
  <2>3. m = muxer
    BY <1>5
  <2>. HIDE DEF a, m, paced
  <2>4. Starts(c, o, a, m)
    BY <1>1, <1>2, <1>3, <1>4, <1>5, <2>1, <2>2, <2>3 DEF Starts, paced
  <2>. QED BY <1>1, <2>4
<1>6. CASE muxer = NoMuxer
  <2>1. /\ muxer' = m /\ mux' = [mux EXCEPT ![m] = [st |-> "open", init |-> FALSE]]
        /\ pacer' = [pacer EXCEPT ![m] = IF cbr THEN [st |-> "running", data |-> FALSE, list |-> paced] ELSE NoPacer]
    BY <1>6 DEF Start
  <2>. HIDE DEF a, m, paced
  <2>2. Starts(c, o, a, m)
    BY <1>1, <1>2, <1>3, <1>4, <1>6, <2>1 DEF Starts, paced
  <2>. QED BY <1>1, <2>2
<1>. QED BY <1>5, <1>6

\* A request's fields, changed one at a time.
LEMMA RequestFields ==
  ASSUME NEW r \in Requests
  PROVE  /\ \A pc \in {"idle", "muxer", "pacer", "drained", "queues"} :
              [r EXCEPT !.pc = pc] \in Requests /\ [r EXCEPT !.pc = pc, !.mux = NoMuxer] \in Requests
         /\ \A as \in SUBSET Adapters : [r EXCEPT !.stale = as] \in Requests /\ [r EXCEPT !.close = as] \in Requests
         /\ r.stale \in SUBSET Adapters /\ r.close \in SUBSET Adapters /\ r.mux \in Muxers \cup {NoMuxer}
  BY DEF Requests

\* A packet is taken from a queue or added to it, or its goroutine is told to end and does.
LEMMA QueueFields ==
  ASSUME NEW q \in Queues, Len(q.packets) <= QueueCap
  PROVE  /\ \A st \in {"none", "draining", "stopping", "done"} :
              [q EXCEPT !.st = st] \in Queues /\ Len([q EXCEPT !.st = st].packets) <= QueueCap
         /\ q.packets # <<>> =>
              [q EXCEPT !.packets = Tail(@)] \in Queues /\ Len([q EXCEPT !.packets = Tail(@)].packets) <= QueueCap
         /\ Len(q.packets) < QueueCap => \A p \in {"early", "late"} :
              /\ [q EXCEPT !.packets = Append(@, p)] \in Queues
              /\ Len([q EXCEPT !.packets = Append(@, p)].packets) <= QueueCap
<1>1. q.packets \in Seq({"early", "late"}) /\ q.st \in {"none", "draining", "stopping", "done"}
  BY DEF Queues
<1>2. q.packets # <<>> => Tail(q.packets) \in Seq({"early", "late"}) /\ Len(Tail(q.packets)) <= QueueCap
  BY <1>1, BoundAssumption
<1>3. Len(q.packets) < QueueCap => \A p \in {"early", "late"} :
         Append(q.packets, p) \in Seq({"early", "late"}) /\ Len(Append(q.packets, p)) <= QueueCap
  BY <1>1, BoundAssumption
<1>. QED BY <1>1, <1>2, <1>3 DEF Queues

\* A queue that changes leaves the others as they were.
LEMMA QueueTyping ==
  ASSUME TypeOK, NEW a \in Adapters, NEW q \in Queues, Len(q.packets) <= QueueCap,
         queue' = [queue EXCEPT ![a] = q]
  PROVE  queue' \in [Adapters -> Queues] /\ \A b \in Adapters : Len(queue'[b].packets) <= QueueCap
  BY TypeSets DEF Typed

LEMMA PacerFields ==
  ASSUME NEW p \in Pacers
  PROVE  /\ \A st \in {"none", "running", "stopping", "done"} : [p EXCEPT !.st = st] \in Pacers
         /\ [p EXCEPT !.data = TRUE] \in Pacers /\ [p EXCEPT !.data = FALSE] \in Pacers
         /\ \A as \in SUBSET Adapters : [p EXCEPT !.list = as] \in Pacers /\ p.list \in SUBSET Adapters
         /\ \A as \in SUBSET Adapters : [st |-> "running", data |-> FALSE, list |-> as] \in Pacers
         /\ [NoPacer EXCEPT !.st = "done"] \in Pacers
  BY DEF Pacers, NoPacer

LEMMA StartTyping ==
  ASSUME TypeOK, NEW c \in Clients, NEW o \in Outputs, Start(c, o)
  PROVE  TypeOK'
<1>1. PICK a \in Adapters, m \in Muxers : Starts(c, o, a, m)
  BY StartFacts
<1>2. adapter' \in [Outputs -> Adapters \cup {NoAdapter}] /\ device' \in [Adapters -> {"none", "open", "closed"}]
      /\ listed' \in SUBSET Adapters /\ muxer' \in Muxers \cup {NoMuxer}
  BY <1>1, TypeSets DEF Typed, Starts
<1>3. queue' \in [Adapters -> Queues] /\ \A b \in Adapters : Len(queue'[b].packets) <= QueueCap
  <2>1. [st |-> "draining", packets |-> <<>>] \in Queues
    BY DEF Queues
  <2>2. Len(<<>>) <= QueueCap
    BY BoundAssumption
  <2>. QED BY <1>1, <2>1, <2>2, BlankTypes, QueueTyping DEF Starts
<1>4. mux' \in [Muxers -> Muxes]
  <2>1. [st |-> "open", init |-> FALSE] \in Muxes
    BY DEF Muxes
  <2>. QED BY <1>1, <2>1, TypeSets DEF Typed, Starts
<1>5. pacer' \in [Muxers -> Pacers]
  <2>1. PICK paced \in SUBSET Adapters :
           pacer' = [pacer EXCEPT ![m] = IF muxer # NoMuxer THEN IF cbr THEN [pacer[m] EXCEPT !.list = paced] ELSE pacer[m]
                                         ELSE IF cbr THEN [st |-> "running", data |-> FALSE, list |-> paced] ELSE NoPacer]
    BY <1>1 DEF Starts
  <2>2. pacer[m] \in Pacers
    BY TypeSets DEF Typed
  <2>3. [pacer[m] EXCEPT !.list = paced] \in Pacers /\ [st |-> "running", data |-> FALSE, list |-> paced] \in Pacers
    BY <2>2, PacerFields
  <2>. QED BY <2>1, <2>2, <2>3, BlankTypes, TypeSets DEF Typed
<1>6. UNCHANGED <<cbr, known, lock, ctl, writer, closed>>
  BY <1>1 DEF Starts
<1>. QED BY <1>2, <1>3, <1>4, <1>5, <1>6, TypeSets, TypeSetsNext DEF Typed

\* What the stopping of outputs has in common: Stop and RemoveDestination take one adapter
\* off the pacer's list, Close leaves the list.
Falls(c, gone) ==
  /\ Locks(c) /\ gone \subseteq Active /\ TakeDown(c, gone)
  /\ pacer' \in [Muxers -> Pacers]
  /\ \A m \in Muxers : pacer'[m].st = pacer[m].st
  /\ \A o \in Active \ gone : Paced(o) /\ adapter[o] \in pacer[muxer].list => adapter[o] \in pacer'[muxer].list
  /\ known' \in SUBSET Destinations /\ closed' \in BOOLEAN
  /\ UNCHANGED <<cbr, device, queue, mux, writer>>

LEMMA UnlistFacts ==
  ASSUME TypeOK, MuxerFollows, ClosedOnce, NEW o \in Active,
         pacer' = IF cbr THEN [pacer EXCEPT ![muxer].list = @ \ {adapter[o]}] ELSE pacer
  PROVE  /\ pacer' \in [Muxers -> Pacers] /\ \A m \in Muxers : pacer'[m].st = pacer[m].st
         /\ \A p \in Active \ {o} : Paced(p) /\ adapter[p] \in pacer[muxer].list =>
              adapter[p] \in pacer'[muxer].list
<1>1. muxer \in Muxers /\ adapter[o] \in Adapters /\ o \in Outputs
  BY TypeSets DEF Typed, MuxerFollows, Active
<1>2. CASE ~ cbr
  BY <1>2, TypeSets DEF Typed
<1>3. CASE cbr
  <2>. DEFINE q == [pacer[muxer] EXCEPT !.list = @ \ {adapter[o]}]
  <2>1. pacer' = [pacer EXCEPT ![muxer] = q] /\ pacer[muxer] \in Pacers
    BY <1>1, <1>3, TypeSets DEF Typed
  <2>2. q \in Pacers /\ q.st = pacer[muxer].st /\ q.list = pacer[muxer].list \ {adapter[o]}
    BY <2>1 DEF Pacers
  <2>3. \A p \in Active \ {o} : adapter[p] # adapter[o]
    BY DEF ClosedOnce
  <2>. HIDE DEF q
  <2>4. pacer'[muxer] = q
    BY <1>1, <2>1, TypeSets DEF Typed
  <2>. QED BY <1>1, <2>1, <2>2, <2>3, <2>4, TypeSets DEF Typed
<1>. QED BY <1>2, <1>3

LEMMA FallsTyping ==
  ASSUME TypeOK, MuxerFollows, NEW c \in Clients, NEW gone, Falls(c, gone)
  PROVE  TypeOK'
<1>. DEFINE as == {adapter[o] : o \in gone}
            queued == {a \in as : queue[a].st = "draining"}
            last == Active \subseteq gone /\ muxer # NoMuxer
            r == [pc |-> IF last THEN "muxer" ELSE "queues", stale |-> queued, close |-> as,
                  mux |-> IF last THEN muxer ELSE NoMuxer]
<1>1. as \subseteq Adapters /\ queued \subseteq Adapters
  BY TypeSets DEF Typed, Falls, Active
<1>2. r \in Requests
  BY <1>1, TypeSets DEF Typed, Requests
<1>3. ctl' = [ctl EXCEPT ![c] = r] /\ listed' = listed \ as
  BY DEF Falls, TakeDown
<1>4. muxer' \in Muxers \cup {NoMuxer} /\ lock' \in Clients \cup {NoClient}
  BY TypeSets DEF Typed, Falls, TakeDown
<1>. HIDE DEF as, queued, last, r
<1>5. ctl' \in [Clients -> Requests] /\ listed' \in SUBSET Adapters
  BY <1>2, <1>3, TypeSets DEF Typed
<1>6. adapter' \in [Outputs -> Adapters \cup {NoAdapter}]
  <2>1. adapter' = [o \in Outputs |-> IF o \in gone THEN NoAdapter ELSE adapter[o]]
    BY DEF Falls, TakeDown
  <2>. QED BY <2>1, TypeSets DEF Typed
<1>7. /\ pacer' \in [Muxers -> Pacers] /\ known' \in SUBSET Destinations /\ closed' \in BOOLEAN
      /\ UNCHANGED <<cbr, device, queue, mux, writer>>
  BY DEF Falls
<1>. QED BY <1>4, <1>5, <1>6, <1>7, TypeSets, TypeSetsNext DEF Typed

\* Stop, RemoveDestination and Close, and what they leave out of Falls.
LEMMA StopFalls ==
  ASSUME TypeOK, MuxerFollows, ClosedOnce, NEW c \in Clients, NEW o \in Outputs,
         Stop(c, o) \/ (RemoveDestination(c, o) /\ o \in Active)
  PROVE  Falls(c, {o})
<1>1. Locks(c) /\ o \in Active /\ TakeDown(c, {o})
  BY DEF Stop, RemoveDestination
<1>2. pacer' = IF cbr THEN [pacer EXCEPT ![muxer].list = @ \ {adapter[o]}] ELSE pacer
  BY DEF Stop, RemoveDestination
<1>3. known' \in SUBSET Destinations /\ closed' \in BOOLEAN /\ UNCHANGED <<cbr, device, queue, mux, writer>>
  <2>1. closed' = closed /\ (known' = known \/ known' = known \ {o}) /\ UNCHANGED <<cbr, device, queue, mux, writer>>
    BY DEF Stop, RemoveDestination
  <2>. QED BY <2>1, TypeSets DEF Typed
<1>4. /\ pacer' \in [Muxers -> Pacers] /\ \A m \in Muxers : pacer'[m].st = pacer[m].st
      /\ \A p \in Active \ {o} : Paced(p) /\ adapter[p] \in pacer[muxer].list => adapter[p] \in pacer'[muxer].list
  BY <1>1, <1>2, UnlistFacts
<1>. QED BY <1>1, <1>3, <1>4 DEF Falls

LEMMA CloseFalls ==
  ASSUME TypeOK, NEW c \in Clients, Close(c) PROVE Falls(c, Active)
  BY TypeSets DEF Typed, Close, Falls

LEMMA RequestTyping ==
  ASSUME TypeOK, MuxerFollows, ClosedOnce, NEW c \in Clients, Request(c)
  PROVE  TypeOK'
<1>1. ASSUME NEW o \in Outputs, AddDestination(c, o) PROVE TypeOK'
  BY <1>1, TypeSets, TypeSetsNext DEF Typed, AddDestination
<1>2. ASSUME NEW o \in Outputs, RemoveDestination(c, o), o \notin Active PROVE TypeOK'
  BY <1>2, TypeSets, TypeSetsNext DEF Typed, RemoveDestination
<1>3. ASSUME NEW o \in Outputs, Stop(c, o) \/ (RemoveDestination(c, o) /\ o \in Active) PROVE TypeOK'
  BY <1>3, StopFalls, FallsTyping
<1>4. ASSUME Close(c) PROVE TypeOK'
  BY <1>4, CloseFalls, FallsTyping
<1>. QED BY <1>1, <1>2, <1>3, <1>4, StartTyping DEF Request

LEMMA ContinueTyping ==
  ASSUME TypeOK, HeldAlone, NEW c \in Clients, Continue(c) PROVE TypeOK'
<1>0. ctl[c] \in Requests
  BY TypeSets DEF Typed
<1>1. CASE CloseMuxer(c)
  <2>1. ctl' \in [Clients -> Requests]
    <3>1. [ctl[c] EXCEPT !.pc = "pacer"] \in Requests /\ [ctl[c] EXCEPT !.pc = "queues", !.mux = NoMuxer] \in Requests
      BY <1>0, RequestFields
    <3>2. \/ ctl' = [ctl EXCEPT ![c] = [ctl[c] EXCEPT !.pc = "pacer"]]
          \/ ctl' = [ctl EXCEPT ![c] = [ctl[c] EXCEPT !.pc = "queues", !.mux = NoMuxer]]
      BY <1>1, TypeSets DEF Typed, CloseMuxer
    <3>. QED BY <3>1, <3>2, TypeSets DEF Typed
  <2>2. mux' \in [Muxers -> Muxes]
    <3>1. [st |-> "closed", init |-> FALSE] \in Muxes
      BY DEF Muxes
    <3>. QED BY <1>1, <3>1, TypeSets DEF Typed, CloseMuxer
  <2>3. lock' \in Clients \cup {NoClient}
    BY <1>1, TypeSets DEF Typed, CloseMuxer
  <2>4. UNCHANGED <<cbr, known, adapter, device, listed, queue, muxer, pacer, writer, closed>>
    BY <1>1 DEF CloseMuxer
  <2>. QED BY <2>1, <2>2, <2>3, <2>4, TypeSets, TypeSetsNext DEF Typed
<1>2. CASE StopPacer(c)
  <2>1. ctl[c].mux \in Muxers
    BY <1>2 DEF StopPacer, HeldAlone, Holding
  <2>2. [pacer[ctl[c].mux] EXCEPT !.st = "stopping"] \in Pacers
    BY <2>1, PacerFields, TypeSets DEF Typed
  <2>3. pacer' = [pacer EXCEPT ![ctl[c].mux] = [pacer[ctl[c].mux] EXCEPT !.st = "stopping"]]
    BY <1>2, <2>1, TypeSets DEF Typed, StopPacer
  <2>4. ctl' = [ctl EXCEPT ![c] = [ctl[c] EXCEPT !.pc = "drained"]]
    BY <1>2, TypeSets DEF Typed, StopPacer
  <2>5. pacer' \in [Muxers -> Pacers] /\ ctl' \in [Clients -> Requests]
    BY <1>0, <2>2, <2>3, <2>4, RequestFields, TypeSets DEF Typed
  <2>6. UNCHANGED <<cbr, known, adapter, device, listed, queue, muxer, mux, lock, writer, closed>>
    BY <1>2 DEF StopPacer
  <2>. QED BY <2>5, <2>6, TypeSets, TypeSetsNext DEF Typed
<1>3. CASE PacerStopped(c)
  <2>1. ctl' = [ctl EXCEPT ![c] = [ctl[c] EXCEPT !.pc = "queues", !.mux = NoMuxer]]
    BY <1>3, TypeSets DEF Typed, PacerStopped
  <2>2. ctl' \in [Clients -> Requests]
    BY <1>0, <2>1, RequestFields, TypeSets DEF Typed
  <2>. QED BY <1>3, <2>2, TypeSets, TypeSetsNext DEF Typed, PacerStopped
<1>4. CASE Return(c)
  BY <1>4, BlankTypes, TypeSets, TypeSetsNext DEF Typed, Return
<1>5. ASSUME NEW a \in Adapters, StopQueue(c, a) PROVE TypeOK'
  <2>1. queue' = [queue EXCEPT ![a] = [queue[a] EXCEPT !.st = "stopping"]]
    BY <1>5, TypeSets DEF Typed, StopQueue
  <2>2. queue' \in [Adapters -> Queues] /\ \A b \in Adapters : Len(queue'[b].packets) <= QueueCap
    BY <2>1, QueueFields, QueueTyping, TypeSets DEF Typed
  <2>. QED BY <1>5, <2>2, TypeSets, TypeSetsNext DEF Typed, StopQueue
<1>6. ASSUME NEW a \in Adapters, QueueStopped(c, a) PROVE TypeOK'
  <2>1. ctl' = [ctl EXCEPT ![c] = [ctl[c] EXCEPT !.stale = @ \ {a}]] /\ ctl[c].stale \ {a} \in SUBSET Adapters
    BY <1>0, <1>6, RequestFields, TypeSets DEF Typed, QueueStopped
  <2>2. ctl' \in [Clients -> Requests]
    BY <1>0, <2>1, RequestFields, TypeSets DEF Typed
  <2>. QED BY <1>6, <2>2, TypeSets, TypeSetsNext DEF Typed, QueueStopped
<1>7. ASSUME NEW a \in Adapters, CloseAdapter(c, a) PROVE TypeOK'
  <2>1. ctl' = [ctl EXCEPT ![c] = [ctl[c] EXCEPT !.close = @ \ {a}]] /\ ctl[c].close \ {a} \in SUBSET Adapters
    BY <1>0, <1>7, RequestFields, TypeSets DEF Typed, CloseAdapter
  <2>2. ctl' \in [Clients -> Requests]
    BY <1>0, <2>1, RequestFields, TypeSets DEF Typed
  <2>. QED BY <1>7, <2>2, TypeSets, TypeSetsNext DEF Typed, CloseAdapter
<1>. QED BY <1>1, <1>2, <1>3, <1>4, <1>5, <1>6, <1>7 DEF Continue

LEMMA WriterTyping ==
  ASSUME TypeOK, NEW w \in Writers, LoadMuxer(w) \/ Deliver(w) PROVE TypeOK'
<1>0. writer[w] \in Writes
  BY TypeSets DEF Typed
<1>1. CASE LoadMuxer(w)
  <2>1. [pc |-> "loaded", mux |-> muxer, todo |-> {}] \in Writes
    BY TypeSets DEF Typed, Writes
  <2>. QED BY <1>1, <2>1, TypeSets, TypeSetsNext DEF Typed, LoadMuxer
<1>2. CASE Write(w)
  <2>1. [writer[w] EXCEPT !.pc = "output", !.todo = listed] \in Writes
    BY <1>0, TypeSets DEF Typed, Writes
  <2>2. writer' \in [Writers -> Writes]
    <3>1. \/ writer' = [writer EXCEPT ![w] = [writer[w] EXCEPT !.pc = "output", !.todo = listed]]
          \/ writer' = [writer EXCEPT ![w] = Resting]
      BY <1>2, TypeSets DEF Typed, Write
    <3>. QED BY <2>1, <3>1, BlankTypes, TypeSets DEF Typed
  <2>3. mux' \in [Muxers -> Muxes]
    <3>1. \A m \in Muxers : [mux[m] EXCEPT !.init = TRUE] \in Muxes
      BY TypeSets DEF Typed, Muxes
    <3>2. mux' = mux \/ \E m : mux' = [mux EXCEPT ![m].init = TRUE]
      BY <1>2 DEF Write
    <3>. QED BY <3>1, <3>2, TypeSets DEF Typed
  <2>4. UNCHANGED <<cbr, known, adapter, device, listed, queue, muxer, pacer, lock, ctl, closed>>
    BY <1>2 DEF Write
  <2>. QED BY <2>2, <2>3, <2>4, TypeSets, TypeSetsNext DEF Typed
<1>3. ASSUME NEW a \in Adapters, Enqueue(w, a) PROVE TypeOK'
  <2>1. queue' \in [Adapters -> Queues] /\ \A b \in Adapters : Len(queue'[b].packets) <= QueueCap
    <3>1. CASE Len(queue[a].packets) < QueueCap
      <4>1. PICK p \in {"early", "late"} : queue' = [queue EXCEPT ![a] = [queue[a] EXCEPT !.packets = Append(@, p)]]
        BY <1>3, <3>1, TypeSets DEF Typed, Enqueue
      <4>. QED BY <3>1, <4>1, QueueFields, QueueTyping, TypeSets DEF Typed
    <3>2. CASE ~ Len(queue[a].packets) < QueueCap
      BY <1>3, <3>2, TypeSets DEF Typed, Enqueue
    <3>. QED BY <3>1, <3>2
  <2>2. writer' = [writer EXCEPT ![w] = [writer[w] EXCEPT !.todo = @ \ {a}]]
    BY <1>3, TypeSets DEF Typed, Enqueue
  <2>3. [writer[w] EXCEPT !.todo = @ \ {a}] \in Writes
    BY <1>0 DEF Writes
  <2>4. writer' \in [Writers -> Writes]
    BY <2>2, <2>3, TypeSets DEF Typed
  <2>5. UNCHANGED <<cbr, known, adapter, device, listed, muxer, mux, pacer, lock, ctl, closed>>
    BY <1>3 DEF Enqueue
  <2>. QED BY <2>1, <2>4, <2>5, TypeSets, TypeSetsNext DEF Typed
<1>4. CASE EnqueuePaced(w)
  <2>1. pacer' \in [Muxers -> Pacers]
    <3>1. CASE cbr /\ muxer # NoMuxer
      <4>1. muxer \in Muxers /\ pacer[muxer] \in Pacers
        BY <3>1, TypeSets DEF Typed
      <4>2. pacer' = [pacer EXCEPT ![muxer] = [pacer[muxer] EXCEPT !.data = TRUE]]
        BY <1>4, <3>1, <4>1, TypeSets DEF Typed, EnqueuePaced
      <4>. QED BY <4>1, <4>2, PacerFields, TypeSets DEF Typed
    <3>2. CASE ~ (cbr /\ muxer # NoMuxer)
      BY <1>4, <3>2, TypeSets DEF Typed, EnqueuePaced
    <3>. QED BY <3>1, <3>2
  <2>. QED BY <1>4, <2>1, BlankTypes, TypeSets, TypeSetsNext DEF Typed, EnqueuePaced
<1>. QED BY <1>1, <1>2, <1>3, <1>4 DEF Deliver

LEMMA DrainTyping ==
  ASSUME TypeOK, NEW a \in Adapters, Drain(a) PROVE TypeOK'
<1>1. queue[a] \in Queues /\ Len(queue[a].packets) <= QueueCap
  BY TypeSets DEF Typed
<1>2. \/ queue[a].packets # <<>> /\ queue' = [queue EXCEPT ![a] = [queue[a] EXCEPT !.packets = Tail(@)]]
      \/ queue' = [queue EXCEPT ![a] = [queue[a] EXCEPT !.st = "done"]]
  BY TypeSets DEF Typed, Drain, DrainOne, DrainEnd
<1>3. queue' \in [Adapters -> Queues] /\ \A b \in Adapters : Len(queue'[b].packets) <= QueueCap
  BY <1>1, <1>2, QueueFields, QueueTyping
<1>4. UNCHANGED <<cbr, known, adapter, device, listed, muxer, mux, pacer, lock, ctl, writer, closed>>
  BY DEF Drain, DrainOne, DrainEnd
<1>. QED BY <1>3, <1>4, TypeSets, TypeSetsNext DEF Typed

LEMMA PaceTyping ==
  ASSUME TypeOK, NEW m \in Muxers, Pace(m) PROVE TypeOK'
<1>1. pacer[m] \in Pacers
  BY TypeSets DEF Typed
<1>2. \/ pacer' = [pacer EXCEPT ![m] = [pacer[m] EXCEPT !.data = FALSE]]
      \/ pacer' = [pacer EXCEPT ![m] = [NoPacer EXCEPT !.st = "done"]]
  BY TypeSets DEF Typed, Pace, PacerTick, PacerEnd
<1>3. pacer' \in [Muxers -> Pacers]
  BY <1>1, <1>2, PacerFields, TypeSets DEF Typed
<1>4. UNCHANGED <<cbr, known, adapter, device, listed, queue, muxer, mux, lock, ctl, writer, closed>>
  BY DEF Pace, PacerTick, PacerEnd
<1>. QED BY <1>3, <1>4, TypeSets, TypeSetsNext DEF Typed

LEMMA StepTyping == OutInv /\ [Next]_vars => TypeOK'
<1>. SUFFICES ASSUME OutInv, [Next]_vars PROVE TypeOK'
  OBVIOUS
<1>1. CASE UNCHANGED vars
  BY <1>1, TypeSets, TypeSetsNext DEF OutInv, Typed, vars
<1>. QED
  BY <1>1, RequestTyping, ContinueTyping, WriterTyping, DrainTyping, PaceTyping DEF OutInv, Next

LEMMA InitInv == Init => OutInv
<1>. SUFFICES ASSUME Init PROVE OutInv
  OBVIOUS
<1>1. TypeOK
  BY InitTyping
<1>2. /\ Active = {} /\ listed = {} /\ muxer = NoMuxer
      /\ \A c \in Clients : ctl[c].pc = "idle" /\ ctl[c].close = {} /\ ctl[c].stale = {}
      /\ \A a \in Adapters : device[a] = "none" /\ queue[a].st = "none" /\ queue[a].packets = <<>>
  BY DEF Init, Active, Idle, NoQueue
<1>. QED BY <1>1, <1>2 DEF OutInv, HeldAlone, Holding, MuxerFollows, ListFollows, ActiveServed, ClosedOnce,
            StaleFirst, EndedDrained

\* Steps that leave the outputs alone: no queue or pacer that serves one changes its state.
LEMMA SameOutputs ==
  ASSUME OutInv, UNCHANGED <<cbr, adapter, device, listed, muxer>>,
         \A a \in Adapters : queue'[a].st = queue[a].st \/ \A o \in Active : adapter[o] # a,
         \A m \in Muxers : m = muxer /\ cbr => pacer'[m].st = pacer[m].st /\ pacer'[m].list = pacer[m].list
  PROVE  MuxerFollows' /\ ListFollows' /\ ActiveServed' /\ Active' = Active
<1>1. Active' = Active /\ \A o : Paced(o)' = Paced(o)
  BY DEF Active, Paced
<1>2. MuxerFollows'
  BY <1>1, TypeSets DEF Typed, OutInv, MuxerFollows
<1>3. ListFollows'
  BY <1>1 DEF OutInv, ListFollows
<1>4. ASSUME NEW o \in Active
      PROVE  /\ device'[adapter'[o]] = "open"
             /\ Paced(o) => queue'[adapter'[o]].st = "none" /\ adapter'[o] \in pacer'[muxer'].list
             /\ ~ Paced(o) => queue'[adapter'[o]].st = "draining"
  <2>1. o \in Outputs /\ adapter[o] \in Adapters /\ muxer \in Muxers
    BY <1>4, TypeSets DEF Typed, OutInv, Active, MuxerFollows
  <2>2. queue'[adapter[o]].st = queue[adapter[o]].st /\ (Paced(o) => cbr)
    BY <1>4, <2>1 DEF Paced
  <2>. QED BY <1>4, <2>1, <2>2 DEF OutInv, ActiveServed
<1>5. ActiveServed'
  BY <1>1, <1>4 DEF ActiveServed
<1>. QED BY <1>1, <1>2, <1>3, <1>5

\* An output starts: its adapter was in nobody's hands.
LEMMA StartInv ==
  ASSUME OutInv, TypeOK', NEW c \in Clients, NEW o \in Outputs, Start(c, o) PROVE OutInv'
<1>1. PICK a \in Adapters, m \in Muxers : Starts(c, o, a, m)
  BY StartFacts DEF OutInv
<1>2. /\ adapter' = [adapter EXCEPT ![o] = a] /\ device' = [device EXCEPT ![a] = "open"]
      /\ listed' = IF Paced(o) THEN listed ELSE listed \cup {a}
      /\ muxer' = m /\ (muxer # NoMuxer => m = muxer)
      /\ lock = NoClient /\ ctl' = ctl /\ lock' = lock /\ cbr' = cbr
      /\ adapter[o] = NoAdapter /\ device[a] # "open"
  BY <1>1 DEF Starts, Locks
<1>3. /\ Active' = Active \cup {o} /\ o \notin Active /\ \A p : Paced(p)' = Paced(p)
      /\ \A p \in Active : adapter'[p] = adapter[p] /\ adapter[p] \in Adapters
      /\ adapter'[o] = a
  BY <1>2, TypeSets, NilAssumption DEF Typed, OutInv, Active, Paced
<1>4. \A p \in Active : adapter[p] # a
  BY <1>2 DEF OutInv, ActiveServed
<1>5. \A d \in Clients : a \notin ctl[d].close
  BY <1>2 DEF OutInv, ClosedOnce
<1>6. /\ queue'[a] = IF Paced(o) THEN NoQueue ELSE [st |-> "draining", packets |-> <<>>]
      /\ \A b \in Adapters : b # a => queue'[b] = queue[b]
  BY <1>1, TypeSets DEF Typed, OutInv, Starts
<1>7. /\ pacer'[m].list = {adapter'[p] : p \in {q \in Outputs : Paced(q) /\ adapter'[q] # NoAdapter}} \/ ~ cbr
      /\ cbr => pacer'[m].st = "running"
  <2>1. PICK paced \in SUBSET Adapters :
         /\ paced = {adapter'[p] : p \in {q \in Outputs : Paced(q) /\ adapter'[q] # NoAdapter}}
         /\ pacer' = [pacer EXCEPT ![m] = IF muxer # NoMuxer THEN IF cbr THEN [pacer[m] EXCEPT !.list = paced] ELSE pacer[m]
                                          ELSE IF cbr THEN [st |-> "running", data |-> FALSE, list |-> paced] ELSE NoPacer]
    BY <1>1 DEF Starts
  <2>2. pacer[m] \in Pacers
    BY TypeSets DEF Typed, OutInv
  <2>3. CASE muxer # NoMuxer /\ cbr
    <3>1. pacer[m].st = "running"
      BY <1>2, <2>3 DEF OutInv, MuxerFollows
    <3>2. pacer'[m] = [pacer[m] EXCEPT !.list = paced]
      BY <2>1, <2>3, TypeSets DEF Typed, OutInv
    <3>3. [pacer[m] EXCEPT !.list = paced].list = paced /\ [pacer[m] EXCEPT !.list = paced].st = pacer[m].st
      BY <2>2 DEF Pacers
    <3>. QED BY <2>1, <3>1, <3>2, <3>3
  <2>4. CASE muxer = NoMuxer /\ cbr
    <3>1. pacer'[m] = [st |-> "running", data |-> FALSE, list |-> paced]
      BY <2>1, <2>4, TypeSets DEF Typed, OutInv
    <3>. QED BY <2>1, <3>1
  <2>. QED BY <2>3, <2>4
<1>8. HeldAlone'
  BY <1>2, NilAssumption DEF OutInv, HeldAlone, Holding
<1>9. MuxerFollows'
  BY <1>2, <1>3, <1>7, NilAssumption DEF MuxerFollows
<1>10. ListFollows'
  <2>1. listed = {adapter[p] : p \in {q \in Active : ~ Paced(q)}}
    BY DEF OutInv, ListFollows
  <2>2. CASE Paced(o)
    BY <1>2, <1>3, <2>1, <2>2 DEF ListFollows
  <2>3. CASE ~ Paced(o)
    BY <1>2, <1>3, <2>1, <2>3 DEF ListFollows
  <2>. QED BY <2>2, <2>3
<1>11. ActiveServed'
  <2>1. ASSUME NEW p \in Active'
        PROVE  /\ device'[adapter'[p]] = "open"
               /\ Paced(p)' => queue'[adapter'[p]].st = "none" /\ adapter'[p] \in pacer'[muxer'].list
               /\ ~ Paced(p)' => queue'[adapter'[p]].st = "draining"
    <3>1. Paced(p) => cbr /\ adapter'[p] \in pacer'[m].list
      BY <1>3, <1>7, <2>1 DEF Paced, Active
    <3>2. CASE p = o
      BY <1>2, <1>3, <1>6, <3>1, <3>2, TypeSets DEF Typed, OutInv, NoQueue
    <3>3. CASE p # o
      <4>1. p \in Active /\ adapter'[p] = adapter[p] /\ adapter[p] \in Adapters /\ adapter[p] # a
        BY <1>3, <1>4, <2>1, <3>3
      <4>2. queue'[adapter[p]] = queue[adapter[p]] /\ device'[adapter[p]] = device[adapter[p]]
        BY <1>2, <1>6, <4>1, TypeSets DEF Typed, OutInv
      <4>. QED BY <1>2, <1>3, <3>1, <4>1, <4>2 DEF OutInv, ActiveServed
    <3>. QED BY <3>2, <3>3
  <2>. QED BY <2>1 DEF ActiveServed
<1>12. ClosedOnce'
  <2>1. \A p, q \in Active' : adapter'[p] = adapter'[q] => p = q
    BY <1>3, <1>4 DEF OutInv, ClosedOnce
  <2>2. ASSUME NEW d \in Clients, NEW b \in ctl[d].close
        PROVE  /\ device'[b] = "open" /\ \A p \in Outputs : adapter'[p] # b
               /\ \A e \in Clients \ {d} : b \notin ctl[e].close
    <3>1. b # a /\ b \in Adapters
      BY <1>5, RequestFields, TypeSets DEF Typed, OutInv
    <3>. QED BY <1>2, <3>1, TypeSets DEF Typed, OutInv, ClosedOnce
  <2>. QED BY <1>2, <2>1, <2>2 DEF ClosedOnce
<1>13. StaleFirst'
  <2>1. \A d \in Clients : \A b \in ctl[d].close : b # a /\ b \in Adapters
    BY <1>5, RequestFields, TypeSets DEF Typed, OutInv
  <2>. QED BY <1>2, <1>6, <2>1 DEF OutInv, StaleFirst
<1>14. EndedDrained'
  BY <1>2, <1>6, TypeSets DEF Typed, OutInv, EndedDrained, NoQueue
<1>. QED BY <1>8, <1>9, <1>10, <1>11, <1>12, <1>13, <1>14 DEF OutInv

\* Outputs stop: their adapters pass to the request, and with the last one the muxer.
LEMMA FallsInv ==
  ASSUME OutInv, TypeOK', NEW c \in Clients, NEW gone, Falls(c, gone) PROVE OutInv'
<1>. DEFINE as == {adapter[o] : o \in gone}
            last == Active \subseteq gone /\ muxer # NoMuxer
<1>1. /\ gone \subseteq Active /\ lock = NoClient
      /\ listed' = listed \ as
      /\ UNCHANGED <<cbr, device, queue>>
      /\ \A m \in Muxers : pacer'[m].st = pacer[m].st
  BY DEF Falls, Locks, TakeDown
<1>2. /\ lock' = IF last THEN c ELSE NoClient
      /\ muxer' = IF last THEN NoMuxer ELSE muxer
  BY DEF Falls, TakeDown
<1>3. /\ ctl'[c].pc = IF last THEN "muxer" ELSE "queues"
      /\ ctl'[c].close = as /\ ctl'[c].stale = {a \in as : queue[a].st = "draining"}
      /\ ctl'[c].mux = IF last THEN muxer ELSE NoMuxer
      /\ \A d \in Clients : d # c => ctl'[d] = ctl[d]
  BY TypeSets DEF Falls, TakeDown, Typed, OutInv
<1>4. /\ Active' = Active \ gone /\ \A p : Paced(p)' = Paced(p)
      /\ \A p \in Active \ gone : adapter'[p] = adapter[p]
      /\ \A p \in Outputs \ (Active \ gone) : adapter'[p] = NoAdapter
      /\ \A p \in Active : adapter[p] \in Adapters
      /\ Active \subseteq Outputs
  BY <1>1, TypeSets, NilAssumption DEF Falls, TakeDown, Typed, OutInv, Active, Paced
<1>5. as \subseteq Adapters /\ \A p \in Active \ gone : adapter[p] \notin as
  BY <1>1, <1>4 DEF OutInv, ClosedOnce
<1>6. \A d \in Clients : \A b \in ctl[d].close : b \notin as
  BY <1>1, <1>4 DEF OutInv, ClosedOnce
<1>7. HeldAlone'
  <2>1. \A d \in Clients : ~ Holding(d)
    BY <1>1, NilAssumption DEF OutInv, HeldAlone
  <2>2. muxer \in Muxers \cup {NoMuxer}
    BY TypeSets DEF Typed, OutInv
  <2>. QED BY <1>2, <1>3, <2>1, <2>2 DEF HeldAlone, Holding
<1>8. MuxerFollows'
  <2>1. muxer \in Muxers \cup {NoMuxer}
    BY TypeSets DEF Typed, OutInv
  <2>. QED BY <1>1, <1>2, <1>4, <2>1 DEF OutInv, MuxerFollows
<1>9. ListFollows'
  <2>1. listed = {adapter[p] : p \in {q \in Active : ~ Paced(q)}}
    BY DEF OutInv, ListFollows
  <2>2. listed' = {adapter[p] : p \in {q \in Active \ gone : ~ Paced(q)}}
    BY <1>1, <1>5, <2>1
  <2>3. {adapter[p] : p \in {q \in Active \ gone : ~ Paced(q)}}
          = {adapter'[p] : p \in {q \in Active' : ~ Paced(q)'}}
    BY <1>4
  <2>. QED BY <2>2, <2>3 DEF ListFollows
<1>10. ActiveServed'
  <2>1. ASSUME NEW p \in Active'
        PROVE  /\ device'[adapter'[p]] = "open"
               /\ Paced(p)' => queue'[adapter'[p]].st = "none" /\ adapter'[p] \in pacer'[muxer'].list
               /\ ~ Paced(p)' => queue'[adapter'[p]].st = "draining"
    <3>1. p \in Active \ gone /\ adapter'[p] = adapter[p] /\ muxer' = muxer
      BY <1>2, <1>4, <2>1
    <3>2. Paced(p) /\ adapter[p] \in pacer[muxer].list => adapter[p] \in pacer'[muxer].list
      BY <3>1 DEF Falls
    <3>. QED BY <1>1, <1>4, <3>1, <3>2 DEF OutInv, ActiveServed
  <2>. QED BY <2>1 DEF ActiveServed
<1>11. ClosedOnce'
  <2>1. \A p, q \in Active' : adapter'[p] = adapter'[q] => p = q
    BY <1>4 DEF OutInv, ClosedOnce
  <2>2. \A b \in as : device[b] = "open" /\ \A p \in Outputs : adapter'[p] # b
    <3>1. \A b \in as : device[b] = "open"
      BY <1>1 DEF OutInv, ActiveServed
    <3>. QED BY <1>4, <1>5, <3>1, NilAssumption
  <2>3. ASSUME NEW d \in Clients, d # c, NEW b \in ctl[d].close
        PROVE  /\ device[b] = "open" /\ \A p \in Outputs : adapter'[p] # b
               /\ \A e \in Clients \ {d} : b \notin ctl'[e].close
    <3>1. b \in Adapters
      BY RequestFields, TypeSets DEF Typed, OutInv
    <3>. QED BY <1>3, <1>4, <1>6, <2>3, <3>1, NilAssumption DEF OutInv, ClosedOnce
  <2>4. \A b \in as : \A e \in Clients \ {c} : b \notin ctl'[e].close
    BY <1>3, <1>6
  <2>. QED BY <1>1, <1>3, <2>1, <2>2, <2>3, <2>4 DEF ClosedOnce
<1>12. StaleFirst'
  <2>1. \A b \in as : queue[b].st \in {"none", "draining"}
    BY <1>1 DEF OutInv, ActiveServed
  <2>. QED BY <1>1, <1>3, <2>1 DEF OutInv, StaleFirst
<1>13. EndedDrained'
  BY <1>1 DEF OutInv, EndedDrained
<1>. QED BY <1>7, <1>8, <1>9, <1>10, <1>11, <1>12, <1>13 DEF OutInv

\* A request on its way changes nobody else's.
LEMMA Advances ==
  ASSUME OutInv, TypeOK', NEW c \in Clients, Continue(c)
  PROVE  /\ \A d \in Clients : d # c => ctl'[d] = ctl[d]
         /\ UNCHANGED <<cbr, adapter, listed, muxer>>
  BY TypeSets DEF Typed, OutInv, Continue, CloseMuxer, StopPacer, PacerStopped, Return, StopQueue, QueueStopped,
     CloseAdapter

\* stopMuxerLocked: the request that holds m.mu, alone, and the muxer it took down.
LEMMA HolderInv ==
  ASSUME OutInv, TypeOK', NEW c \in Clients, CloseMuxer(c) \/ StopPacer(c) \/ PacerStopped(c)
  PROVE  OutInv'
<1>1. /\ Holding(c) /\ lock = c /\ muxer = NoMuxer /\ ctl[c].mux \in Muxers
  BY DEF OutInv, HeldAlone, Holding, CloseMuxer, StopPacer, PacerStopped
<1>2. UNCHANGED <<cbr, adapter, device, listed, muxer, queue>>
  BY DEF CloseMuxer, StopPacer, PacerStopped
<1>3. \A d \in Clients : d # c => ctl'[d] = ctl[d] /\ ~ Holding(d)
  BY <1>1, Advances DEF OutInv, HeldAlone, Continue
<1>4. /\ ctl'[c].close = ctl[c].close /\ ctl'[c].stale = ctl[c].stale
      /\ \/ ctl'[c].pc \in {"pacer", "drained"} /\ lock' = lock /\ ctl'[c].mux = ctl[c].mux
         \/ ctl'[c].pc = "queues"
  <2>1. ctl[c] \in Requests
    BY TypeSets DEF Typed, OutInv
  <2>2. \/ lock' = lock /\ ctl'[c] = [ctl[c] EXCEPT !.pc = "pacer"]
        \/ lock' = lock /\ ctl'[c] = [ctl[c] EXCEPT !.pc = "drained"]
        \/ ctl'[c] = [ctl[c] EXCEPT !.pc = "queues", !.mux = NoMuxer]
    BY TypeSets DEF Typed, OutInv, CloseMuxer, StopPacer, PacerStopped
  <2>. QED BY <2>1, <2>2 DEF Requests
<1>5. HeldAlone'
  BY <1>1, <1>2, <1>3, <1>4 DEF HeldAlone, Holding
<1>6. MuxerFollows' /\ ListFollows' /\ ActiveServed' /\ Active' = Active
  <2>1. \A m \in Muxers : m # muxer
    BY <1>1, NilAssumption
  <2>. QED BY <1>2, <2>1, SameOutputs
<1>7. \A d \in Clients : ctl'[d].close = ctl[d].close /\ ctl'[d].stale = ctl[d].stale
  BY <1>3, <1>4
<1>8. ClosedOnce' /\ StaleFirst' /\ EndedDrained'
  BY <1>2, <1>6, <1>7 DEF OutInv, ClosedOnce, StaleFirst, EndedDrained
<1>. QED BY <1>5, <1>6, <1>8 DEF OutInv

\* After the unlock: the stale queues are ended, then the adapters are closed.
LEMMA QueuesInv ==
  ASSUME OutInv, TypeOK', NEW c \in Clients, NEW a,
         \/ a \in Adapters /\ (StopQueue(c, a) \/ QueueStopped(c, a) \/ CloseAdapter(c, a))
         \/ Return(c)
  PROVE  OutInv'
<1>1. /\ ctl[c].pc = "queues" /\ UNCHANGED <<cbr, adapter, listed, muxer, pacer, lock>>
      /\ \A d \in Clients : d # c => ctl'[d] = ctl[d]
  BY Advances DEF Continue, StopQueue, QueueStopped, CloseAdapter, Return
<1>2. /\ ~ Holding(c)' /\ ctl'[c].close \subseteq ctl[c].close
      /\ ctl[c] \in Requests
  <2>1. ctl[c] \in Requests
    BY TypeSets DEF Typed, OutInv
  <2>2. \/ ctl'[c] = ctl[c]
        \/ ctl'[c] = [ctl[c] EXCEPT !.stale = @ \ {a}]
        \/ ctl'[c] = [ctl[c] EXCEPT !.close = @ \ {a}]
        \/ ctl'[c] = Idle
    BY TypeSets DEF Typed, OutInv, StopQueue, QueueStopped, CloseAdapter, Return
  <2>. QED BY <1>1, <2>1, <2>2 DEF Requests, Idle, Holding
<1>3. HeldAlone'
  BY <1>1, <1>2 DEF OutInv, HeldAlone, Holding
<1>4. \A d \in Clients : ctl'[d].close \subseteq ctl[d].close /\ ctl[d].close \subseteq Adapters
  BY <1>1, <1>2, RequestFields, TypeSets DEF Typed, OutInv
<1>5. \A d \in Clients : \A b \in ctl[d].stale : \A o \in Active : adapter[o] # b
  BY TypeSets DEF Typed, OutInv, StaleFirst, ClosedOnce, Active
<1>6. CASE StopQueue(c, a)
  <2>1. /\ queue[a].st = "draining" /\ queue'[a].st = "stopping"
        /\ \A b \in Adapters : b # a => queue'[b] = queue[b]
        /\ ctl' = ctl /\ device' = device /\ a \in ctl[c].stale
    <3>1. a \in Adapters /\ queue[a] \in Queues
      BY <1>2, <1>6, TypeSets DEF Typed, OutInv, StopQueue, Requests
    <3>2. queue' = [queue EXCEPT ![a] = [queue[a] EXCEPT !.st = "stopping"]]
      BY <1>6, <3>1, TypeSets DEF Typed, OutInv, StopQueue
    <3>. QED BY <1>6, <3>1, <3>2, TypeSets DEF Typed, OutInv, StopQueue, Queues
  <2>2. MuxerFollows' /\ ListFollows' /\ ActiveServed' /\ Active' = Active
    BY <1>1, <1>5, <2>1, SameOutputs
  <2>3. ClosedOnce'
    BY <1>1, <2>1, <2>2 DEF OutInv, ClosedOnce
  <2>4. StaleFirst' /\ EndedDrained'
    BY <1>4, <2>1 DEF OutInv, StaleFirst, EndedDrained
  <2>. QED BY <1>3, <2>2, <2>3, <2>4 DEF OutInv
<1>7. CASE QueueStopped(c, a) \/ Return(c)
  <2>1. queue' = queue /\ device' = device
    BY <1>7 DEF QueueStopped, Return
  <2>2. MuxerFollows' /\ ListFollows' /\ ActiveServed' /\ Active' = Active
    BY <1>1, <2>1, SameOutputs
  <2>3. ClosedOnce'
    BY <1>1, <1>4, <2>1, <2>2 DEF OutInv, ClosedOnce
  <2>4. StaleFirst'
    <3>1. CASE QueueStopped(c, a)
      <4>1. ctl'[c] = [ctl[c] EXCEPT !.stale = @ \ {a}] /\ queue[a].st = "done"
        BY <3>1, TypeSets DEF Typed, OutInv, QueueStopped
      <4>2. ctl'[c].stale = ctl[c].stale \ {a} /\ ctl'[c].close = ctl[c].close
        BY <1>2, <4>1 DEF Requests
      <4>. QED BY <1>1, <2>1, <4>1, <4>2 DEF OutInv, StaleFirst
    <3>2. CASE Return(c)
      <4>1. ctl'[c].stale = {} /\ ctl'[c].close = {}
        BY <3>2, TypeSets DEF Typed, OutInv, Return, Idle
      <4>. QED BY <1>1, <2>1, <4>1 DEF OutInv, StaleFirst
    <3>. QED BY <1>7, <3>1, <3>2
  <2>5. EndedDrained'
    BY <2>1 DEF OutInv, EndedDrained
  <2>. QED BY <1>3, <2>2, <2>3, <2>4, <2>5 DEF OutInv
<1>8. CASE CloseAdapter(c, a)
  <2>1. /\ queue' = queue /\ device' = [device EXCEPT ![a] = "closed"]
        /\ ctl[c].stale = {} /\ a \in ctl[c].close
        /\ ctl'[c] = [ctl[c] EXCEPT !.close = @ \ {a}]
    BY <1>8, TypeSets DEF Typed, OutInv, CloseAdapter
  <2>2. ctl'[c].close = ctl[c].close \ {a} /\ ctl'[c].stale = {}
    BY <1>2, <2>1 DEF Requests
  <2>3. /\ \A o \in Active : adapter[o] # a
        /\ \A d \in Clients \ {c} : a \notin ctl[d].close
        /\ queue[a].st \in {"none", "done"}
    BY <2>1 DEF OutInv, ClosedOnce, StaleFirst, Active
  <2>4. Active' = Active /\ \A o : Paced(o)' = Paced(o)
    BY <1>1 DEF Active, Paced
  <2>5. MuxerFollows' /\ ListFollows'
    BY <1>1, <2>4 DEF OutInv, MuxerFollows, ListFollows
  <2>6. \A b \in Adapters : b # a => device'[b] = device[b]
    BY <2>1, TypeSets DEF Typed, OutInv
  <2>7. ActiveServed'
    <3>1. \A o \in Active : adapter[o] \in Adapters
      BY TypeSets DEF Typed, OutInv, Active
    <3>. QED BY <1>1, <2>1, <2>3, <2>4, <2>6, <3>1 DEF OutInv, ActiveServed
  <2>8. ClosedOnce'
    <3>1. \A d \in Clients : \A b \in ctl'[d].close : b \in ctl[d].close /\ b # a /\ b \in Adapters
      BY <1>1, <1>4, <2>2, <2>3
    <3>. QED BY <1>1, <2>4, <2>6, <3>1 DEF OutInv, ClosedOnce
  <2>9. StaleFirst'
    BY <1>1, <2>1, <2>2 DEF OutInv, StaleFirst
  <2>10. EndedDrained'
    BY <2>1, <2>3, <2>6 DEF OutInv, EndedDrained
  <2>. QED BY <1>3, <2>5, <2>7, <2>8, <2>9, <2>10 DEF OutInv
<1>. QED BY <1>6, <1>7, <1>8

\* Writers fill queues and pacers; the drain of a queue ends when it is empty.
LEMMA QueueInv ==
  ASSUME OutInv, TypeOK', NEW a \in Adapters,
         UNCHANGED <<cbr, adapter, device, listed, muxer, lock, ctl>>,
         \A b \in Adapters : b # a => queue'[b] = queue[b],
         \/ queue'[a].st = queue[a].st
         \/ queue[a].st = "stopping" /\ queue'[a].st = "done",
         queue'[a].st \in {"none", "done"} =>
           \A i \in 1 .. Len(queue'[a].packets) : queue'[a].packets[i] = "late",
         \A m \in Muxers : m = muxer /\ cbr => pacer'[m].st = pacer[m].st /\ pacer'[m].list = pacer[m].list
  PROVE  OutInv'
<1>1. queue'[a].st = queue[a].st \/ \A o \in Active : adapter[o] # a
  BY DEF OutInv, ActiveServed
<1>2. MuxerFollows' /\ ListFollows' /\ ActiveServed' /\ Active' = Active
  BY <1>1, SameOutputs
<1>3. HeldAlone' /\ ClosedOnce'
  BY <1>2 DEF OutInv, HeldAlone, Holding, ClosedOnce
<1>4. StaleFirst'
  <2>1. \A d \in Clients : ctl[d].close \subseteq Adapters
    BY RequestFields, TypeSets DEF Typed, OutInv
  <2>. QED BY <2>1 DEF OutInv, StaleFirst
<1>5. EndedDrained'
  BY DEF OutInv, EndedDrained
<1>. QED BY <1>2, <1>3, <1>4, <1>5 DEF OutInv

LEMMA PacerInv ==
  ASSUME OutInv, TypeOK', UNCHANGED <<cbr, adapter, device, listed, muxer, lock, ctl, queue>>,
         \A m \in Muxers : m = muxer /\ cbr => pacer'[m].st = pacer[m].st /\ pacer'[m].list = pacer[m].list
  PROVE  OutInv'
<1>1. MuxerFollows' /\ ListFollows' /\ ActiveServed' /\ Active' = Active
  BY SameOutputs
<1>2. HeldAlone' /\ ClosedOnce' /\ StaleFirst' /\ EndedDrained'
  BY <1>1 DEF OutInv, HeldAlone, Holding, ClosedOnce, StaleFirst, EndedDrained
<1>. QED BY <1>1, <1>2 DEF OutInv

LEMMA WriterInv ==
  ASSUME OutInv, TypeOK', NEW w \in Writers, LoadMuxer(w) \/ Deliver(w) PROVE OutInv'
<1>1. CASE LoadMuxer(w) \/ Write(w)
  BY <1>1, PacerInv DEF LoadMuxer, Write
<1>2. ASSUME NEW a \in Adapters, Enqueue(w, a) PROVE OutInv'
  <2>. DEFINE p == IF queue[a].st = "draining" THEN "early" ELSE "late"
  <2>1. queue[a] \in Queues
    BY TypeSets DEF Typed, OutInv
  <2>2. queue' = queue \/ queue' = [queue EXCEPT ![a] = [queue[a] EXCEPT !.packets = Append(@, p)]]
    BY <1>2, TypeSets DEF Typed, OutInv, Enqueue
  <2>3. \/ queue'[a] = queue[a]
        \/ queue'[a].st = queue[a].st /\ queue'[a].packets = Append(queue[a].packets, p)
    BY <2>1, <2>2, TypeSets DEF Typed, OutInv, Queues
  <2>4. queue'[a].st \in {"none", "done"} =>
          \A i \in 1 .. Len(queue'[a].packets) : queue'[a].packets[i] = "late"
    <3>1. queue[a].packets \in Seq({"early", "late"})
      BY <2>1 DEF Queues
    <3>2. queue[a].st \in {"none", "done"} => \A i \in 1 .. Len(queue[a].packets) : queue[a].packets[i] = "late"
      BY DEF OutInv, EndedDrained
    <3>3. ASSUME queue[a].st \in {"none", "done"}, NEW i \in 1 .. Len(Append(queue[a].packets, p))
          PROVE  Append(queue[a].packets, p)[i] = "late"
      <4>1. p = "late"
        BY <3>3
      <4>2. i \in 1 .. Len(queue[a].packets) \/ i = Len(queue[a].packets) + 1
        BY <3>1, <3>3
      <4>. HIDE DEF p
      <4>. QED BY <3>1, <3>2, <3>3, <4>1, <4>2
    <3>. HIDE DEF p
    <3>. QED BY <2>3, <3>2, <3>3
  <2>5. \A b \in Adapters : b # a => queue'[b] = queue[b]
    BY <2>2, TypeSets DEF Typed, OutInv
  <2>6. UNCHANGED <<cbr, adapter, device, listed, muxer, lock, ctl, pacer>>
    BY <1>2 DEF Enqueue
  <2>. HIDE DEF p
  <2>. QED BY <2>3, <2>4, <2>5, <2>6, QueueInv
<1>3. CASE EnqueuePaced(w)
  <2>1. \A m \in Muxers : pacer[m] \in Pacers
    BY TypeSets DEF Typed, OutInv
  <2>2. pacer' = pacer \/ (muxer \in Muxers /\ pacer'[muxer] = [pacer[muxer] EXCEPT !.data = TRUE])
    BY <1>3, TypeSets DEF Typed, OutInv, EnqueuePaced
  <2>3. \A m \in Muxers : m = muxer /\ cbr => pacer'[m].st = pacer[m].st /\ pacer'[m].list = pacer[m].list
    BY <2>1, <2>2 DEF Pacers
  <2>. QED BY <1>3, <2>3, PacerInv DEF EnqueuePaced
<1>. QED BY <1>1, <1>2, <1>3 DEF Deliver

LEMMA DrainInv ==
  ASSUME OutInv, TypeOK', NEW a \in Adapters, Drain(a) PROVE OutInv'
<1>1. queue[a] \in Queues /\ queue[a].st \in {"draining", "stopping"}
  BY TypeSets DEF Typed, OutInv, Drain, DrainOne, DrainEnd
<1>2. \/ queue'[a] = [queue[a] EXCEPT !.packets = Tail(@)]
      \/ /\ queue[a].st = "stopping" /\ queue[a].packets = <<>>
         /\ queue'[a] = [queue[a] EXCEPT !.st = "done"]
  BY TypeSets DEF Typed, OutInv, Drain, DrainOne, DrainEnd
<1>3. \/ queue'[a].st = queue[a].st
      \/ /\ queue[a].st = "stopping" /\ queue'[a].st = "done"
         /\ \A i \in 1 .. Len(queue'[a].packets) : queue'[a].packets[i] = "late"
  BY <1>1, <1>2 DEF Queues
<1>4. \A b \in Adapters : b # a => queue'[b] = queue[b]
  BY TypeSets DEF Typed, OutInv, Drain, DrainOne, DrainEnd
<1>5. UNCHANGED <<cbr, adapter, device, listed, muxer, lock, ctl, pacer>>
  BY DEF Drain, DrainOne, DrainEnd
<1>. QED BY <1>1, <1>3, <1>4, <1>5, QueueInv

\* A pacer that ends is not the one that is up: that one runs.
LEMMA PaceInv ==
  ASSUME OutInv, TypeOK', NEW m \in Muxers, Pace(m) PROVE OutInv'
<1>1. pacer[m] \in Pacers
  BY TypeSets DEF Typed, OutInv
<1>2. pacer[m].st = "stopping" => ~ (m = muxer /\ cbr)
  BY NilAssumption DEF OutInv, MuxerFollows
<1>3. \/ pacer' = [pacer EXCEPT ![m] = [pacer[m] EXCEPT !.data = FALSE]]
      \/ pacer[m].st = "stopping" /\ pacer' = [pacer EXCEPT ![m] = [NoPacer EXCEPT !.st = "done"]]
  BY TypeSets DEF Typed, OutInv, Pace, PacerTick, PacerEnd
<1>4. \A n \in Muxers : n = muxer /\ cbr => pacer'[n].st = pacer[n].st /\ pacer'[n].list = pacer[n].list
  BY <1>1, <1>2, <1>3, TypeSets DEF Typed, OutInv, Pacers
<1>5. UNCHANGED <<cbr, adapter, device, listed, muxer, lock, ctl, queue>>
  BY DEF Pace, PacerTick, PacerEnd
<1>. QED BY <1>4, <1>5, PacerInv

LEMMA StepInv == OutInv /\ [Next]_vars => OutInv'
<1>. SUFFICES ASSUME OutInv, [Next]_vars PROVE OutInv'
  OBVIOUS
<1>0. TypeOK'
  BY StepTyping
<1>1. CASE UNCHANGED vars
  BY <1>0, <1>1, PacerInv DEF vars
<1>2. ASSUME NEW c \in Clients, Request(c) PROVE OutInv'
  <2>1. ASSUME NEW o \in Outputs, Start(c, o) PROVE OutInv'
    BY <1>0, <2>1, StartInv
  <2>2. ASSUME NEW o \in Outputs, Stop(c, o) \/ (RemoveDestination(c, o) /\ o \in Active) PROVE OutInv'
    BY <1>0, <2>2, StopFalls, FallsInv DEF OutInv
  <2>3. ASSUME NEW o \in Outputs, AddDestination(c, o) \/ (RemoveDestination(c, o) /\ o \notin Active) PROVE OutInv'
    <3>1. UNCHANGED <<cbr, adapter, device, listed, muxer, lock, ctl, queue, pacer>>
      BY <2>3 DEF AddDestination, RemoveDestination
    <3>. QED BY <1>0, <3>1, PacerInv
  <2>4. CASE Close(c)
    BY <1>0, <2>4, CloseFalls, FallsInv DEF OutInv
  <2>. QED BY <1>2, <2>1, <2>2, <2>3, <2>4 DEF Request
<1>3. ASSUME NEW c \in Clients, Continue(c) PROVE OutInv'
  <2>1. CASE CloseMuxer(c) \/ StopPacer(c) \/ PacerStopped(c)
    BY <1>0, <2>1, HolderInv
  <2>2. ASSUME NEW a \in Adapters, StopQueue(c, a) \/ QueueStopped(c, a) \/ CloseAdapter(c, a) PROVE OutInv'
    BY <1>0, <2>2, QueuesInv
  <2>3. CASE Return(c)
    BY <1>0, <2>3, QueuesInv
  <2>. QED BY <1>3, <2>1, <2>2, <2>3 DEF Continue
<1>. QED
  BY <1>0, <1>1, <1>2, <1>3, WriterInv, DrainInv, PaceInv DEF Next

\* The types of all variables, in every reachable state.
THEOREM Typing == Spec => []TypeOK
<1>1. OutInv => TypeOK
  BY DEF OutInv
<1>. QED BY <1>1, InitInv, StepInv, PTL DEF Spec

\* OutInv is inductive.
THEOREM Invariance == Spec => []OutInv
<1>. QED BY InitInv, StepInv, PTL DEF Spec

\* When nobody holds m.mu a muxer is up iff an output is active, and every active output's
\* adapter is open, on the list it belongs to, and drained or paced (rebuildAdaptersLocked),
\* for any number of outputs, requests and writers.
THEOREM OutputsServed == Spec => []Served
<1>1. OutInv => Served
  BY DEF OutInv, MuxerFollows, ListFollows, ActiveServed, Served, Paced
<1>. QED BY <1>1, Invariance, PTL

\* A request closes an adapter when its drain goroutine has ended: no packet that was queued
\* before the stop is lost, and none is written to a closed adapter (AsyncAdapter.Stop).
THEOREM AdaptersDrained == Spec => []ClosedDrained
<1>1. OutInv => ClosedDrained
  BY DEF OutInv, EndedDrained, ClosedDrained
<1>. QED BY <1>1, Invariance, PTL

\* An adapter belongs to one output or to one request that closes it, however starts, stops,
\* removals and the end of the muxer interleave.
THEOREM AdaptersClosedOnce == Spec => []ClosedOnce
<1>1. OutInv => ClosedOnce
  BY DEF OutInv
<1>. QED BY <1>1, Invariance, PTL
-----------------------------------------------------------------------------
(* An SRT output in caller mode.  While a loop is connecting the state     *)
(* keeps the writer away from the connection, and the loop raises the gate *)
(* before it lets the writer in again.                                     *)

Connecting(l) == loop[l].pc \in {"check", "wait", "dial", "install", "gate", "announce"}

AtStart ==
  state = "new" =>
    /\ sender.pc = "idle" /\ conn = NoConn /\ open = {} /\ fresh = {}
    /\ ~ reconnecting /\ ~ cancelled /\ ~ removed /\ \A l \in Loops : ~ Running(l)

WriterKeptAway ==
  /\ \A l \in Loops : Connecting(l) => state # "active" /\ sender.pc \in {"idle", "call"}
  /\ sender.pc = "spawn" => state # "active"

\* A packet on its way to a fresh connection is one that may go first.
MayGoFirst == sender.packet = "key" \/ sender.late

GateRaised ==
  /\ \A l \in Loops : loop[l].pc = "announce" => pendingIDR
  /\ sender.pc = "gate" \/ (state = "active" /\ sender.pc \in {"idle", "call"}) =>
       (conn \in fresh => pendingIDR)
  /\ sender.pc = "conn" /\ conn \in fresh => MayGoFirst
  /\ sender.pc = "send" => conn \in {sender.conn, NoConn} /\ (sender.conn \in fresh => MayGoFirst)

NewConnection ==
  \A l \in Loops :
    /\ loop[l].pc = "install" => loop[l].conn \in open /\ loop[l].conn # conn
    /\ loop[l].pc \in {"gate", "announce"} /\ ~ cancelled => conn \in open

CallerInv ==
  /\ CallerTypeOK /\ OneLoop /\ ConnectionsHeld /\ ActiveConnected
  /\ AtStart /\ WriterKeptAway /\ GateRaised /\ NewConnection
-----------------------------------------------------------------------------
LEMMA CallerInitInv == CallerInit => CallerInv
<1>. SUFFICES ASSUME CallerInit PROVE CallerInv
  OBVIOUS
<1>1. CallerTypeOK
  BY ConnAssumption DEF CallerInit, CallerTypeOK, NoWrite, Gone
<1>2. OneLoop /\ ConnectionsHeld /\ ActiveConnected
  BY DEF CallerInit, OneLoop, ConnectionsHeld, ActiveConnected, Running, Gone
<1>3. AtStart
  BY DEF CallerInit, AtStart, Running, NoWrite, Gone
<1>4. WriterKeptAway /\ GateRaised /\ NewConnection
  BY DEF CallerInit, WriterKeptAway, GateRaised, NewConnection, Connecting, MayGoFirst, NoWrite, Gone
<1>. QED  BY <1>1, <1>2, <1>3, <1>4 DEF CallerInv

\* A loop is started when none runs: it is the only one then.
LEMMA SpawnOne ==
  ASSUME CallerTypeOK, OneLoop, ~ reconnecting, loop' \in Spawned, reconnecting' = TRUE
  PROVE  /\ \E k \in Loops : loop' = [loop EXCEPT ![k] = [pc |-> "check", conn |-> NoConn]]
         /\ \A l \in Loops : loop'[l].pc \in {"gone", "check"} /\ loop'[l].conn = NoConn
         /\ OneLoop'
<1>1. PICK k \in Loops : loop' = [loop EXCEPT ![k] = [pc |-> "check", conn |-> NoConn]]
  BY DEF Spawned
<1>2. \A l \in Loops : loop[l].pc = "gone" /\ loop[l].conn = NoConn
  BY DEF CallerTypeOK, OneLoop, Running
<1>3. \A l \in Loops : loop'[l] = IF l = k THEN [pc |-> "check", conn |-> NoConn] ELSE loop[l]
  BY <1>1 DEF CallerTypeOK
<1>4. OneLoop'
  BY <1>2, <1>3 DEF OneLoop, Running
<1>5. \A l \in Loops : loop'[l].pc \in {"gone", "check"} /\ loop'[l].conn = NoConn
  BY <1>2, <1>3
<1>. QED  BY <1>1, <1>4, <1>5

LEMMA StartKeepsInv == ASSUME CallerInv, StartCaller PROVE CallerInv'
<1>. USE DEF CallerInv
<1>1. CASE state' = "active"
  <2>1. PICK n \in Conns : Unused(n) /\ conn' = n /\ open' = open \cup {n}
    BY <1>1 DEF StartCaller
  <2>2. UNCHANGED <<reconnecting, loop, fresh, cancelled, pendingIDR, removed, sender>>
    BY <1>1 DEF StartCaller
  <2>3. CallerTypeOK' /\ AtStart'
    BY <1>1, <2>1, <2>2 DEF CallerTypeOK, AtStart
  <2>4. OneLoop' /\ ConnectionsHeld' /\ ActiveConnected'
    BY <2>1, <2>2 DEF StartCaller, OneLoop, ConnectionsHeld, ActiveConnected, AtStart, Running
  <2>5. WriterKeptAway' /\ GateRaised' /\ NewConnection'
    BY <1>1, <2>1, <2>2 DEF StartCaller, AtStart, Running, WriterKeptAway, GateRaised, NewConnection, Connecting
  <2>. QED  BY <2>3, <2>4, <2>5
<1>2. CASE state' = "reconnecting" /\ reconnecting' = TRUE /\ loop' \in Spawned
  <2>1. UNCHANGED <<conn, open, fresh, cancelled, pendingIDR, removed, sender>>
    BY <1>2 DEF StartCaller
  <2>2. /\ \E k \in Loops : loop' = [loop EXCEPT ![k] = [pc |-> "check", conn |-> NoConn]]
        /\ \A l \in Loops : loop'[l].pc \in {"gone", "check"} /\ loop'[l].conn = NoConn
        /\ OneLoop'
    BY <1>2, SpawnOne DEF StartCaller, AtStart
  <2>3. CallerTypeOK'
    BY <1>2, <2>1, <2>2 DEF CallerTypeOK
  <2>4. ConnectionsHeld' /\ ActiveConnected' /\ AtStart'
    BY <1>2, <2>1 DEF StartCaller, ConnectionsHeld, ActiveConnected, AtStart
  <2>5. WriterKeptAway' /\ GateRaised' /\ NewConnection'
    BY <1>2, <2>1, <2>2 DEF StartCaller, AtStart, WriterKeptAway, GateRaised, NewConnection, Connecting
  <2>. QED  BY <2>2, <2>3, <2>4, <2>5
<1>. QED  BY <1>1, <1>2 DEF StartCaller

LEMMA RemoveKeepsInv == ASSUME CallerInv, Remove PROVE CallerInv'
<1>1. CallerTypeOK'
  BY DEF CallerInv, CallerTypeOK, Remove
<1>2. OneLoop'
  BY DEF CallerInv, OneLoop, Running, Remove
<1>3. ConnectionsHeld'
  BY DEF CallerInv, ConnectionsHeld, Remove
<1>4. ActiveConnected'
  BY DEF CallerInv, ActiveConnected, Remove
<1>5. AtStart'
  BY DEF CallerInv, AtStart, Running, Remove
<1>6. WriterKeptAway'
  BY DEF CallerInv, WriterKeptAway, Connecting, Remove
<1>7. GateRaised'
  BY DEF CallerInv, GateRaised, MayGoFirst, Remove
<1>8. NewConnection'
  BY DEF CallerInv, NewConnection, Remove
<1>. QED  BY <1>1, <1>2, <1>3, <1>4, <1>5, <1>6, <1>7, <1>8 DEF CallerInv

LEMMA CloseKeepsInv == ASSUME CallerInv, CloseCaller PROVE CallerInv'
<1>1. CallerTypeOK'
  BY DEF CallerInv, CallerTypeOK, CloseCaller
<1>2. OneLoop'
  BY DEF CallerInv, OneLoop, Running, CloseCaller
<1>3. ConnectionsHeld'
  BY DEF CallerInv, ConnectionsHeld, CloseCaller
<1>4. ActiveConnected'
  BY DEF CallerInv, ActiveConnected, CloseCaller
<1>5. AtStart'
  BY DEF CallerInv, AtStart, Running, CloseCaller
<1>6. WriterKeptAway'
  BY DEF CallerInv, WriterKeptAway, Connecting, CloseCaller
<1>7. GateRaised'
  BY ConnAssumption DEF CallerInv, GateRaised, CallerTypeOK, MayGoFirst, CloseCaller
<1>8. NewConnection'
  BY DEF CallerInv, NewConnection, CallerTypeOK, CloseCaller
<1>. QED  BY <1>1, <1>2, <1>3, <1>4, <1>5, <1>6, <1>7, <1>8 DEF CallerInv

LEMMA WriteCallKeepsInv ==
  ASSUME CallerInv, NEW packet \in {"key", "delta"}, WriteCall(packet) PROVE CallerInv'
<1>1. CallerTypeOK'
  BY DEF CallerInv, CallerTypeOK, WriteCall, NoWrite
<1>2. OneLoop'
  BY DEF CallerInv, OneLoop, Running, WriteCall, NoWrite
<1>3. ConnectionsHeld'
  BY DEF CallerInv, ConnectionsHeld, WriteCall, NoWrite
<1>4. ActiveConnected'
  BY DEF CallerInv, ActiveConnected, WriteCall, NoWrite
<1>5. AtStart'
  BY DEF CallerInv, AtStart, Running, WriteCall, NoWrite
<1>6. WriterKeptAway'
  BY DEF CallerInv, WriterKeptAway, Connecting, WriteCall, NoWrite
<1>7. GateRaised'
  BY DEF CallerInv, GateRaised, MayGoFirst, WriteCall, NoWrite
<1>8. NewConnection'
  BY DEF CallerInv, NewConnection, WriteCall, NoWrite
<1>. QED  BY <1>1, <1>2, <1>3, <1>4, <1>5, <1>6, <1>7, <1>8 DEF CallerInv

LEMMA WriteStateKeepsInv == ASSUME CallerInv, WriteState PROVE CallerInv'
<1>1. CallerTypeOK'
  BY DEF CallerInv, CallerTypeOK, WriteState, NoWrite
<1>2. OneLoop'
  BY DEF CallerInv, OneLoop, Running, WriteState, NoWrite
<1>3. ConnectionsHeld'
  BY DEF CallerInv, ConnectionsHeld, WriteState, NoWrite
<1>4. ActiveConnected'
  BY DEF CallerInv, ActiveConnected, WriteState, NoWrite
<1>5. AtStart'
  BY DEF CallerInv, AtStart, Running, WriteState, NoWrite
<1>6. WriterKeptAway'
  BY DEF CallerInv, WriterKeptAway, Connecting, WriteState, NoWrite
<1>7. GateRaised'
  BY DEF CallerInv, GateRaised, MayGoFirst, WriteState, NoWrite
<1>8. NewConnection'
  BY DEF CallerInv, NewConnection, WriteState, NoWrite
<1>. QED  BY <1>1, <1>2, <1>3, <1>4, <1>5, <1>6, <1>7, <1>8 DEF CallerInv

LEMMA WriteGateKeepsInv == ASSUME CallerInv, WriteGate PROVE CallerInv'
<1>. USE DEF CallerInv
<1>1. UNCHANGED <<state, conn, open, fresh, cancelled, reconnecting, removed, loop>>
  BY DEF WriteGate
<1>2. sender.pc = "gate" /\ pendingIDR' \in BOOLEAN
  BY DEF WriteGate, CallerTypeOK
<1>3. \A l \in Loops : ~ Connecting(l)
  BY <1>2 DEF WriterKeptAway
<1>4. /\ sender'.pc \in {"idle", "conn"}
      /\ sender'.pc = "conn" /\ conn \in fresh => sender'.packet = "key" \/ sender'.late
  <2>1. CASE pendingIDR /\ sender.packet = "delta" /\ sender' = NoWrite
    BY <2>1 DEF NoWrite
  <2>2. CASE pendingIDR /\ sender.packet = "delta" /\ sender' = [sender EXCEPT !.pc = "conn", !.late = TRUE]
    BY <2>2 DEF CallerTypeOK
  <2>3. CASE pendingIDR /\ sender.packet = "key" /\ sender' = [sender EXCEPT !.pc = "conn"]
    BY <2>3 DEF CallerTypeOK
  <2>4. CASE ~ pendingIDR /\ sender' = [sender EXCEPT !.pc = "conn"]
    BY <1>2, <2>4 DEF CallerTypeOK, GateRaised
  <2>. QED  BY <2>1, <2>2, <2>3, <2>4 DEF WriteGate
<1>5. CallerTypeOK'
  <2>. DEFINE Record == [pc : {"idle", "call", "gate", "conn", "send", "failed", "spawn"},
                         packet : {"key", "delta"}, conn : Conns \cup {NoConn}, late : BOOLEAN]
  <2>1. sender \in Record
    BY DEF CallerTypeOK
  <2>2. [sender EXCEPT !.pc = "conn"] \in Record
    BY <2>1
  <2>3. [sender EXCEPT !.pc = "conn", !.late = TRUE] \in Record
    BY <2>1, Zenon
  <2>4. NoWrite \in Record
    BY DEF NoWrite
  <2>5. sender' \in Record
    BY <2>2, <2>3, <2>4, Zenon DEF WriteGate
  <2>. QED  BY <1>1, <1>2, <1>4, <2>5 DEF CallerTypeOK
<1>6. OneLoop' /\ ConnectionsHeld' /\ ActiveConnected' /\ NewConnection'
  BY <1>1 DEF OneLoop, Running, ConnectionsHeld, ActiveConnected, NewConnection
<1>7. AtStart' /\ WriterKeptAway'
  BY <1>1, <1>2, <1>3, <1>4 DEF AtStart, WriterKeptAway, Connecting
<1>8. GateRaised'
  <2>1. sender'.pc = "idle" => pendingIDR' = pendingIDR
    BY <1>2 DEF WriteGate, CallerTypeOK
  <2>2. \A l \in Loops : loop'[l].pc # "announce"
    BY <1>1, <1>3 DEF Connecting
  <2>. QED  BY <1>1, <1>2, <1>4, <2>1, <2>2 DEF GateRaised, MayGoFirst
<1>. QED  BY <1>5, <1>6, <1>7, <1>8

LEMMA WriteConnKeepsInv == ASSUME CallerInv, WriteConn PROVE CallerInv'
<1>1. CallerTypeOK'
  BY DEF CallerInv, CallerTypeOK, WriteConn, NoWrite
<1>2. OneLoop'
  BY DEF CallerInv, OneLoop, Running, WriteConn, NoWrite
<1>3. ConnectionsHeld'
  BY DEF CallerInv, ConnectionsHeld, WriteConn, NoWrite
<1>4. ActiveConnected'
  BY DEF CallerInv, ActiveConnected, WriteConn, NoWrite
<1>5. AtStart'
  BY DEF CallerInv, AtStart, Running, WriteConn, NoWrite
<1>6. WriterKeptAway'
  BY DEF CallerInv, WriterKeptAway, Connecting, WriteConn, NoWrite
<1>7. GateRaised'
  BY ConnAssumption DEF CallerInv, GateRaised, CallerTypeOK, MayGoFirst, WriteConn, NoWrite
<1>8. NewConnection'
  BY DEF CallerInv, NewConnection, WriteConn, NoWrite
<1>. QED  BY <1>1, <1>2, <1>3, <1>4, <1>5, <1>6, <1>7, <1>8 DEF CallerInv

LEMMA WriteSentKeepsInv == ASSUME CallerInv, WriteSent PROVE CallerInv'
<1>1. CallerTypeOK'
  BY DEF CallerInv, CallerTypeOK, WriteSent, NoWrite
<1>2. OneLoop'
  BY DEF CallerInv, OneLoop, Running, WriteSent, NoWrite
<1>3. ConnectionsHeld'
  BY DEF CallerInv, ConnectionsHeld, WriteSent, NoWrite
<1>4. ActiveConnected'
  BY DEF CallerInv, ActiveConnected, WriteSent, NoWrite
<1>5. AtStart'
  BY DEF CallerInv, AtStart, Running, WriteSent, NoWrite
<1>6. WriterKeptAway'
  BY DEF CallerInv, WriterKeptAway, Connecting, WriteSent, NoWrite
<1>7. GateRaised'
  BY ConnAssumption DEF CallerInv, GateRaised, CallerTypeOK, MayGoFirst, WriteSent, NoWrite
<1>8. NewConnection'
  BY DEF CallerInv, NewConnection, WriteSent, NoWrite
<1>. QED  BY <1>1, <1>2, <1>3, <1>4, <1>5, <1>6, <1>7, <1>8 DEF CallerInv

LEMMA WriteFailedKeepsInv == ASSUME CallerInv, WriteFailed PROVE CallerInv'
<1>1. CallerTypeOK'
  BY DEF CallerInv, CallerTypeOK, WriteFailed
<1>2. OneLoop'
  BY DEF CallerInv, OneLoop, Running, WriteFailed
<1>3. ConnectionsHeld'
  BY DEF CallerInv, ConnectionsHeld, WriteFailed
<1>4. ActiveConnected'
  BY DEF CallerInv, ActiveConnected, WriteFailed
<1>5. AtStart'
  BY DEF CallerInv, AtStart, Running, WriteFailed
<1>6. WriterKeptAway'
  BY DEF CallerInv, WriterKeptAway, Connecting, WriteFailed
<1>7. GateRaised'
  BY DEF CallerInv, GateRaised, MayGoFirst, WriteFailed
<1>8. NewConnection'
  BY DEF CallerInv, NewConnection, WriteFailed
<1>. QED  BY <1>1, <1>2, <1>3, <1>4, <1>5, <1>6, <1>7, <1>8 DEF CallerInv

LEMMA WriteSpawnKeepsInv == ASSUME CallerInv, WriteSpawn PROVE CallerInv'
<1>. USE DEF CallerInv
<1>1. sender.pc = "spawn" /\ sender' = NoWrite /\ state # "active"
  BY DEF WriteSpawn, WriterKeptAway
<1>2. UNCHANGED <<state, conn, open, fresh, cancelled, pendingIDR, removed>>
  BY DEF WriteSpawn
<1>3. CASE UNCHANGED <<reconnecting, loop>>
  <2>1. CallerTypeOK'
    BY ConnAssumption, <1>1, <1>2, <1>3 DEF CallerTypeOK, NoWrite
  <2>2. OneLoop' /\ ConnectionsHeld' /\ ActiveConnected' /\ AtStart'
    BY <1>1, <1>2, <1>3 DEF OneLoop, ConnectionsHeld, ActiveConnected, AtStart, Running
  <2>3. WriterKeptAway' /\ GateRaised' /\ NewConnection'
    BY <1>1, <1>2, <1>3 DEF WriterKeptAway, GateRaised, NewConnection, Connecting, NoWrite
  <2>. QED  BY <2>1, <2>2, <2>3
<1>4. CASE ~ reconnecting /\ reconnecting' = TRUE /\ loop' \in Spawned
  <2>1. /\ \E k \in Loops : loop' = [loop EXCEPT ![k] = [pc |-> "check", conn |-> NoConn]]
        /\ \A l \in Loops : loop'[l].pc \in {"gone", "check"} /\ loop'[l].conn = NoConn
        /\ OneLoop'
    BY <1>4, SpawnOne
  <2>2. CallerTypeOK'
    BY ConnAssumption, <1>1, <1>2, <1>4, <2>1 DEF CallerTypeOK, NoWrite
  <2>3. ConnectionsHeld'
    <3>1. \A l \in Loops : loop[l].conn = NoConn
      BY <1>4 DEF CallerTypeOK, OneLoop, Running
    <3>. QED  BY <1>2, <3>1, ConnAssumption DEF ConnectionsHeld, CallerTypeOK
  <2>4. ActiveConnected' /\ AtStart'
    BY <1>1, <1>2 DEF ActiveConnected, AtStart
  <2>5. WriterKeptAway' /\ GateRaised' /\ NewConnection'
    BY <1>1, <1>2, <2>1 DEF WriterKeptAway, GateRaised, NewConnection, Connecting, NoWrite
  <2>. QED  BY <2>1, <2>2, <2>3, <2>4, <2>5
<1>. QED  BY <1>3, <1>4 DEF WriteSpawn

LEMMA LoopWaitKeepsInv == ASSUME CallerInv, NEW l \in Loops, LoopWait(l) PROVE CallerInv'
<1>1. CallerTypeOK'
  BY DEF CallerInv, CallerTypeOK, LoopWait, At, Goto
<1>2. OneLoop'
  BY DEF CallerInv, OneLoop, CallerTypeOK, Running, LoopWait, At, Goto
<1>3. ConnectionsHeld'
  BY DEF CallerInv, ConnectionsHeld, CallerTypeOK, LoopWait, At, Goto
<1>4. ActiveConnected'
  BY DEF CallerInv, ActiveConnected, LoopWait, At, Goto
<1>5. AtStart'
  BY DEF CallerInv, AtStart, Running, LoopWait, At, Goto
<1>6. WriterKeptAway'
  BY DEF CallerInv, WriterKeptAway, Connecting, LoopWait, At, Goto
<1>7. GateRaised'
  BY DEF CallerInv, GateRaised, CallerTypeOK, MayGoFirst, LoopWait, At, Goto
<1>8. NewConnection'
  BY DEF CallerInv, NewConnection, CallerTypeOK, LoopWait, At, Goto
<1>. QED  BY <1>1, <1>2, <1>3, <1>4, <1>5, <1>6, <1>7, <1>8 DEF CallerInv

LEMMA LoopDialFailedKeepsInv == ASSUME CallerInv, NEW l \in Loops, LoopDialFailed(l) PROVE CallerInv'
<1>1. CallerTypeOK'
  BY DEF CallerInv, CallerTypeOK, LoopDialFailed, At, Goto
<1>2. OneLoop'
  BY DEF CallerInv, OneLoop, Running, LoopDialFailed, At, Goto
<1>3. ConnectionsHeld'
  BY DEF CallerInv, ConnectionsHeld, LoopDialFailed, At, Goto
<1>4. ActiveConnected'
  BY DEF CallerInv, ActiveConnected, LoopDialFailed, At, Goto
<1>5. AtStart'
  BY DEF CallerInv, AtStart, Running, LoopDialFailed, At, Goto
<1>6. WriterKeptAway'
  BY DEF CallerInv, WriterKeptAway, Connecting, LoopDialFailed, At, Goto
<1>7. GateRaised'
  BY DEF CallerInv, GateRaised, MayGoFirst, LoopDialFailed, At, Goto
<1>8. NewConnection'
  BY DEF CallerInv, NewConnection, LoopDialFailed, At, Goto
<1>. QED  BY <1>1, <1>2, <1>3, <1>4, <1>5, <1>6, <1>7, <1>8 DEF CallerInv

LEMMA LoopDialedKeepsInv == ASSUME CallerInv, NEW l \in Loops, LoopDialed(l) PROVE CallerInv'
<1>1. CallerTypeOK'
  BY DEF CallerInv, CallerTypeOK, LoopDialed, At, Unused
<1>2. OneLoop'
  BY DEF CallerInv, OneLoop, Running, LoopDialed, At, Unused
<1>3. ConnectionsHeld'
  BY ConnAssumption DEF CallerInv, ConnectionsHeld, CallerTypeOK, LoopDialed, At, Unused
<1>4. ActiveConnected'
  BY DEF CallerInv, ActiveConnected, LoopDialed, At, Unused
<1>5. AtStart'
  BY DEF CallerInv, AtStart, Running, LoopDialed, At, Unused
<1>6. WriterKeptAway'
  BY DEF CallerInv, WriterKeptAway, Connecting, LoopDialed, At, Unused
<1>7. GateRaised'
  BY DEF CallerInv, GateRaised, MayGoFirst, LoopDialed, At, Unused
<1>8. NewConnection'
  BY DEF CallerInv, NewConnection, LoopDialed, At, Unused
<1>. QED  BY <1>1, <1>2, <1>3, <1>4, <1>5, <1>6, <1>7, <1>8 DEF CallerInv

LEMMA LoopInstallKeepsInv == ASSUME CallerInv, NEW l \in Loops, LoopInstall(l) PROVE CallerInv'
<1>1. CallerTypeOK'
  BY DEF CallerInv, CallerTypeOK, LoopInstall, At
<1>2. OneLoop'
  BY DEF CallerInv, OneLoop, Running, LoopInstall, At
<1>3. ConnectionsHeld'
  BY DEF CallerInv, ConnectionsHeld, LoopInstall, At
<1>4. ActiveConnected'
  BY DEF CallerInv, ActiveConnected, CallerTypeOK, WriterKeptAway, Connecting, LoopInstall, At
<1>5. AtStart'
  BY DEF CallerInv, AtStart, Running, LoopInstall, At
<1>6. WriterKeptAway'
  BY DEF CallerInv, WriterKeptAway, Connecting, LoopInstall, At
<1>7. GateRaised'
  BY DEF CallerInv, GateRaised, CallerTypeOK, WriterKeptAway, MayGoFirst, Connecting, LoopInstall, At
<1>8. NewConnection'
  BY DEF CallerInv, NewConnection, CallerTypeOK, OneLoop, Running, LoopInstall, At
<1>. QED  BY <1>1, <1>2, <1>3, <1>4, <1>5, <1>6, <1>7, <1>8 DEF CallerInv

LEMMA LoopGateKeepsInv == ASSUME CallerInv, NEW l \in Loops, LoopGate(l) PROVE CallerInv'
<1>1. CallerTypeOK'
  BY DEF CallerInv, CallerTypeOK, LoopGate, At, Goto
<1>2. OneLoop'
  BY DEF CallerInv, OneLoop, Running, LoopGate, At, Goto
<1>3. ConnectionsHeld'
  BY DEF CallerInv, ConnectionsHeld, LoopGate, At, Goto
<1>4. ActiveConnected'
  BY DEF CallerInv, ActiveConnected, LoopGate, At, Goto
<1>5. AtStart'
  BY DEF CallerInv, AtStart, Running, LoopGate, At, Goto
<1>6. WriterKeptAway'
  BY DEF CallerInv, WriterKeptAway, Connecting, LoopGate, At, Goto
<1>7. GateRaised'
  BY DEF CallerInv, GateRaised, MayGoFirst, LoopGate, At, Goto
<1>8. NewConnection'
  BY DEF CallerInv, NewConnection, LoopGate, At, Goto
<1>. QED  BY <1>1, <1>2, <1>3, <1>4, <1>5, <1>6, <1>7, <1>8 DEF CallerInv

LEMMA LoopAnnounceKeepsInv == ASSUME CallerInv, NEW l \in Loops, LoopAnnounce(l) PROVE CallerInv'
<1>1. CallerTypeOK'
  BY DEF CallerInv, CallerTypeOK, LoopAnnounce, At, Goto
<1>2. OneLoop'
  BY DEF CallerInv, OneLoop, Running, LoopAnnounce, At, Goto
<1>3. ConnectionsHeld'
  BY DEF CallerInv, ConnectionsHeld, LoopAnnounce, At, Goto
<1>4. ActiveConnected'
  BY DEF CallerInv, ActiveConnected, CallerTypeOK, NewConnection, LoopAnnounce, At, Goto
<1>5. AtStart'
  BY DEF CallerInv, AtStart, Running, LoopAnnounce, At, Goto
<1>6. WriterKeptAway'
  BY DEF CallerInv, WriterKeptAway, CallerTypeOK, OneLoop, Connecting, Running, LoopAnnounce, At, Goto
<1>7. GateRaised'
  BY DEF CallerInv, GateRaised, MayGoFirst, LoopAnnounce, At, Goto
<1>8. NewConnection'
  BY DEF CallerInv, NewConnection, LoopAnnounce, At, Goto
<1>. QED  BY <1>1, <1>2, <1>3, <1>4, <1>5, <1>6, <1>7, <1>8 DEF CallerInv

LEMMA LoopNotifyKeepsInv == ASSUME CallerInv, NEW l \in Loops, LoopNotify(l) PROVE CallerInv'
<1>1. CallerTypeOK'
  BY DEF CallerInv, CallerTypeOK, LoopNotify, At, Goto
<1>2. OneLoop'
  BY DEF CallerInv, OneLoop, Running, LoopNotify, At, Goto
<1>3. ConnectionsHeld'
  BY DEF CallerInv, ConnectionsHeld, LoopNotify, At, Goto
<1>4. ActiveConnected'
  BY DEF CallerInv, ActiveConnected, LoopNotify, At, Goto
<1>5. AtStart'
  BY DEF CallerInv, AtStart, Running, LoopNotify, At, Goto
<1>6. WriterKeptAway'
  BY DEF CallerInv, WriterKeptAway, Connecting, LoopNotify, At, Goto
<1>7. GateRaised'
  BY DEF CallerInv, GateRaised, MayGoFirst, LoopNotify, At, Goto
<1>8. NewConnection'
  BY DEF CallerInv, NewConnection, LoopNotify, At, Goto
<1>. QED  BY <1>1, <1>2, <1>3, <1>4, <1>5, <1>6, <1>7, <1>8 DEF CallerInv

LEMMA LoopLeaveKeepsInv == ASSUME CallerInv, NEW l \in Loops, LoopLeave(l) PROVE CallerInv'
<1>1. CallerTypeOK'
  <2>1. Gone.pc = "gone" /\ Gone.conn = NoConn
    BY DEF Gone
  <2>2. /\ loop' = [loop EXCEPT ![l] = Gone]
        /\ UNCHANGED <<state, conn, open, fresh, cancelled, pendingIDR, removed, sender>>
    BY DEF LoopLeave
  <2>3. loop' \in [Loops -> [pc : {"gone", "check", "wait", "dial", "install", "gate", "announce",
                                  "notify", "leave"}, conn : Conns \cup {NoConn}]]
    BY <2>2 DEF CallerInv, CallerTypeOK, Gone
  <2>4. \A k \in Loops : loop'[k].conn # NoConn <=> loop'[k].pc = "install"
    BY <2>1, <2>2 DEF CallerInv, CallerTypeOK
  <2>5. reconnecting' \in BOOLEAN
    BY DEF LoopLeave
  <2>. QED  BY <2>2, <2>3, <2>4, <2>5 DEF CallerInv, CallerTypeOK
<1>2. OneLoop'
  BY DEF CallerInv, OneLoop, CallerTypeOK, Running, LoopLeave, At, Gone
<1>3. ConnectionsHeld'
  BY DEF CallerInv, ConnectionsHeld, CallerTypeOK, LoopLeave, At, Gone
<1>4. ActiveConnected'
  BY DEF CallerInv, ActiveConnected, LoopLeave, At, Gone
<1>5. AtStart'
  BY DEF CallerInv, AtStart, Running, LoopLeave, At
<1>6. WriterKeptAway'
  BY DEF CallerInv, WriterKeptAway, Connecting, LoopLeave, At, Gone
<1>7. GateRaised'
  BY DEF CallerInv, GateRaised, MayGoFirst, LoopLeave, At, Gone
<1>8. NewConnection'
  BY DEF CallerInv, NewConnection, LoopLeave, At, Gone
<1>. QED  BY <1>1, <1>2, <1>3, <1>4, <1>5, <1>6, <1>7, <1>8 DEF CallerInv

LEMMA StutterKeepsInv == ASSUME CallerInv, UNCHANGED callerVars PROVE CallerInv'
<1>. USE DEF CallerInv, callerVars
<1>1. CallerTypeOK' /\ OneLoop' /\ ConnectionsHeld' /\ ActiveConnected'
  BY DEF CallerTypeOK, OneLoop, ConnectionsHeld, ActiveConnected, Running
<1>2. AtStart' /\ WriterKeptAway' /\ GateRaised' /\ NewConnection'
  BY DEF AtStart, Running, WriterKeptAway, Connecting, GateRaised, MayGoFirst, NewConnection
<1>. QED  BY <1>1, <1>2

LEMMA NextKeepsInv == ASSUME CallerInv, [CallerNext]_callerVars PROVE CallerInv'
<1>1. CASE StartCaller \/ Remove \/ CloseCaller
  BY <1>1, StartKeepsInv, RemoveKeepsInv, CloseKeepsInv
<1>2. CASE CallerWrite
  BY <1>2, WriteCallKeepsInv, WriteStateKeepsInv, WriteGateKeepsInv, WriteConnKeepsInv,
     WriteSentKeepsInv, WriteFailedKeepsInv, WriteSpawnKeepsInv DEF CallerWrite
<1>3. ASSUME NEW l \in Loops, Loop(l) PROVE CallerInv'
  BY <1>3, LoopWaitKeepsInv, LoopDialFailedKeepsInv, LoopDialedKeepsInv, LoopInstallKeepsInv,
     LoopGateKeepsInv, LoopAnnounceKeepsInv, LoopNotifyKeepsInv, LoopLeaveKeepsInv DEF Loop
<1>4. CASE UNCHANGED callerVars
  BY <1>4, StutterKeepsInv
<1>. QED  BY <1>1, <1>2, <1>3, <1>4 DEF CallerNext

\* What the argument keeps up in every state of an SRT output, with any number of
\* connections and reconnect goroutines (srt_caller.go, Write and reconnectLoop).
THEOREM CallerInvariance == CallerSpec => []CallerInv
  BY CallerInitInv, NextKeepsInv, PTL DEF CallerSpec

\* Never two reconnect loops, and the flag of the compare-and-swap tells the truth.
THEOREM OneLoopAlways == CallerSpec => []OneLoop
<1>1. CallerInv => OneLoop
  BY DEF CallerInv
<1>. QED  BY CallerInvariance, <1>1, PTL

\* No connection is lost sight of while it is open.
THEOREM ConnectionsHeldAlways == CallerSpec => []ConnectionsHeld
<1>1. CallerInv => ConnectionsHeld
  BY DEF CallerInv
<1>. QED  BY CallerInvariance, <1>1, PTL

\* An output that says it is active, and is not closed, has an open connection.
THEOREM ActiveConnectedAlways == CallerSpec => []ActiveConnected
<1>1. CallerInv => ActiveConnected
  BY DEF CallerInv
<1>. QED  BY CallerInvariance, <1>1, PTL

\* The only step of a writer in "send" that touches the fresh connections sends its packet.
LEMMA StepGoesFirst ==
  ASSUME CallerInv, [CallerNext]_callerVars, sender.pc = "send", fresh' # fresh
  PROVE  sender.packet = "key" \/ sender.late
<1>1. \A l \in Loops : ~ LoopDialed(l)
  BY DEF CallerInv, WriterKeptAway, Connecting, LoopDialed, At
<1>2. WriteSent
  BY <1>1 DEF CallerNext, StartCaller, Remove, CloseCaller, CallerWrite, WriteCall, WriteState, WriteGate, WriteConn,
     WriteFailed, WriteSpawn, Loop, LoopWait, LoopDialFailed, LoopInstall, LoopGate,
     LoopAnnounce, LoopNotify, LoopLeave, callerVars
<1>3. sender.conn \in fresh
  BY <1>2 DEF WriteSent, CallerInv, CallerTypeOK
<1>. QED  BY <1>3 DEF CallerInv, GateRaised, MayGoFirst

\* The first packet over a new connection is a key frame or comes after the gate's timeout.
THEOREM KeyframeFirstAlways == CallerSpec => KeyframeFirst
<1>1. CallerInv /\ [CallerNext]_callerVars =>
        [sender.pc = "send" /\ fresh' # fresh => sender.packet = "key" \/ sender.late]_callerVars
  BY StepGoesFirst
<1>. QED  BY CallerInvariance, <1>1, PTL DEF CallerSpec, KeyframeFirst
=============================================================================
