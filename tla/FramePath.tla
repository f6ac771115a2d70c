----------------------------- MODULE FramePath -----------------------------
(***************************************************************************)
(* The way of a decoded frame from a source to the program encoder: the    *)
(* frame synchronizer's buffers (frame_sync.go), routing and the program   *)
(* epoch (handleRawVideoFrame, broadcastProcessedFromPF), the newest-wins  *)
(* queue (enqueueVideoWork), the processing loop, and the reference counts *)
(* and the pool of the picture buffers (processing_frame.go,               *)
(* frame_pool.go).  A picture is the source it shows; frame rate           *)
(* conversion, rescaling and GPU copies are left out.                      *)
(***************************************************************************)
EXTENDS Integers, FiniteSets, Sequences

CONSTANTS
  Sources,    \* source keys
  Buffers,    \* picture buffers, pooled or allocated on a pool miss
  NoSource,   \* the empty key
  NoBuffer,   \* the nil slice
  PoolCap,    \* capacity of the pool's free list
  QueueCap,   \* capacity of videoProcCh (8 in the code)
  RingSize,   \* syncRingSize (2 in the code)
  Modes,      \* "sync": frames pass through the frame synchronizer's tick loop; "direct"
  Removals,   \* the modes in which sources may be unregistered
  MaxEpoch    \* bound on the program epoch

ASSUME BufferAssumption == NoBuffer \notin Buffers /\ NoSource \notin Sources
ASSUME SourceAssumption == IsFiniteSet(Sources)
ASSUME BoundAssumption ==
  /\ {PoolCap, QueueCap, RingSize, MaxEpoch} \subseteq Nat \ {0}
  /\ Modes \subseteq {"sync", "direct"} /\ Removals \subseteq Modes

VARIABLES
  mode,      \* s.frameSync is not nil; set when the program starts
  program,   \* s.programSource
  epoch,     \* s.programEpoch
  sources,   \* keys of s.sources, and of the synchronizer's
  pool,      \* FramePool.free
  refs,      \* per buffer: the reference count its holders share
  picture,   \* per buffer: the source whose picture it holds
  pending,   \* per source: ring of decoded frames, oldest first
  last,      \* per source: lastRawVideo, repeated while nothing new comes
  todo,      \* per source: the tick's value copy still to be delivered
  deliver,   \* per deliverer: the frame in its hands
  queue,     \* videoProcCh
  loop,      \* the processing loop
  encode     \* the frame in the asynchronous encoder

vars == <<mode, program, epoch, sources, pool, refs, picture, pending, last, todo, deliver,
          queue, loop, encode>>

FrameSync == mode = "sync"

\* The goroutines that deliver frames: the tick loop, or each source's decoder.
Deliverers == IF FrameSync THEN {"tick"} ELSE Sources

Slots == Buffers \cup {NoBuffer}
Free == [pc |-> "idle", src |-> CHOOSE s \in Sources : TRUE, buf |-> NoBuffer, epoch |-> 0]
Waiting == [pc |-> "wait", buf |-> NoBuffer, new |-> NoBuffer]
Works == [buf : Buffers, src : Sources, epoch : 0 .. MaxEpoch]

TypeOK ==
  /\ mode \in Modes
  /\ program \in Sources \cup {NoSource} /\ epoch \in 0 .. MaxEpoch /\ sources \in SUBSET Sources
  /\ pool \in SUBSET Buffers /\ refs \in [Buffers -> Int] /\ picture \in [Buffers -> Sources]
  /\ pending \in [Sources -> Seq(Buffers)] /\ \A s \in Sources : Len(pending[s]) <= RingSize
  /\ last \in [Sources -> Slots] /\ todo \in [Sources -> Slots]
  /\ deliver \in [Deliverers -> [pc : {"idle", "route", "stamp", "send", "evict", "resend", "release"},
                                 src : Sources, buf : Slots, epoch : 0 .. MaxEpoch]]
  /\ queue \in Seq(Works) /\ Len(queue) <= QueueCap
  /\ loop \in [pc : {"wait", "own", "detach", "process", "release"}, buf : Slots, new : Slots]
  /\ encode \in Slots

\* A first cut has put a source on program; epoch 0 is left behind with it.
Init ==
  /\ mode \in Modes
  /\ program \in Sources /\ epoch = 1 /\ sources = Sources
  /\ \E full \in SUBSET Buffers : Cardinality(full) = PoolCap /\ pool = full
  /\ refs = [b \in Buffers |-> 0]
  /\ picture = [b \in Buffers |-> Free.src]
  /\ pending = [s \in Sources |-> <<>>]
  /\ last = [s \in Sources |-> NoBuffer] /\ todo = [s \in Sources |-> NoBuffer]
  /\ deliver = [d \in Deliverers |-> Free]
  /\ queue = <<>>
  /\ loop = Waiting
  /\ encode = NoBuffer
-----------------------------------------------------------------------------
\* The references to b: those that are counted ...
Counted(b) ==
  Cardinality({p \in Sources \X (1 .. RingSize) : p[2] <= Len(pending[p[1]]) /\ pending[p[1]][p[2]] = b})
  + Cardinality({s \in Sources : last[s] = b})
  + Cardinality({d \in Deliverers : ~ FrameSync /\ deliver[d].buf = b})
  + Cardinality({d \in Deliverers : deliver[d].pc \in {"send", "evict", "resend"} /\ deliver[d].buf = b})
  + Cardinality({i \in 1 .. Len(queue) : queue[i].buf = b})
  + Cardinality({f \in {"buf", "new"} : loop[f] = b})
  + (IF encode = b THEN 1 ELSE 0)

\* ... and the value copies of the tick loop, which borrow lastRawVideo's.
Borrowed(b) ==
  FrameSync /\ ((\E s \in Sources : todo[s] = b) \/ (\E d \in Deliverers : deliver[d].buf = b))

\* FramePool.Acquire: a pooled buffer, or on a miss a new allocation.
Acquirable == IF pool # {} THEN pool
              ELSE {b \in Buffers : refs[b] = 0 /\ Counted(b) = 0 /\ ~ Borrowed(b)}

\* ReleaseYUV of every buffer in dropped: the last reference returns the buffer to the
\* pool, which takes it while it has room; an underflow is logged and leaks.
Release(dropped) ==
  /\ refs' = [b \in Buffers |-> IF b \in dropped THEN refs[b] - 1 ELSE refs[b]]
  /\ \E kept \in SUBSET {b \in dropped : refs[b] = 1} :
       /\ pool' = pool \cup kept
       /\ \/ kept = {b \in dropped : refs[b] = 1} /\ Cardinality(pool \cup kept) <= PoolCap
          \/ kept # {b \in dropped : refs[b] = 1} /\ Cardinality(pool \cup kept) = PoolCap
-----------------------------------------------------------------------------
(* Program changes and the set of sources, as far as frames see them      *)

\* Cut, or the completion of a mix.
ChangeProgram(s) ==
  /\ s \in sources /\ s # program /\ epoch < MaxEpoch
  /\ program' = s /\ epoch' = epoch + 1
  /\ UNCHANGED <<sources, pool, refs, picture, pending, last, todo, deliver, queue, loop, encode>>

Register(s) ==
  /\ s \notin sources
  /\ sources' = sources \cup {s}
  /\ UNCHANGED <<program, epoch, pool, refs, picture, pending, last, todo, deliver, queue, loop, encode>>

\* RemoveSource releases what the synchronizer holds of the source.
Unregister(s) ==
  /\ mode \in Removals /\ s \in sources
  /\ sources' = sources \ {s}
  /\ IF s = program THEN epoch < MaxEpoch /\ program' = NoSource /\ epoch' = epoch + 1
                    ELSE UNCHANGED <<program, epoch>>
  /\ pending' = [pending EXCEPT ![s] = <<>>]
  /\ last' = [last EXCEPT ![s] = NoBuffer]
  /\ Release(({pending[s][i] : i \in 1 .. Len(pending[s])} \cup {last[s]}) \cap Buffers)
  /\ UNCHANGED <<picture, todo, deliver, queue, loop, encode>>
-----------------------------------------------------------------------------
(* Frames enter: with frame sync into the ring, else straight to routing.  *)

\* IngestRawVideo and pushRawVideo: a full ring releases its oldest frame.
Push(s) ==
  /\ FrameSync /\ s \in sources
  /\ \E b \in Acquirable :
       LET ring == pending[s]
           full == Len(ring) = RingSize
           rest == IF full THEN Tail(ring) ELSE ring
           freed == full /\ refs[Head(ring)] = 1
       IN /\ pending' = [pending EXCEPT ![s] = Append(rest, b)]
          /\ picture' = [picture EXCEPT ![b] = s]
          /\ refs' = [c \in Buffers |-> IF c = b THEN 1
                                         ELSE IF full /\ c = Head(ring) THEN refs[c] - 1 ELSE refs[c]]
          /\ pool' = IF freed THEN (pool \ {b}) \cup {Head(ring)} ELSE pool \ {b}
  /\ UNCHANGED <<program, epoch, sources, last, todo, deliver, queue, loop, encode>>

\* releaseTick, phase 1: of every source the newest frame, or the last one again.
\* Older pending frames and the replaced lastRawVideo are released.
TickPop ==
  /\ FrameSync /\ deliver["tick"].pc = "idle" /\ \A s \in Sources : todo[s] = NoBuffer
  /\ LET fresh == {s \in sources : pending[s] # <<>>}
         newest == [s \in Sources |-> IF s \in fresh THEN pending[s][Len(pending[s])] ELSE last[s]]
         older == UNION {{pending[s][i] : i \in 1 .. Len(pending[s]) - 1} : s \in fresh}
     IN /\ last' = newest
        /\ todo' = newest
        /\ Release((older \cup {last[s] : s \in fresh}) \cap Buffers)
  /\ pending' = [s \in Sources |-> <<>>]
  /\ UNCHANGED <<program, epoch, sources, picture, deliver, queue, loop, encode>>

\* Phase 3: deliver the copies one by one, no lock held.
TickDeliver(s) ==
  /\ FrameSync /\ deliver["tick"].pc = "idle" /\ todo[s] # NoBuffer
  /\ deliver' = [deliver EXCEPT !["tick"] = [pc |-> "route", src |-> s, buf |-> todo[s], epoch |-> 0]]
  /\ todo' = [todo EXCEPT ![s] = NoBuffer]
  /\ UNCHANGED <<program, epoch, sources, pool, refs, picture, pending, last, queue, loop, encode>>

\* Without frame sync the decoder's goroutine delivers its frame itself.
Decode(s) ==
  /\ ~ FrameSync /\ deliver[s].pc = "idle" /\ s \in sources
  /\ \E b \in Acquirable :
       /\ deliver' = [deliver EXCEPT ![s] = [pc |-> "route", src |-> s, buf |-> b, epoch |-> 0]]
       /\ picture' = [picture EXCEPT ![b] = s]
       /\ refs' = [refs EXCEPT ![b] = 1]
       /\ pool' = pool \ {b}
  /\ UNCHANGED <<program, epoch, sources, pending, last, todo, queue, loop, encode>>
-----------------------------------------------------------------------------
(* handleRawVideoFrame, broadcastProcessedFromPF, enqueueVideoWork         *)

At(d, pc) == deliver[d].pc = pc

\* The deliverer is done; a decoder releases its own reference first.
Done(d) == deliver' = [deliver EXCEPT ![d] = IF FrameSync THEN Free ELSE [@ EXCEPT !.pc = "release"]]

\* The snapshot under s.mu: only the program source's frames go on.
Route(d) ==
  /\ At(d, "route")
  /\ IF deliver[d].src \in sources /\ deliver[d].src = program
       THEN deliver' = [deliver EXCEPT ![d].pc = "stamp"]
       ELSE Done(d)
  /\ UNCHANGED <<program, epoch, sources, pool, refs, picture, pending, last, todo, queue, loop, encode>>

\* Mutant: the pipeline takes no reference of its own.
Stamp_NoRef(d) ==
  /\ At(d, "stamp")
  /\ deliver' = [deliver EXCEPT ![d].pc = "send", ![d].epoch = epoch]
  /\ UNCHANGED <<program, epoch, sources, pool, refs, picture, pending, last, todo, queue, loop, encode>>

\* Without the lock: the epoch is read and the pipeline's reference taken.
Stamp(d) ==
  /\ At(d, "stamp")
  /\ deliver' = [deliver EXCEPT ![d].pc = "send", ![d].epoch = epoch]
  /\ refs' = [refs EXCEPT ![deliver[d].buf] = @ + 1]
  /\ UNCHANGED <<program, epoch, sources, pool, picture, pending, last, todo, queue, loop, encode>>

Work(d) == [buf |-> deliver[d].buf, src |-> deliver[d].src, epoch |-> deliver[d].epoch]

Send(d) ==
  /\ At(d, "send") \/ At(d, "resend")
  /\ Len(queue) < QueueCap
  /\ queue' = Append(queue, Work(d))
  /\ Done(d)
  /\ UNCHANGED <<program, epoch, sources, pool, refs, picture, pending, last, todo, loop, encode>>

SendFull(d) ==
  /\ At(d, "send") /\ Len(queue) = QueueCap
  /\ deliver' = [deliver EXCEPT ![d].pc = "evict"]
  /\ UNCHANGED <<program, epoch, sources, pool, refs, picture, pending, last, todo, queue, loop, encode>>

\* Mutant: the evicted frame is forgotten without its release.
Evict_Leaks(d) ==
  /\ At(d, "evict")
  /\ deliver' = [deliver EXCEPT ![d].pc = "resend"]
  /\ queue' = IF queue = <<>> THEN queue ELSE Tail(queue)
  /\ UNCHANGED <<program, epoch, sources, pool, refs, picture, pending, last, todo, loop, encode>>

\* Newest wins: the oldest work item, if the loop has not taken it, is dropped.
Evict(d) ==
  /\ At(d, "evict")
  /\ deliver' = [deliver EXCEPT ![d].pc = "resend"]
  /\ IF queue = <<>> THEN UNCHANGED <<queue, refs, pool>>
                     ELSE queue' = Tail(queue) /\ Release({Head(queue).buf})
  /\ UNCHANGED <<program, epoch, sources, picture, pending, last, todo, loop, encode>>

\* Another writer filled the slot: the new frame is dropped instead.
GiveUp(d) ==
  /\ At(d, "resend") /\ Len(queue) = QueueCap
  /\ Release({deliver[d].buf})
  /\ Done(d)
  /\ UNCHANGED <<program, epoch, sources, picture, pending, last, todo, queue, loop, encode>>

DecoderRelease(d) ==
  /\ At(d, "release")
  /\ Release({deliver[d].buf})
  /\ deliver' = [deliver EXCEPT ![d] = Free]
  /\ UNCHANGED <<program, epoch, sources, picture, pending, last, todo, queue, loop, encode>>
-----------------------------------------------------------------------------
(* videoProcessingLoop, MakeWritable, the encode node                      *)

\* A frame stamped with another epoch than the current one is discarded.
Dequeue ==
  /\ loop.pc = "wait" /\ queue # <<>>
  /\ queue' = Tail(queue)
  /\ IF Head(queue).epoch # 0 /\ Head(queue).epoch # epoch
       THEN Release({Head(queue).buf}) /\ UNCHANGED loop
       ELSE loop' = [Waiting EXCEPT !.pc = "own", !.buf = Head(queue).buf] /\ UNCHANGED <<refs, pool>>
  /\ UNCHANGED <<program, epoch, sources, picture, pending, last, todo, deliver, encode>>

\* Mutant: a shared buffer is written in place.
MakeWritable_InPlace ==
  /\ loop.pc = "own"
  /\ loop' = [loop EXCEPT !.pc = "process"]
  /\ UNCHANGED <<program, epoch, sources, pool, refs, picture, pending, last, todo, deliver, queue, encode>>

\* MakeWritable: a sole owner keeps its buffer, another copies it ...
MakeWritable ==
  /\ loop.pc = "own"
  /\ \/ /\ refs[loop.buf] <= 1
        /\ loop' = [loop EXCEPT !.pc = "process"]
        /\ UNCHANGED <<refs, pool, picture>>
     \/ /\ refs[loop.buf] > 1
        /\ \E b \in Acquirable :
             /\ loop' = [loop EXCEPT !.pc = "detach", !.new = b]
             /\ refs' = [refs EXCEPT ![b] = 1]
             /\ pool' = pool \ {b}
             /\ picture' = [picture EXCEPT ![b] = picture[loop.buf]]
  /\ UNCHANGED <<program, epoch, sources, pending, last, todo, deliver, queue, encode>>

\* ... and then drops its reference to the shared one, without looking at the result.
Detach ==
  /\ loop.pc = "detach"
  /\ refs' = [refs EXCEPT ![loop.buf] = @ - 1]
  /\ loop' = [pc |-> "process", buf |-> loop.new, new |-> NoBuffer]
  /\ UNCHANGED <<program, epoch, sources, pool, picture, pending, last, todo, deliver, queue, encode>>

\* The nodes have drawn into the buffer; the encode node takes a reference of its own,
\* or drops the frame when the encoder is behind.
Process ==
  /\ loop.pc = "process"
  /\ loop' = [loop EXCEPT !.pc = "release"]
  /\ IF encode = NoBuffer
       THEN encode' = loop.buf /\ refs' = [refs EXCEPT ![loop.buf] = @ + 1]
       ELSE UNCHANGED <<encode, refs>>
  /\ UNCHANGED <<program, epoch, sources, pool, picture, pending, last, todo, deliver, queue>>

LoopRelease ==
  /\ loop.pc = "release"
  /\ Release({loop.buf})
  /\ loop' = Waiting
  /\ UNCHANGED <<program, epoch, sources, picture, pending, last, todo, deliver, queue, encode>>

Encode ==
  /\ encode # NoBuffer
  /\ Release({encode})
  /\ encode' = NoBuffer
  /\ UNCHANGED <<program, epoch, sources, picture, pending, last, todo, deliver, queue, loop>>
-----------------------------------------------------------------------------
Step ==
  \/ \E s \in Sources : ChangeProgram(s) \/ Register(s) \/ Unregister(s) \/ Push(s) \/ TickDeliver(s) \/ Decode(s)
  \/ TickPop
  \/ \E d \in Deliverers : \/ Route(d) \/ Stamp(d) \/ Send(d) \/ SendFull(d) \/ Evict(d)
                           \/ GiveUp(d) \/ DecoderRelease(d)
  \/ Dequeue \/ MakeWritable \/ Detach \/ Process \/ LoopRelease \/ Encode

Next == Step /\ UNCHANGED mode

Spec == Init /\ [][Next]_vars
-----------------------------------------------------------------------------
\* A reference count is the number of holders that will release the buffer.
RefsExact == \A b \in Buffers : refs[b] = Counted(b)

\* A buffer returns to the pool only when the last counted reference is dropped.
PoolUncounted == \A b \in pool : Counted(b) = 0

\* A buffer in the pool is in nobody's hands, not even as a borrowed value copy that
\* the tick still has to deliver.
PoolUnused == PoolUncounted /\ \A b \in pool : ~ Borrowed(b)

\* While the nodes draw into a picture nobody else can see it: not the synchronizer,
\* which may repeat it, not the queue, not the encoder (MakeWritable).
ExclusiveWrite ==
  loop.pc = "process" => Counted(loop.buf) = 1 /\ ~ Borrowed(loop.buf)

\* A frame that passed the epoch check is of the source on program.
ProgramFrames ==
  [][loop.pc = "wait" /\ loop'.pc = "own" => Head(queue).src = program]_vars

\* No pooled buffer is lost: those in the pool and those in use are never fewer than
\* the pool was created with.
NoLeak == Cardinality({b \in Buffers : b \in pool \/ Counted(b) > 0 \/ Borrowed(b)}) >= PoolCap
=============================================================================
