----------------------------- MODULE FrameProofs -----------------------------
(***************************************************************************)
(* Theorems about FramePath for every set of sources and buffers and every *)
(* capacity, as long as no source is unregistered while the frame          *)
(* synchronizer lends its pictures to the tick loop: reference counts are  *)
(* exact, a pooled buffer is in nobody's hands, and the picture that is    *)
(* drawn into is private.                                                  *)
(*                                                                         *)
(* The invariant follows the count of a buffer through each of the places  *)
(* that hold it.  It needs to know that the synchronizer has a buffer in   *)
(* one place only (Distinct), that what the tick borrows is still the      *)
(* source's last picture (Borrowing), and whose the buffers of the loop    *)
(* are (Private).                                                          *)
(***************************************************************************)
EXTENDS FramePath, FiniteSetTheorems, TLAPS

Hands == [pc : {"idle", "route", "stamp", "send", "evict", "resend", "release"},
          src : Sources, buf : Slots, epoch : 0 .. MaxEpoch]
Loops == [pc : {"wait", "own", "detach", "process", "release"}, buf : Slots, new : Slots]

\* TypeOK, with its sets of records named.
Typed ==
  /\ mode \in Modes
  /\ program \in Sources \cup {NoSource} /\ epoch \in 0 .. MaxEpoch /\ sources \in SUBSET Sources
  /\ pool \in SUBSET Buffers /\ refs \in [Buffers -> Int] /\ picture \in [Buffers -> Sources]
  /\ pending \in [Sources -> Seq(Buffers)] /\ \A s \in Sources : Len(pending[s]) <= RingSize
  /\ last \in [Sources -> Slots] /\ todo \in [Sources -> Slots]
  /\ deliver \in [Deliverers -> Hands]
  /\ queue \in Seq(Works) /\ Len(queue) <= QueueCap
  /\ loop \in Loops
  /\ encode \in Slots

\* The synchronizer holds a buffer once.
Distinct ==
  /\ \A s, t \in Sources : \A i \in 1 .. Len(pending[s]), j \in 1 .. Len(pending[t]) :
       pending[s][i] = pending[t][j] => s = t /\ i = j
  /\ \A s, t \in Sources : last[s] = last[t] /\ last[s] # NoBuffer => s = t
  /\ \A s, t \in Sources : \A i \in 1 .. Len(pending[s]) : pending[s][i] # last[t]

\* A deliverer under way has a frame, the loop has one unless it waits, and another
\* while it detaches itself from that.
HandsFull ==
  \A d \in Deliverers :
    /\ deliver[d].pc = "idle" <=> deliver[d].buf = NoBuffer
    /\ FrameSync => deliver[d].pc # "release"

LoopFull ==
  /\ loop.pc = "wait" <=> loop.buf = NoBuffer
  /\ loop.pc = "detach" <=> loop.new # NoBuffer

RingsOfSources ==
  /\ \A s \in Sources : pending[s] # <<>> => s \in sources
  /\ ~ FrameSync => \A s \in Sources : pending[s] = <<>> /\ last[s] = NoBuffer

Shape == Typed /\ HandsFull /\ LoopFull /\ RingsOfSources

\* What the tick has still to deliver, or delivers, is its source's last picture.
Borrowing ==
  FrameSync =>
    /\ \A s \in Sources : todo[s] # NoBuffer => todo[s] = last[s]
    /\ \A d \in Deliverers : deliver[d].buf # NoBuffer => deliver[d].buf = last[deliver[d].src]

\* The copy the loop has made, and the buffer it draws into, are its own.
Own(x) == (loop.pc = "process" /\ loop.buf = x) \/ (loop.pc = "detach" /\ loop.new = x)

Private == \A x \in Buffers : Own(x) => Counted(x) = 1

Exact == RefsExact /\ PoolUncounted /\ Private

FrameInv == Shape /\ Distinct /\ Borrowing /\ Exact
-----------------------------------------------------------------------------
(* The places that hold a buffer, and how often each does.                 *)

One(x) == IF x THEN 1 ELSE 0
Same(b, x) == IF b = x THEN 1 ELSE 0
In(b, S) == IF b \in S THEN 1 ELSE 0

Rings(b) == {p \in Sources \X (1 .. RingSize) : p[2] <= Len(pending[p[1]]) /\ pending[p[1]][p[2]] = b}
Lasts(b) == {s \in Sources : last[s] = b}
Decoders(b) == {d \in Deliverers : ~ FrameSync /\ deliver[d].buf = b}
Senders(b) == {d \in Deliverers : deliver[d].pc \in {"send", "evict", "resend"} /\ deliver[d].buf = b}
Places(q, b) == {i \in 1 .. Len(q) : q[i].buf = b}
Fields(b) == {f \in {"buf", "new"} : loop[f] = b}

LEMMA CountedSum ==
  ASSUME NEW b
  PROVE  Counted(b) = Cardinality(Rings(b)) + Cardinality(Lasts(b)) + Cardinality(Decoders(b))
                        + Cardinality(Senders(b)) + Cardinality(Places(queue, b))
                        + Cardinality(Fields(b)) + One(encode = b)
BY DEF Counted, Rings, Lasts, Decoders, Senders, Places, Fields, One

LEMMA TypeSets == TypeOK <=> Typed
BY DEF TypeOK, Typed, Hands, Loops

\* Two sets that differ in one element at most.
LEMMA OneElement ==
  ASSUME NEW D, IsFiniteSet(D), NEW S \in SUBSET D, NEW T \in SUBSET D, NEW d,
         \A e \in D : e # d => (e \in S <=> e \in T)
  PROVE  /\ Cardinality(S) \in Nat
         /\ Cardinality(T) = Cardinality(S) + One(d \in T) - One(d \in S)
<1>1. IsFiniteSet(S) /\ IsFiniteSet(T)
  BY FS_Subset
<1>2. Cardinality(S \ {d}) = Cardinality(T \ {d})
  <2>1. S \ {d} = T \ {d}
    OBVIOUS
  <2>. QED  BY <2>1
<1>3. Cardinality(S) \in Nat /\ Cardinality(T) \in Nat
  BY <1>1, FS_CardinalityType
<1>4. Cardinality(S \ {d}) = IF d \in S THEN Cardinality(S) - 1 ELSE Cardinality(S)
  BY <1>1, FS_RemoveElement
<1>5. Cardinality(T \ {d}) = IF d \in T THEN Cardinality(T) - 1 ELSE Cardinality(T)
  BY <1>1, FS_RemoveElement
<1>. QED  BY <1>2, <1>3, <1>4, <1>5 DEF One

\* A set with one element at most.
LEMMA AtMostOne ==
  ASSUME NEW S, \A x, y \in S : x = y
  PROVE  Cardinality(S) = One(S # {})
<1>1. CASE S = {}
  BY <1>1, FS_EmptySet DEF One
<1>2. CASE S # {}
  <2>1. PICK x \in S : TRUE
    BY <1>2
  <2>2. S = {x}
    BY <2>1
  <2>. QED  BY <1>2, <2>2, FS_Singleton DEF One
<1>. QED  BY <1>1, <1>2

LEMMA DeliverersFinite == IsFiniteSet(Deliverers)
BY SourceAssumption, FS_Singleton DEF Deliverers

\* The queue: a frame is appended, or the first one is taken.
LEMMA PlacesFinite ==
  ASSUME NEW q \in Seq(Works), NEW b
  PROVE  IsFiniteSet(Places(q, b)) /\ Cardinality(Places(q, b)) \in Nat
<1>1. IsFiniteSet(1 .. Len(q))
  BY FS_Interval
<1>2. IsFiniteSet(Places(q, b))
  BY <1>1, FS_Subset DEF Places
<1>. QED  BY <1>2, FS_CardinalityType

LEMMA PlacesAppend ==
  ASSUME NEW q \in Seq(Works), NEW w \in Works, NEW b
  PROVE  Cardinality(Places(Append(q, w), b)) = Cardinality(Places(q, b)) + One(w.buf = b)
<1>. DEFINE n == Len(q) + 1
<1>1. n \in Nat /\ IsFiniteSet(1 .. n)
  BY FS_Interval
<1>2. Places(q, b) \in SUBSET (1 .. n) /\ Places(Append(q, w), b) \in SUBSET (1 .. n)
  BY DEF Places
<1>3. \A i \in 1 .. n : i # n => (i \in Places(q, b) <=> i \in Places(Append(q, w), b))
  BY DEF Places
<1>4. n \notin Places(q, b) /\ (n \in Places(Append(q, w), b) <=> w.buf = b)
  BY DEF Places
<1>. HIDE DEF n
<1>5. /\ Cardinality(Places(q, b)) \in Nat
      /\ Cardinality(Places(Append(q, w), b))
           = Cardinality(Places(q, b)) + One(n \in Places(Append(q, w), b)) - One(n \in Places(q, b))
  BY <1>1, <1>2, <1>3, OneElement
<1>. QED  BY <1>4, <1>5 DEF One

LEMMA PlacesTail ==
  ASSUME NEW q \in Seq(Works), q # <<>>, NEW b
  PROVE  Cardinality(Places(Tail(q), b)) = Cardinality(Places(q, b)) - One(Head(q).buf = b)
<1>. DEFINE S == Places(q, b)
            T == Places(Tail(q), b)
            f == [i \in T |-> i + 1]
<1>1. IsFiniteSet(S) /\ Cardinality(S) \in Nat /\ IsFiniteSet(T)
  <2>1. Tail(q) \in Seq(Works)
    OBVIOUS
  <2>. QED  BY <2>1, PlacesFinite
<1>2. T \subseteq Int /\ S \subseteq Int
  BY DEF Places
<1>3. \A i \in T : i + 1 \in S \ {1}
  BY DEF Places
<1>4. \A j \in S \ {1} : j - 1 \in T
  BY DEF Places
<1>5. 1 \in S <=> Head(q).buf = b
  BY DEF Places
<1>. HIDE DEF S, T
<1>6. f \in Bijection(T, S \ {1})
  <2>1. f \in [T -> S \ {1}]
    BY <1>3
  <2>2. \A i, j \in T : f[i] = f[j] => i = j
    BY <1>2
  <2>3. \A j \in S \ {1} : \E i \in T : f[i] = j
    <3>. TAKE j \in S \ {1}
    <3>1. j - 1 \in T /\ f[j - 1] = j
      BY <1>2, <1>4
    <3>. QED  BY <3>1
  <2>. HIDE DEF f
  <2>4. DOMAIN f = T
    BY <2>1
  <2>. QED  BY <2>1, <2>2, <2>3, <2>4 DEF Bijection, Injection, Surjection, IsInjective
<1>7. Cardinality(T) = Cardinality(S \ {1})
  BY <1>1, <1>6, FS_Bijection DEF ExistsBijection
<1>8. Cardinality(S \ {1}) = IF 1 \in S THEN Cardinality(S) - 1 ELSE Cardinality(S)
  BY <1>1, FS_RemoveElement
<1>9. Cardinality(T) = Cardinality(S) - One(Head(q).buf = b)
  BY <1>1, <1>5, <1>7, <1>8 DEF One
<1>. QED  BY <1>9 DEF S, T

\* The loop's two buffers.
LEMMA FieldsCount ==
  ASSUME NEW b
  PROVE  Cardinality(Fields(b)) = One(loop.buf = b) + One(loop.new = b)
<1>1. Fields(b) = (IF loop.buf = b THEN {"buf"} ELSE {}) \cup (IF loop.new = b THEN {"new"} ELSE {})
  BY DEF Fields
<1>2. /\ IsFiniteSet({"buf"}) /\ Cardinality({"buf"}) = 1
      /\ Cardinality({"new"}) = 1 /\ Cardinality({}) = 0
  BY FS_Singleton, FS_EmptySet
<1>3. "new" \notin {"buf"}
  OBVIOUS
<1>4. Cardinality({"buf"} \cup {"new"}) = 2
  BY <1>2, <1>3, FS_AddElement
<1>5. CASE loop.buf = b /\ loop.new = b
  <2>1. Fields(b) = {"buf"} \cup {"new"}
    BY <1>1, <1>5
  <2>. QED  BY <1>4, <1>5, <2>1 DEF One
<1>6. CASE loop.buf = b /\ loop.new # b
  <2>1. Fields(b) = {"buf"}
    BY <1>1, <1>6
  <2>. QED  BY <1>2, <1>6, <2>1 DEF One
<1>7. CASE loop.buf # b /\ loop.new = b
  <2>1. Fields(b) = {"new"}
    BY <1>1, <1>7
  <2>. QED  BY <1>2, <1>7, <2>1 DEF One
<1>8. CASE loop.buf # b /\ loop.new # b
  <2>1. Fields(b) = {}
    BY <1>1, <1>8
  <2>. QED  BY <1>2, <1>8, <2>1 DEF One
<1>. QED  BY <1>5, <1>6, <1>7, <1>8

\* The synchronizer's rings and last pictures.
InRing(b) == \E s \in Sources : \E i \in 1 .. Len(pending[s]) : pending[s][i] = b
InLast(b) == \E s \in Sources : last[s] = b

LEMMA SyncCount ==
  ASSUME Shape, Distinct, NEW b \in Buffers
  PROVE  Cardinality(Rings(b)) = One(InRing(b)) /\ Cardinality(Lasts(b)) = One(InLast(b))
<1>0. RingSize \in Nat /\ NoBuffer \notin Buffers
  BY BoundAssumption, BufferAssumption
<1>1. \A p, q \in Rings(b) : p = q
  <2>. SUFFICES ASSUME NEW p \in Rings(b), NEW q \in Rings(b) PROVE p = q
    OBVIOUS
  <2>1. /\ p[1] \in Sources /\ p[2] \in 1 .. Len(pending[p[1]]) /\ pending[p[1]][p[2]] = b
        /\ q[1] \in Sources /\ q[2] \in 1 .. Len(pending[q[1]]) /\ pending[q[1]][q[2]] = b
    BY <1>0 DEF Rings, Shape, Typed
  <2>2. p[1] = q[1] /\ p[2] = q[2]
    BY <2>1 DEF Distinct
  <2>3. p = <<p[1], p[2]>> /\ q = <<q[1], q[2]>>
    BY DEF Rings
  <2>. QED  BY <2>2, <2>3
<1>2. Rings(b) # {} <=> InRing(b)
  <2>1. ASSUME NEW p \in Rings(b) PROVE InRing(b)
    BY <1>0 DEF Rings, InRing, Shape, Typed
  <2>2. ASSUME NEW s \in Sources, NEW i \in 1 .. Len(pending[s]), pending[s][i] = b
        PROVE  <<s, i>> \in Rings(b)
    BY <1>0, <2>2 DEF Rings, Shape, Typed
  <2>. QED  BY <2>1, <2>2 DEF InRing
<1>3. \A s, t \in Lasts(b) : s = t
  BY <1>0 DEF Lasts, Distinct
<1>4. Lasts(b) # {} <=> InLast(b)
  BY DEF Lasts, InLast
<1>5. (Rings(b) # {}) = InRing(b) /\ (Lasts(b) # {}) = InLast(b)
  BY <1>2, <1>4 DEF InRing, InLast
<1>. QED  BY <1>1, <1>3, <1>5, AtMostOne

\* The frames in the deliverers' hands: what frame r of one of them adds to a count.
Decoded(r, b) == One(~ FrameSync /\ r.buf = b)
Sent(r, b) == One(r.pc \in {"send", "evict", "resend"} /\ r.buf = b)

LEMMA HandsCount ==
  ASSUME mode' = mode, NEW d \in Deliverers, NEW r, deliver \in [Deliverers -> Hands],
         deliver' = [deliver EXCEPT ![d] = r], NEW b
  PROVE  /\ Cardinality(Decoders(b)) \in Nat /\ Cardinality(Senders(b)) \in Nat
         /\ Cardinality(Decoders(b))' = Cardinality(Decoders(b)) + Decoded(r, b) - Decoded(deliver[d], b)
         /\ Cardinality(Senders(b))' = Cardinality(Senders(b)) + Sent(r, b) - Sent(deliver[d], b)
<1>1. Deliverers' = Deliverers /\ FrameSync' = FrameSync
  BY DEF Deliverers, FrameSync
<1>2. deliver'[d] = r /\ \A e \in Deliverers : e # d => deliver'[e] = deliver[e]
  OBVIOUS
<1>3. /\ Decoders(b) \in SUBSET Deliverers /\ Decoders(b)' \in SUBSET Deliverers
      /\ \A e \in Deliverers : e # d => (e \in Decoders(b) <=> e \in Decoders(b)')
      /\ (d \in Decoders(b)) = (~ FrameSync /\ deliver[d].buf = b)
      /\ (d \in Decoders(b)') = (~ FrameSync /\ r.buf = b)
  BY <1>1, <1>2 DEF Decoders
<1>4. /\ Senders(b) \in SUBSET Deliverers /\ Senders(b)' \in SUBSET Deliverers
      /\ \A e \in Deliverers : e # d => (e \in Senders(b) <=> e \in Senders(b)')
      /\ (d \in Senders(b)) = (deliver[d].pc \in {"send", "evict", "resend"} /\ deliver[d].buf = b)
      /\ (d \in Senders(b)') = (r.pc \in {"send", "evict", "resend"} /\ r.buf = b)
  BY <1>1, <1>2 DEF Senders
<1>5. /\ Cardinality(Decoders(b)) \in Nat
      /\ Cardinality(Decoders(b))' = Cardinality(Decoders(b)) + One(d \in Decoders(b)') - One(d \in Decoders(b))
  BY <1>3, DeliverersFinite, OneElement
<1>6. /\ Cardinality(Senders(b)) \in Nat
      /\ Cardinality(Senders(b))' = Cardinality(Senders(b)) + One(d \in Senders(b)') - One(d \in Senders(b))
  BY <1>4, DeliverersFinite, OneElement
<1>. QED  BY <1>3, <1>4, <1>5, <1>6 DEF Decoded, Sent

\* A buffer's count, term by term.
Total(b) ==
  One(InRing(b)) + One(InLast(b)) + Cardinality(Decoders(b)) + Cardinality(Senders(b))
    + Cardinality(Places(queue, b)) + One(loop.buf = b) + One(loop.new = b) + One(encode = b)

Terms(b) ==
  /\ Counted(b) = Total(b) /\ Counted(b) \in Nat
  /\ Cardinality(Decoders(b)) \in Nat /\ Cardinality(Senders(b)) \in Nat
  /\ Cardinality(Places(queue, b)) \in Nat

AllTerms == \A b \in Buffers : Terms(b)

LEMMA Totals == Shape /\ Distinct => AllTerms
<1>. SUFFICES ASSUME Shape, Distinct, NEW b \in Buffers PROVE Terms(b)
  BY DEF AllTerms
<1>1. Cardinality(Decoders(b)) \in Nat /\ Cardinality(Senders(b)) \in Nat
  <2>1. Decoders(b) \in SUBSET Deliverers /\ Senders(b) \in SUBSET Deliverers
    BY DEF Decoders, Senders
  <2>2. IsFiniteSet(Decoders(b)) /\ IsFiniteSet(Senders(b))
    BY <2>1, DeliverersFinite, FS_Subset
  <2>. QED  BY <2>2, FS_CardinalityType
<1>2. Cardinality(Places(queue, b)) \in Nat
  BY PlacesFinite DEF Shape, Typed
<1>3. Counted(b) = Total(b)
  BY CountedSum, SyncCount, FieldsCount, <1>1, <1>2 DEF Total, One
<1>4. Total(b) \in Nat
  BY <1>1, <1>2 DEF Total, One
<1>. QED  BY <1>1, <1>2, <1>3, <1>4 DEF Terms

LEMMA TotalsNext == Shape' /\ Distinct' => AllTerms'
BY Totals, PTL

\* What a step leaves alone counts as before.
LEMMA Still ==
  ASSUME NEW b
  PROVE  /\ pending' = pending => One(InRing(b))' = One(InRing(b))
         /\ last' = last => One(InLast(b))' = One(InLast(b))
         /\ UNCHANGED <<mode, deliver>> =>
              /\ Cardinality(Decoders(b))' = Cardinality(Decoders(b))
              /\ Cardinality(Senders(b))' = Cardinality(Senders(b))
         /\ queue' = queue => Cardinality(Places(queue, b))' = Cardinality(Places(queue, b))
<1>1. pending' = pending => One(InRing(b))' = One(InRing(b))
  BY DEF InRing, One
<1>2. last' = last => One(InLast(b))' = One(InLast(b))
  BY DEF InLast, One
<1>3. ASSUME UNCHANGED <<mode, deliver>>
      PROVE  Decoders(b)' = Decoders(b) /\ Senders(b)' = Senders(b)
  BY <1>3 DEF Decoders, Senders, Deliverers, FrameSync
<1>4. queue' = queue => Places(queue, b)' = Places(queue, b)
  BY DEF Places
<1>. QED  BY <1>1, <1>2, <1>3, <1>4
-----------------------------------------------------------------------------
(* What acquiring and releasing do.                                        *)

\* A buffer that can be acquired has no holder.
LEMMA AcquiredFree ==
  ASSUME FrameInv, NEW x \in Acquirable
  PROVE  /\ x \in Buffers /\ refs[x] = 0 /\ Counted(x) = 0
         /\ ~ InRing(x) /\ ~ InLast(x) /\ loop.buf # x /\ loop.new # x
<1>1. x \in Buffers /\ Counted(x) = 0
  BY DEF FrameInv, Shape, Typed, Exact, PoolUncounted, Acquirable
<1>2. refs[x] = 0
  BY <1>1 DEF FrameInv, Exact, RefsExact
<1>3. Terms(x)
  BY <1>1, Totals DEF FrameInv, AllTerms
<1>4. ~ InRing(x)
  <2>. SUFFICES ASSUME InRing(x) PROVE FALSE
    OBVIOUS
  <2>. QED  BY <1>1, <1>3 DEF Terms, Total, One
<1>5. ~ InLast(x)
  <2>. SUFFICES ASSUME InLast(x) PROVE FALSE
    OBVIOUS
  <2>. QED  BY <1>1, <1>3 DEF Terms, Total, One
<1>6. loop.buf # x /\ loop.new # x
  BY <1>1, <1>3 DEF Terms, Total, One
<1>. QED  BY <1>1, <1>2, <1>4, <1>5, <1>6

LEMMA ReleaseTypes ==
  ASSUME Typed, NEW dropped \in SUBSET Buffers, Release(dropped)
  PROVE  /\ pool' \in SUBSET Buffers /\ refs' \in [Buffers -> Int]
         /\ \A b \in Buffers : refs'[b] = refs[b] - In(b, dropped)
         /\ \A b \in pool' : b \in pool \/ (b \in dropped /\ refs[b] = 1)
<1>1. refs' = [b \in Buffers |-> IF b \in dropped THEN refs[b] - 1 ELSE refs[b]]
  BY DEF Release
<1>2. \E kept \in SUBSET {b \in dropped : refs[b] = 1} : pool' = pool \cup kept
  BY DEF Release
<1>. QED  BY <1>1, <1>2 DEF Typed, One, Same, In

\* Private, when no more than one holds the loop's own buffer: the loop does.
LEMMA PrivateNext ==
  ASSUME Shape', Distinct', \A x \in Buffers : Own(x)' => Counted(x)' <= 1
  PROVE  Private'
<1>. SUFFICES ASSUME NEW x \in Buffers, Own(x)' PROVE Counted(x)' = 1
  BY DEF Private
<1>1. Terms(x)'
  BY TotalsNext DEF AllTerms
<1>2. loop'.buf = x \/ loop'.new = x
  BY DEF Own
<1>. QED  BY <1>1, <1>2 DEF Terms, Total, One, Same, In

\* Releasing what the buffers in dropped were held for, once each.
LEMMA ReleaseExact ==
  ASSUME FrameInv, Shape', Distinct', NEW dropped \in SUBSET Buffers, Release(dropped),
         \A b \in Buffers : Counted(b)' = Counted(b) - In(b, dropped),
         loop' = loop \/ loop'.pc \notin {"process", "detach"}
  PROVE  Exact'
<1>0. \A b \in Buffers : Counted(b) \in Nat /\ Counted(b)' \in Nat /\ refs[b] = Counted(b)
  BY Totals, TotalsNext DEF AllTerms, Terms, FrameInv, Exact, RefsExact
<1>1. /\ pool' \in SUBSET Buffers
      /\ \A b \in Buffers : refs'[b] = refs[b] - In(b, dropped)
      /\ \A b \in pool' : b \in pool \/ (b \in dropped /\ refs[b] = 1)
  BY ReleaseTypes DEF FrameInv, Shape
<1>2. RefsExact'
  BY <1>0, <1>1 DEF RefsExact
<1>3. PoolUncounted'
  <2>. SUFFICES ASSUME NEW b \in pool' PROVE Counted(b)' = 0
    BY DEF PoolUncounted
  <2>1. CASE b \in pool
    BY <1>0, <1>1, <2>1 DEF FrameInv, Exact, PoolUncounted, One, Same, In
  <2>2. CASE b \in dropped /\ refs[b] = 1
    BY <1>0, <2>2 DEF One, Same, In
  <2>. QED  BY <1>1, <2>1, <2>2
<1>4. \A x \in Buffers : Own(x)' => Counted(x)' <= 1
  BY <1>0 DEF Own, FrameInv, Exact, Private, One, Same, In
<1>5. Private'
  BY <1>4, PrivateNext
<1>. QED  BY <1>2, <1>3, <1>5 DEF Exact

\* A step that hands the buffers on.
LEMMA KeepExact ==
  ASSUME FrameInv, Shape', Distinct', UNCHANGED <<pool, refs>>,
         \A b \in Buffers : Counted(b)' = Counted(b),
         loop' = loop \/ loop'.pc \notin {"process", "detach"}
           \/ (loop'.pc = "process" /\ Counted(loop'.buf) <= 1)
  PROVE  Exact'
<1>0. \A b \in Buffers : Counted(b) \in Nat
  BY Totals DEF AllTerms, Terms, FrameInv
<1>1. RefsExact'
  BY DEF FrameInv, Exact, RefsExact
<1>2. PoolUncounted'
  BY DEF FrameInv, Shape, Typed, Exact, PoolUncounted
<1>3. \A x \in Buffers : Own(x)' => Counted(x)' <= 1
  BY <1>0 DEF Own, FrameInv, Exact, Private
<1>4. Private'
  BY <1>3, PrivateNext
<1>. QED  BY <1>1, <1>2, <1>4 DEF Exact

\* Another reference to a buffer that somebody holds who is not drawing into it.
LEMMA AddExact ==
  ASSUME FrameInv, Shape', Distinct', NEW x \in Buffers, pool' = pool,
         refs' = [refs EXCEPT ![x] = @ + 1],
         \A b \in Buffers : Counted(b)' = Counted(b) + Same(b, x),
         Counted(x) # 0,
         (loop' = loop /\ ~ Own(x)) \/ loop'.pc \notin {"process", "detach"}
  PROVE  Exact'
<1>0. /\ \A b \in Buffers : Counted(b) \in Nat /\ refs[b] = Counted(b)
      /\ refs \in [Buffers -> Int] /\ pool \subseteq Buffers
  BY Totals DEF AllTerms, Terms, FrameInv, Exact, RefsExact, Shape, Typed
<1>1. RefsExact'
  <2>1. ASSUME NEW b \in Buffers PROVE refs'[b] = refs[b] + Same(b, x)
    BY <1>0 DEF One, Same, In
  <2>. QED  BY <1>0, <2>1 DEF RefsExact, One, Same, In
<1>2. PoolUncounted'
  <2>1. x \notin pool
    BY DEF FrameInv, Exact, PoolUncounted
  <2>2. ASSUME NEW b \in pool PROVE Counted(b)' = 0
    <3>1. b \in Buffers /\ b # x /\ Counted(b) = 0
      BY <1>0, <2>1 DEF FrameInv, Exact, PoolUncounted
    <3>. QED  BY <3>1 DEF One, Same, In
  <2>. QED  BY <2>2 DEF PoolUncounted
<1>3. \A y \in Buffers : Own(y)' => Counted(y)' <= 1
  BY <1>0 DEF Own, FrameInv, Exact, Private, One, Same, In
<1>4. Private'
  BY <1>3, PrivateNext
<1>. QED  BY <1>1, <1>2, <1>4 DEF Exact

\* A buffer is acquired, and the buffers in dropped released on the way.
LEMMA TakeExact ==
  ASSUME FrameInv, Shape', Distinct', NEW x \in Acquirable, NEW dropped \in SUBSET Buffers,
         x \notin dropped,
         \A b \in Buffers : refs'[b] = IF b = x THEN 1 ELSE refs[b] - In(b, dropped),
         \A b \in pool' : b # x /\ (b \in pool \/ (b \in dropped /\ refs[b] = 1)),
         \A b \in Buffers : Counted(b)' = Counted(b) + Same(b, x) - In(b, dropped),
         loop' = loop \/ loop'.pc \notin {"process", "detach"}
           \/ (loop'.pc = "detach" /\ loop'.new = x)
  PROVE  Exact'
<1>0. \A b \in Buffers : Counted(b) \in Nat /\ Counted(b)' \in Nat /\ refs[b] = Counted(b)
  BY Totals, TotalsNext DEF AllTerms, Terms, FrameInv, Exact, RefsExact
<1>1. x \in Buffers /\ Counted(x) = 0 /\ loop.buf # x /\ loop.new # x
  BY AcquiredFree
<1>2. RefsExact'
  BY <1>0, <1>1 DEF RefsExact, One, Same, In
<1>3. PoolUncounted'
  <2>0. pool' \subseteq Buffers
    BY DEF Shape, Typed
  <2>. SUFFICES ASSUME NEW b \in pool' PROVE Counted(b)' = 0
    BY DEF PoolUncounted
  <2>1. CASE b \in pool
    BY <1>0, <2>0, <2>1 DEF FrameInv, Exact, PoolUncounted, One, Same, In
  <2>2. CASE b \in dropped /\ refs[b] = 1
    BY <1>0, <2>0, <2>2 DEF One, Same, In
  <2>. QED  BY <2>1, <2>2
<1>4. \A y \in Buffers : Own(y)' => Counted(y)' <= 1
  BY <1>0, <1>1 DEF Own, FrameInv, Exact, Private, One, Same, In
<1>5. Private'
  BY <1>4, PrivateNext
<1>. QED  BY <1>2, <1>3, <1>5 DEF Exact
-----------------------------------------------------------------------------
(* A deliverer's step.                                                     *)

\* What a deliverer is left with.
HandOk(r) ==
  /\ r \in Hands
  /\ r.pc = "idle" <=> r.buf = NoBuffer
  /\ FrameSync => r.pc # "release" /\ (r.buf # NoBuffer => r.buf = last[r.src])

LEMMA HandFacts ==
  ASSUME FrameInv, NEW d \in Deliverers
  PROVE  HandOk(deliver[d])
BY DEF FrameInv, Shape, Typed, HandsFull, Borrowing, HandOk

\* It moves on with the frame it has ...
LEMMA HandMoves ==
  ASSUME NEW r, HandOk(r), r.pc # "idle", NEW pc \in {"route", "stamp", "send", "evict", "resend"}
  PROVE  /\ HandOk([r EXCEPT !.pc = pc])
         /\ [r EXCEPT !.pc = pc].pc = pc /\ [r EXCEPT !.pc = pc].buf = r.buf /\ r.buf \in Buffers
BY DEF HandOk, Hands, Slots

\* ... or is done with it.
Finished(r) == IF FrameSync THEN Free ELSE [r EXCEPT !.pc = "release"]

LEMMA FreeOk ==
  ASSUME Sources # {}
  PROVE  HandOk(Free) /\ Free.pc = "idle" /\ Free.buf = NoBuffer
<1>1. (CHOOSE s \in Sources : TRUE) \in Sources
  OBVIOUS
<1>2. 0 \in 0 .. MaxEpoch
  BY BoundAssumption
<1>. QED  BY <1>1, <1>2 DEF Free, HandOk, Hands, Slots

LEMMA HandFinished ==
  ASSUME NEW r, HandOk(r), r.pc # "idle"
  PROVE  /\ HandOk(Finished(r)) /\ Finished(r).pc \in {"idle", "release"}
         /\ ~ FrameSync => Finished(r).buf = r.buf
         /\ r.buf \in Buffers
<1>1. Sources # {}
  BY DEF HandOk, Hands
<1>2. CASE FrameSync
  BY <1>1, <1>2, FreeOk DEF Finished, HandOk, Hands, Slots
<1>3. CASE ~ FrameSync
  BY <1>3 DEF Finished, HandOk, Hands, Slots
<1>. QED  BY <1>2, <1>3

\* What the deliverers have, after a step of one of them.
LEMMA HandStep ==
  ASSUME FrameInv, mode' = mode, last' = last,
         \A s \in Sources : todo'[s] = todo[s] \/ todo'[s] = NoBuffer,
         NEW d \in Deliverers, NEW r, HandOk(r), deliver' = [deliver EXCEPT ![d] = r]
  PROVE  deliver' \in [Deliverers' -> Hands] /\ HandsFull' /\ Borrowing'
<1>1. Deliverers' = Deliverers /\ FrameSync' = FrameSync
  BY DEF Deliverers, FrameSync
<1>2. deliver \in [Deliverers -> Hands] /\ r \in Hands
  BY DEF FrameInv, Shape, Typed, HandOk
<1>3. deliver'[d] = r /\ \A e \in Deliverers : e # d => deliver'[e] = deliver[e]
  BY <1>2
<1>4. deliver' \in [Deliverers' -> Hands]
  BY <1>1, <1>2
<1>5. HandsFull'
  BY <1>1, <1>3 DEF FrameInv, Shape, HandsFull, HandOk
<1>6. Borrowing'
  BY <1>1, <1>3 DEF FrameInv, Borrowing, HandOk
<1>. QED  BY <1>4, <1>5, <1>6

\* A step of the deliverers leaves the synchronizer as it is.
LEMMA SameSync ==
  ASSUME FrameInv, UNCHANGED <<mode, pending, last, sources>>
  PROVE  Distinct' /\ RingsOfSources'
BY DEF FrameInv, Shape, Distinct, RingsOfSources, FrameSync

\* How often a deliverer with frame r counts for b.
Held(r, b) == Decoded(r, b) + Sent(r, b)

LEMMA DeliverCount ==
  ASSUME FrameInv, Shape', Distinct', mode' = mode, UNCHANGED <<pending, last, loop, encode>>,
         NEW d \in Deliverers, NEW r, deliver' = [deliver EXCEPT ![d] = r], NEW b \in Buffers
  PROVE  /\ Counted(b) \in Nat
         /\ Counted(b)' = Counted(b) + (Held(r, b) + Cardinality(Places(queue, b))')
              - (Held(deliver[d], b) + Cardinality(Places(queue, b)))
<1>1. Terms(b) /\ Terms(b)'
  BY Totals, TotalsNext DEF FrameInv, AllTerms
<1>2. /\ Cardinality(Decoders(b))' = Cardinality(Decoders(b)) + Decoded(r, b) - Decoded(deliver[d], b)
      /\ Cardinality(Senders(b))' = Cardinality(Senders(b)) + Sent(r, b) - Sent(deliver[d], b)
  <2>1. deliver \in [Deliverers -> Hands]
    BY DEF FrameInv, Shape, Typed
  <2>. QED  BY <2>1, HandsCount
<1>3. One(InRing(b))' = One(InRing(b)) /\ One(InLast(b))' = One(InLast(b))
  BY Still
<1>. QED  BY <1>1, <1>2, <1>3 DEF Terms, Total, Held, Decoded, Sent, One

\* What a deliverer's step leaves as it was, whatever becomes of its frame.
Elsewhere == UNCHANGED <<mode, program, epoch, sources, picture, pending, last, todo, loop, encode>>

LEMMA DeliverShape ==
  ASSUME FrameInv, Elsewhere, NEW d \in Deliverers, NEW r, HandOk(r),
         deliver' = [deliver EXCEPT ![d] = r],
         pool' \in SUBSET Buffers, refs' \in [Buffers -> Int],
         queue' \in Seq(Works), Len(queue') <= QueueCap
  PROVE  Shape' /\ Distinct' /\ Borrowing'
<1>1. deliver' \in [Deliverers' -> Hands] /\ HandsFull' /\ Borrowing'
  BY HandStep DEF Elsewhere
<1>2. Distinct' /\ RingsOfSources'
  BY SameSync DEF Elsewhere
<1>3. Shape'
  BY <1>1, <1>2 DEF Elsewhere, FrameInv, Shape, Typed, LoopFull
<1>. QED  BY <1>1, <1>2, <1>3

LEMMA KeepCount ==
  ASSUME FrameInv, Shape', Distinct', mode' = mode, UNCHANGED <<pending, last, loop, encode>>,
         NEW d \in Deliverers, NEW r, deliver' = [deliver EXCEPT ![d] = r], NEW b \in Buffers,
         Held(r, b) + Cardinality(Places(queue, b))' = Held(deliver[d], b) + Cardinality(Places(queue, b))
  PROVE  Counted(b)' = Counted(b)
<1>1. Terms(b) /\ Terms(b)'
  BY Totals, TotalsNext DEF FrameInv, AllTerms
<1>2. Counted(b)' = Counted(b) + (Held(r, b) + Cardinality(Places(queue, b))')
            - (Held(deliver[d], b) + Cardinality(Places(queue, b)))
  BY DeliverCount
<1>3. Held(r, b) \in Nat /\ Held(deliver[d], b) \in Nat
  BY DEF Held, Decoded, Sent, One
<1>4. /\ Counted(b) \in Nat /\ Cardinality(Places(queue, b)) \in Nat
      /\ Cardinality(Places(queue, b))' \in Nat
  BY <1>1 DEF Terms
<1>. QED  BY <1>2, <1>3, <1>4

\* The steps that hand a frame on, or drop it, without touching a count.
LEMMA DeliverKeeps ==
  ASSUME FrameInv, Elsewhere, UNCHANGED <<pool, refs>>, NEW d \in Deliverers, NEW r, HandOk(r),
         deliver' = [deliver EXCEPT ![d] = r], queue' \in Seq(Works), Len(queue') <= QueueCap,
         \A b \in Buffers : Held(r, b) + Cardinality(Places(queue, b))'
                              = Held(deliver[d], b) + Cardinality(Places(queue, b))
  PROVE  FrameInv'
<1>1. Shape' /\ Distinct' /\ Borrowing'
  <2>1. pool' \in SUBSET Buffers /\ refs' \in [Buffers -> Int]
    BY DEF FrameInv, Shape, Typed
  <2>. QED  BY <2>1, DeliverShape
<1>2. ASSUME NEW b \in Buffers PROVE Counted(b)' = Counted(b)
  <2>1. Held(r, b) + Cardinality(Places(queue, b))' = Held(deliver[d], b) + Cardinality(Places(queue, b))
    OBVIOUS
  <2>. QED  BY <1>1, <2>1, KeepCount DEF Elsewhere
<1>3. Exact'
  BY <1>1, <1>2, KeepExact DEF Elsewhere
<1>. QED  BY <1>1, <1>3 DEF FrameInv

\* The queue as it was.
LEMMA SameQueue ==
  ASSUME FrameInv, queue' = queue
  PROVE  /\ queue' \in Seq(Works) /\ Len(queue') <= QueueCap
         /\ \A b : Cardinality(Places(queue, b))' = Cardinality(Places(queue, b))
BY Still DEF FrameInv, Shape, Typed

LEMMA RouteInv ==
  ASSUME FrameInv, mode' = mode, NEW d \in Deliverers, Route(d)
  PROVE  FrameInv'
<1>0. HandOk(deliver[d]) /\ deliver[d].pc = "route" /\ deliver \in [Deliverers -> Hands]
  BY HandFacts DEF Route, At, FrameInv, Shape, Typed
<1>1. Elsewhere /\ UNCHANGED <<pool, refs, queue>>
  BY DEF Route, Elsewhere
<1>2. CASE deliver' = [deliver EXCEPT ![d].pc = "stamp"]
  <2>. DEFINE r == [deliver[d] EXCEPT !.pc = "stamp"]
  <2>1. deliver' = [deliver EXCEPT ![d] = r]
    BY <1>2
  <2>2. HandOk(r) /\ r.pc = "stamp" /\ r.buf = deliver[d].buf
    BY <1>0, HandMoves
  <2>. HIDE DEF r
  <2>3. \A b \in Buffers : Held(r, b) = Held(deliver[d], b)
    BY <1>0, <2>2 DEF Held, Decoded, Sent
  <2>. QED  BY <1>1, <2>1, <2>2, <2>3, SameQueue, DeliverKeeps
<1>3. CASE Done(d)
  <2>. DEFINE r == Finished(deliver[d])
  <2>1. deliver' = [deliver EXCEPT ![d] = r]
    BY <1>0, <1>3 DEF Done, Finished
  <2>2. /\ HandOk(r) /\ r.pc \in {"idle", "release"}
        /\ ~ FrameSync => r.buf = deliver[d].buf
    BY <1>0, HandFinished
  <2>. HIDE DEF r
  <2>3. \A b \in Buffers : Held(r, b) = Held(deliver[d], b)
    BY <1>0, <2>2 DEF Held, Decoded, Sent
  <2>. QED  BY <1>1, <2>1, <2>2, <2>3, SameQueue, DeliverKeeps
<1>. QED  BY <1>2, <1>3 DEF Route

\* With r in its hands d holds x once less than before.
Drops(d, r, b, x) ==
  Held(r, b) + Cardinality(Places(queue, b))'
    = Held(deliver[d], b) + Cardinality(Places(queue, b)) - Same(b, x)

LEMMA ReleaseCount ==
  ASSUME FrameInv, Shape', Distinct', mode' = mode, UNCHANGED <<pending, last, loop, encode>>,
         NEW d \in Deliverers, NEW r, deliver' = [deliver EXCEPT ![d] = r],
         NEW b \in Buffers, NEW x,
         Drops(d, r, b, x)
  PROVE  Counted(b)' = Counted(b) - Same(b, x)
<1>1. Terms(b) /\ Terms(b)'
  BY Totals, TotalsNext DEF FrameInv, AllTerms
<1>2. Counted(b)' = Counted(b) + (Held(r, b) + Cardinality(Places(queue, b))')
            - (Held(deliver[d], b) + Cardinality(Places(queue, b)))
  BY DeliverCount
<1>3. Held(r, b) \in Nat /\ Held(deliver[d], b) \in Nat /\ Same(b, x) \in Nat
  BY DEF Held, Decoded, Sent, One, Same
<1>4. /\ Counted(b) \in Nat /\ Cardinality(Places(queue, b)) \in Nat
      /\ Cardinality(Places(queue, b))' \in Nat
  BY <1>1 DEF Terms
<1>. QED  BY <1>2, <1>3, <1>4 DEF Drops

\* The steps that release a reference to x.
LEMMA DeliverReleases ==
  ASSUME FrameInv, Elsewhere, NEW d \in Deliverers, NEW r, HandOk(r),
         deliver' = [deliver EXCEPT ![d] = r], queue' \in Seq(Works), Len(queue') <= QueueCap,
         NEW x \in Buffers, Release({x}),
         \A b \in Buffers : Drops(d, r, b, x)
  PROVE  FrameInv'
<1>1. Shape' /\ Distinct' /\ Borrowing'
  <2>1. pool' \in SUBSET Buffers /\ refs' \in [Buffers -> Int]
    BY ReleaseTypes DEF FrameInv, Shape
  <2>. QED  BY <2>1, DeliverShape
<1>2. ASSUME NEW b \in Buffers PROVE Counted(b)' = Counted(b) - Same(b, x)
  <2>1. Drops(d, r, b, x)
    OBVIOUS
  <2>2. mode' = mode /\ UNCHANGED <<pending, last, loop, encode>>
    BY DEF Elsewhere
  <2>. QED  BY <1>1, <2>1, <2>2, ReleaseCount
<1>3. Exact'
  <2>1. \A b \in Buffers : Counted(b)' = Counted(b) - In(b, {x})
    BY <1>2 DEF Same, In
  <2>. QED  BY <1>1, <2>1, ReleaseExact DEF Elsewhere
<1>. QED  BY <1>1, <1>3 DEF FrameInv

\* A frame in a deliverer's hands is counted, and the loop does not draw into it.
LEMMA HandHolds ==
  ASSUME FrameInv, NEW d \in Deliverers, NEW x \in Buffers, deliver[d].buf = x
  PROVE  Counted(x) # 0 /\ ~ Own(x)
<1>1. Terms(x)
  BY Totals DEF FrameInv, AllTerms
<1>2. InLast(x) \/ Cardinality(Decoders(x)) # 0
  <2>1. CASE FrameSync
    <3>1. deliver[d].src \in Sources /\ last[deliver[d].src] = x
      BY <2>1, HandFacts, BufferAssumption DEF HandOk, Hands
    <3>2. InLast(x)
      BY <3>1 DEF InLast
    <3>. QED  BY <3>2
  <2>2. CASE ~ FrameSync
    <3>1. d \in Decoders(x) /\ Decoders(x) \in SUBSET Deliverers
      BY <2>2 DEF Decoders
    <3>2. Cardinality(Decoders(x)) # 0
      BY <3>1, DeliverersFinite, FS_Subset, FS_EmptySet
    <3>. QED  BY <3>2
  <2>. QED  BY <2>1, <2>2
<1>3. Counted(x) # 0
  <2>1. CASE InLast(x)
    BY <1>1, <2>1 DEF Terms, Total, One
  <2>2. ASSUME Cardinality(Decoders(x)) # 0, Counted(x) = 0 PROVE FALSE
    BY <1>1, <2>2 DEF Terms, Total, One
  <2>. QED  BY <1>2, <2>1, <2>2
<1>4. ASSUME Own(x) PROVE FALSE
  <2>1. Counted(x) = 1
    BY <1>4 DEF FrameInv, Exact, Private
  <2>2. loop.buf = x \/ loop.new = x
    BY <1>4 DEF Own
  <2>3. CASE InLast(x)
    BY <1>1, <2>1, <2>2, <2>3 DEF Terms, Total, One
  <2>4. CASE Cardinality(Decoders(x)) # 0
    BY <1>1, <2>1, <2>2, <2>4 DEF Terms, Total, One
  <2>. QED  BY <1>2, <2>3, <2>4
<1>. QED  BY <1>3, <1>4

LEMMA StampInv ==
  ASSUME FrameInv, mode' = mode, NEW d \in Deliverers, Stamp(d)
  PROVE  FrameInv'
<1>. DEFINE r == [deliver[d] EXCEPT !.pc = "send", !.epoch = epoch]
            x == deliver[d].buf
<1>0. HandOk(deliver[d]) /\ deliver[d].pc = "stamp" /\ epoch \in 0 .. MaxEpoch
  BY HandFacts DEF Stamp, At, FrameInv, Shape, Typed
<1>1. Elsewhere /\ UNCHANGED <<pool, queue>> /\ refs' = [refs EXCEPT ![x] = @ + 1]
  BY DEF Stamp, Elsewhere
<1>2. deliver' = [deliver EXCEPT ![d] = r]
  BY DEF Stamp
<1>3. HandOk(r) /\ r.pc = "send" /\ r.buf = x /\ x \in Buffers
  BY <1>0 DEF HandOk, Hands, Slots
<1>4. Counted(x) # 0 /\ ~ Own(x)
  BY <1>3, HandHolds
<1>5. deliver[d].buf = x
  OBVIOUS
<1>. HIDE DEF r, x
<1>6. Shape' /\ Distinct' /\ Borrowing'
  <2>1. pool' \in SUBSET Buffers /\ refs' \in [Buffers -> Int]
    BY <1>1, <1>3 DEF FrameInv, Shape, Typed
  <2>. QED  BY <1>1, <1>2, <1>3, <2>1, SameQueue, DeliverShape
<1>7. ASSUME NEW b \in Buffers PROVE Counted(b)' = Counted(b) + Same(b, x)
  <2>1. Terms(b) /\ Terms(b)'
    BY <1>6, Totals, TotalsNext DEF FrameInv, AllTerms
  <2>2. Counted(b)' = Counted(b) + (Held(r, b) + Cardinality(Places(queue, b))')
              - (Held(deliver[d], b) + Cardinality(Places(queue, b)))
    BY <1>1, <1>2, <1>6, DeliverCount DEF Elsewhere
  <2>3. Cardinality(Places(queue, b))' = Cardinality(Places(queue, b))
    BY <1>1, SameQueue
  <2>4. Held(r, b) = Held(deliver[d], b) + Same(b, x)
    BY <1>0, <1>3, <1>5 DEF Held, Decoded, Sent, One, Same
  <2>5. Held(deliver[d], b) \in Nat /\ Same(b, x) \in Nat
    BY DEF Held, Decoded, Sent, One, Same
  <2>. QED  BY <2>1, <2>2, <2>3, <2>4, <2>5 DEF Terms
<1>8. Exact'
  BY <1>1, <1>3, <1>4, <1>6, <1>7, AddExact DEF Elsewhere
<1>. QED  BY <1>6, <1>8 DEF FrameInv

LEMMA SendInv ==
  ASSUME FrameInv, mode' = mode, NEW d \in Deliverers, Send(d)
  PROVE  FrameInv'
<1>. DEFINE r == Finished(deliver[d])
            w == Work(d)
<1>0. /\ HandOk(deliver[d]) /\ deliver[d].pc \in {"send", "resend"}
      /\ queue \in Seq(Works) /\ Len(queue) < QueueCap
  BY HandFacts DEF Send, At, FrameInv, Shape, Typed
<1>1. Elsewhere /\ UNCHANGED <<pool, refs>> /\ queue' = Append(queue, w)
  BY DEF Send, Elsewhere
<1>2. deliver' = [deliver EXCEPT ![d] = r]
  BY DEF Send, Done, Finished
<1>3. /\ HandOk(r) /\ r.pc \in {"idle", "release"}
      /\ ~ FrameSync => r.buf = deliver[d].buf
      /\ deliver[d].buf \in Buffers
  BY <1>0, HandFinished
<1>4. w \in Works /\ w.buf = deliver[d].buf
  BY <1>0, <1>3 DEF Work, Works, HandOk, Hands
<1>. HIDE DEF r, w
<1>5. queue' \in Seq(Works) /\ Len(queue') <= QueueCap
  BY <1>0, <1>1, <1>4, BoundAssumption
<1>6. ASSUME NEW b \in Buffers
      PROVE  Held(r, b) + Cardinality(Places(queue, b))'
               = Held(deliver[d], b) + Cardinality(Places(queue, b))
  <2>1. Cardinality(Places(queue, b))' = Cardinality(Places(queue, b)) + One(w.buf = b)
    BY <1>0, <1>1, <1>4, PlacesAppend
  <2>2. Cardinality(Places(queue, b)) \in Nat
    BY <1>0, PlacesFinite
  <2>3. Held(deliver[d], b) = Held(r, b) + One(w.buf = b)
    BY <1>0, <1>3, <1>4 DEF Held, Decoded, Sent, One, Same
  <2>4. Held(r, b) \in Nat /\ One(w.buf = b) \in Nat
    BY DEF Held, Decoded, Sent, One, Same
  <2>. QED  BY <2>1, <2>2, <2>3, <2>4
<1>. QED  BY <1>1, <1>2, <1>3, <1>5, <1>6, DeliverKeeps

LEMMA SendFullInv ==
  ASSUME FrameInv, mode' = mode, NEW d \in Deliverers, SendFull(d)
  PROVE  FrameInv'
<1>. DEFINE r == [deliver[d] EXCEPT !.pc = "evict"]
<1>0. HandOk(deliver[d]) /\ deliver[d].pc = "send"
  BY HandFacts DEF SendFull, At
<1>1. Elsewhere /\ UNCHANGED <<pool, refs, queue>>
  BY DEF SendFull, Elsewhere
<1>2. deliver' = [deliver EXCEPT ![d] = r]
  BY DEF SendFull
<1>3. HandOk(r) /\ r.pc = "evict" /\ r.buf = deliver[d].buf
  BY <1>0, HandMoves
<1>. HIDE DEF r
<1>4. \A b \in Buffers : Held(r, b) = Held(deliver[d], b)
  BY <1>0, <1>3 DEF Held, Decoded, Sent
<1>. QED  BY <1>1, <1>2, <1>3, <1>4, SameQueue, DeliverKeeps

LEMMA QueueTail ==
  ASSUME FrameInv, queue # <<>>, queue' = Tail(queue)
  PROVE  /\ queue' \in Seq(Works) /\ Len(queue') <= QueueCap
         /\ Head(queue) \in Works /\ Head(queue).buf \in Buffers
         /\ \A b : /\ Cardinality(Places(queue, b)) \in Nat
                   /\ Cardinality(Places(queue, b))'
                        = Cardinality(Places(queue, b)) - One(Head(queue).buf = b)
<1>1. queue \in Seq(Works) /\ Len(queue) <= QueueCap /\ QueueCap \in Nat
  BY BoundAssumption DEF FrameInv, Shape, Typed
<1>2. queue' \in Seq(Works) /\ Len(queue') <= QueueCap /\ Head(queue) \in Works
  BY <1>1
<1>3. Head(queue).buf \in Buffers
  BY <1>2 DEF Works
<1>4. ASSUME NEW b
      PROVE  /\ Cardinality(Places(queue, b)) \in Nat
             /\ Cardinality(Places(queue, b))'
                  = Cardinality(Places(queue, b)) - One(Head(queue).buf = b)
  BY <1>1, PlacesFinite, PlacesTail
<1>. QED  BY <1>2, <1>3, <1>4

LEMMA EvictInv ==
  ASSUME FrameInv, mode' = mode, NEW d \in Deliverers, Evict(d)
  PROVE  FrameInv'
<1>. DEFINE r == [deliver[d] EXCEPT !.pc = "resend"]
<1>0. HandOk(deliver[d]) /\ deliver[d].pc = "evict"
  BY HandFacts DEF Evict, At
<1>1. Elsewhere
  BY DEF Evict, Elsewhere
<1>2. deliver' = [deliver EXCEPT ![d] = r]
  BY DEF Evict
<1>3. HandOk(r) /\ r.pc = "resend" /\ r.buf = deliver[d].buf
  BY <1>0, HandMoves
<1>. HIDE DEF r
<1>4. \A b \in Buffers : Held(r, b) = Held(deliver[d], b)
  BY <1>0, <1>3 DEF Held, Decoded, Sent
<1>5. CASE queue = <<>>
  <2>1. UNCHANGED <<pool, refs, queue>>
    BY <1>5 DEF Evict
  <2>. QED  BY <1>1, <1>2, <1>3, <1>4, <2>1, SameQueue, DeliverKeeps
<1>6. CASE queue # <<>>
  <2>. DEFINE x == Head(queue).buf
  <2>1. queue' = Tail(queue) /\ Release({x})
    BY <1>6 DEF Evict
  <2>2. queue' \in Seq(Works) /\ Len(queue') <= QueueCap /\ x \in Buffers
    BY <1>6, <2>1, QueueTail
  <2>3. ASSUME NEW b \in Buffers
        PROVE  Drops(d, r, b, x)
    <3>1. /\ Cardinality(Places(queue, b)) \in Nat
          /\ Cardinality(Places(queue, b))' = Cardinality(Places(queue, b)) - Same(b, x)
      BY <1>6, <2>1, QueueTail DEF Same, One
    <3>2. Held(deliver[d], b) \in Nat /\ Same(b, x) \in Nat
      BY DEF Held, Decoded, Sent, One, Same
    <3>. QED  BY <1>4, <3>1, <3>2 DEF Drops
  <2>. HIDE DEF x
  <2>. QED  BY <1>1, <1>2, <1>3, <2>1, <2>2, <2>3, DeliverReleases
<1>. QED  BY <1>5, <1>6

LEMMA GiveUpInv ==
  ASSUME FrameInv, mode' = mode, NEW d \in Deliverers, GiveUp(d)
  PROVE  FrameInv'
<1>. DEFINE r == Finished(deliver[d])
            x == deliver[d].buf
<1>0. HandOk(deliver[d]) /\ deliver[d].pc = "resend"
  BY HandFacts DEF GiveUp, At
<1>1. Elsewhere /\ UNCHANGED queue /\ Release({x})
  BY DEF GiveUp, Elsewhere
<1>2. deliver' = [deliver EXCEPT ![d] = r]
  BY DEF GiveUp, Done, Finished
<1>3. /\ HandOk(r) /\ r.pc \in {"idle", "release"} /\ x \in Buffers
      /\ ~ FrameSync => r.buf = x
  BY <1>0, HandFinished
<1>4. deliver[d].buf = x
  OBVIOUS
<1>. HIDE DEF r, x
<1>5. ASSUME NEW b \in Buffers
      PROVE  Drops(d, r, b, x)
  <2>1. Cardinality(Places(queue, b))' = Cardinality(Places(queue, b))
    BY <1>1, SameQueue
  <2>2. Cardinality(Places(queue, b)) \in Nat
    BY PlacesFinite DEF FrameInv, Shape, Typed
  <2>3. Held(r, b) = Held(deliver[d], b) - Same(b, x)
    BY <1>0, <1>3, <1>4 DEF Held, Decoded, Sent, One, Same
  <2>4. Held(deliver[d], b) \in Nat /\ Same(b, x) \in Nat
    BY DEF Held, Decoded, Sent, One, Same
  <2>. QED  BY <2>1, <2>2, <2>3, <2>4 DEF Drops
<1>6. queue' \in Seq(Works) /\ Len(queue') <= QueueCap
  BY <1>1, SameQueue
<1>. QED  BY <1>1, <1>2, <1>3, <1>5, <1>6, DeliverReleases

LEMMA DecoderReleaseInv ==
  ASSUME FrameInv, mode' = mode, NEW d \in Deliverers, DecoderRelease(d)
  PROVE  FrameInv'
<1>. DEFINE x == deliver[d].buf
<1>0. HandOk(deliver[d]) /\ deliver[d].pc = "release"
  BY HandFacts DEF DecoderRelease, At
<1>1. Elsewhere /\ UNCHANGED queue /\ Release({x})
  BY DEF DecoderRelease, Elsewhere
<1>2. deliver' = [deliver EXCEPT ![d] = Free]
  BY DEF DecoderRelease
<1>3. x \in Buffers /\ ~ FrameSync /\ Sources # {}
  BY <1>0 DEF HandOk, Hands, Slots
<1>4. HandOk(Free) /\ Free.pc = "idle" /\ Free.buf = NoBuffer
  BY <1>3, FreeOk
<1>5. deliver[d].buf = x
  OBVIOUS
<1>. HIDE DEF x
<1>6. ASSUME NEW b \in Buffers
      PROVE  Drops(d, Free, b, x)
  <2>1. Cardinality(Places(queue, b))' = Cardinality(Places(queue, b))
    BY <1>1, SameQueue
  <2>2. Cardinality(Places(queue, b)) \in Nat
    BY PlacesFinite DEF FrameInv, Shape, Typed
  <2>3. Held(deliver[d], b) = Same(b, x) /\ Held(Free, b) = 0
    BY <1>0, <1>3, <1>4, <1>5, BufferAssumption DEF Held, Decoded, Sent, One, Same
  <2>4. Same(b, x) \in Nat
    BY DEF Same
  <2>. QED  BY <2>1, <2>2, <2>3, <2>4 DEF Drops
<1>7. queue' \in Seq(Works) /\ Len(queue') <= QueueCap
  BY <1>1, SameQueue
<1>. QED  BY <1>1, <1>2, <1>3, <1>4, <1>6, <1>7, DeliverReleases
-----------------------------------------------------------------------------
(* The processing loop and the encoder.                                    *)

\* How often the loop and the encoder count for b.
Taken(b) == One(loop.buf = b) + One(loop.new = b) + One(encode = b)

\* What their steps leave alone.
Before == UNCHANGED <<mode, program, epoch, sources, pending, last, todo, deliver>>

LEMMA LoopShape ==
  ASSUME FrameInv, Before, pool' \in SUBSET Buffers, refs' \in [Buffers -> Int],
         picture' \in [Buffers -> Sources], queue' \in Seq(Works), Len(queue') <= QueueCap,
         loop' \in Loops, LoopFull', encode' \in Slots
  PROVE  Shape' /\ Distinct' /\ Borrowing'
<1>1. Distinct' /\ RingsOfSources'
  BY SameSync DEF Before
<1>2. Deliverers' = Deliverers /\ FrameSync' = FrameSync
  BY DEF Before, Deliverers, FrameSync
<1>3. HandsFull' /\ Borrowing'
  BY <1>2 DEF Before, FrameInv, Shape, HandsFull, Borrowing
<1>4. Shape'
  BY <1>1, <1>2, <1>3 DEF Before, FrameInv, Shape, Typed
<1>. QED  BY <1>1, <1>3, <1>4

LEMMA LoopCount ==
  ASSUME FrameInv, Shape', Distinct', Before, NEW b \in Buffers
  PROVE  /\ Counted(b) \in Nat /\ Taken(b) \in Nat /\ Taken(b)' \in Nat
         /\ Cardinality(Places(queue, b)) \in Nat /\ Cardinality(Places(queue, b))' \in Nat
         /\ Counted(b)' = Counted(b) + (Taken(b)' + Cardinality(Places(queue, b))')
              - (Taken(b) + Cardinality(Places(queue, b)))
<1>1. Terms(b) /\ Terms(b)'
  BY Totals, TotalsNext DEF FrameInv, AllTerms
<1>2. /\ One(InRing(b))' = One(InRing(b)) /\ One(InLast(b))' = One(InLast(b))
      /\ Cardinality(Decoders(b))' = Cardinality(Decoders(b))
      /\ Cardinality(Senders(b))' = Cardinality(Senders(b))
  BY Still DEF Before
<1>3. Taken(b) \in Nat /\ Taken(b)' \in Nat
  BY DEF Taken, One
<1>. QED  BY <1>1, <1>2, <1>3 DEF Terms, Total, Taken, One

LEMMA LoopKeepsCount ==
  ASSUME FrameInv, Shape', Distinct', Before, NEW b \in Buffers,
         Taken(b)' + Cardinality(Places(queue, b))' = Taken(b) + Cardinality(Places(queue, b))
  PROVE  Counted(b)' = Counted(b)
<1>1. /\ Counted(b) \in Nat /\ Taken(b) \in Nat /\ Taken(b)' \in Nat
      /\ Cardinality(Places(queue, b)) \in Nat /\ Cardinality(Places(queue, b))' \in Nat
  BY LoopCount
<1>2. Counted(b)' = Counted(b) + (Taken(b)' + Cardinality(Places(queue, b))')
              - (Taken(b) + Cardinality(Places(queue, b)))
  BY LoopCount
<1>. QED  BY <1>1, <1>2

LEMMA LoopReleaseCount ==
  ASSUME FrameInv, Shape', Distinct', Before, NEW b \in Buffers, NEW x,
         Taken(b)' + Cardinality(Places(queue, b))'
           = Taken(b) + Cardinality(Places(queue, b)) - Same(b, x)
  PROVE  Counted(b)' = Counted(b) - Same(b, x)
<1>1. /\ Counted(b) \in Nat /\ Taken(b) \in Nat /\ Taken(b)' \in Nat
      /\ Cardinality(Places(queue, b)) \in Nat /\ Cardinality(Places(queue, b))' \in Nat
  BY LoopCount
<1>2. Counted(b)' = Counted(b) + (Taken(b)' + Cardinality(Places(queue, b))')
              - (Taken(b) + Cardinality(Places(queue, b)))
  BY LoopCount
<1>3. Same(b, x) \in Nat
  BY DEF Same
<1>. QED  BY <1>1, <1>2, <1>3

\* The steps that release a reference to x.
LEMMA LoopReleases ==
  ASSUME FrameInv, Before, UNCHANGED picture, queue' \in Seq(Works), Len(queue') <= QueueCap,
         loop' \in Loops, LoopFull', encode' \in Slots, NEW x \in Buffers, Release({x}),
         loop' = loop \/ loop'.pc \notin {"process", "detach"},
         \A b \in Buffers : Taken(b)' + Cardinality(Places(queue, b))'
                              = Taken(b) + Cardinality(Places(queue, b)) - Same(b, x)
  PROVE  FrameInv'
<1>1. Shape' /\ Distinct' /\ Borrowing'
  <2>1. pool' \in SUBSET Buffers /\ refs' \in [Buffers -> Int] /\ picture' \in [Buffers -> Sources]
    BY ReleaseTypes DEF FrameInv, Shape, Typed
  <2>. QED  BY <2>1, LoopShape
<1>2. ASSUME NEW b \in Buffers PROVE Counted(b)' = Counted(b) - Same(b, x)
  BY <1>1, LoopReleaseCount
<1>3. Exact'
  <2>1. \A b \in Buffers : Counted(b)' = Counted(b) - In(b, {x})
    BY <1>2 DEF Same, In
  <2>. QED  BY <1>1, <2>1, ReleaseExact
<1>. QED  BY <1>1, <1>3 DEF FrameInv

LEMMA LoopFacts ==
  ASSUME FrameInv
  PROVE  /\ loop \in Loops /\ LoopFull /\ encode \in Slots /\ NoBuffer \notin Buffers
         /\ loop.pc # "wait" => loop.buf \in Buffers
         /\ loop.pc # "detach" => loop.new = NoBuffer
         /\ loop.pc = "detach" => loop.new \in Buffers
         /\ queue \in Seq(Works) /\ Len(queue) <= QueueCap
         /\ pool \in SUBSET Buffers /\ refs \in [Buffers -> Int] /\ picture \in [Buffers -> Sources]
BY BufferAssumption DEF FrameInv, Shape, Typed, LoopFull, Loops, Slots

LEMMA DequeueInv ==
  ASSUME FrameInv, mode' = mode, Dequeue
  PROVE  FrameInv'
<1>. DEFINE x == Head(queue).buf
<1>0. Before /\ UNCHANGED <<picture, encode>> /\ queue # <<>> /\ queue' = Tail(queue) /\ loop.pc = "wait"
  BY DEF Dequeue, Before
<1>1. /\ queue' \in Seq(Works) /\ Len(queue') <= QueueCap /\ x \in Buffers
      /\ \A b : /\ Cardinality(Places(queue, b)) \in Nat
                /\ Cardinality(Places(queue, b))' = Cardinality(Places(queue, b)) - Same(b, x)
  BY <1>0, QueueTail DEF Same, One
<1>2. CASE Release({x}) /\ UNCHANGED loop
  <2>1. loop' \in Loops /\ LoopFull' /\ encode' \in Slots
    BY <1>0, <1>2, LoopFacts DEF LoopFull
  <2>2. ASSUME NEW b \in Buffers
        PROVE  Taken(b)' + Cardinality(Places(queue, b))'
                 = Taken(b) + Cardinality(Places(queue, b)) - Same(b, x)
    <3>1. Taken(b)' = Taken(b) /\ Taken(b) \in Nat /\ Same(b, x) \in Nat
      BY <1>0, <1>2 DEF Taken, One, Same
    <3>. QED  BY <1>1, <3>1
  <2>. HIDE DEF x
  <2>. QED  BY <1>0, <1>1, <1>2, <2>1, <2>2, LoopReleases
<1>3. CASE loop' = [Waiting EXCEPT !.pc = "own", !.buf = x] /\ UNCHANGED <<refs, pool>>
  <2>1. loop'.pc = "own" /\ loop'.buf = x /\ loop'.new = NoBuffer
    BY <1>3 DEF Waiting
  <2>2. loop' \in Loops /\ LoopFull' /\ encode' \in Slots
    BY <1>0, <1>1, <1>3, LoopFacts DEF Waiting, LoopFull, Loops, Slots
  <2>3. Shape' /\ Distinct' /\ Borrowing'
    BY <1>0, <1>1, <1>3, <2>2, LoopFacts, LoopShape
  <2>4. ASSUME NEW b \in Buffers PROVE Counted(b)' = Counted(b)
    <3>1. Taken(b)' = Taken(b) + Same(b, x) /\ Taken(b) \in Nat /\ Same(b, x) \in Nat
      BY <1>0, <2>1, LoopFacts DEF LoopFull, Taken, One, Same
    <3>2. Taken(b)' + Cardinality(Places(queue, b))' = Taken(b) + Cardinality(Places(queue, b))
      BY <1>1, <3>1
    <3>. QED  BY <1>0, <2>3, <3>2, LoopKeepsCount
  <2>5. Exact'
    BY <1>3, <2>1, <2>3, <2>4, KeepExact
  <2>. QED  BY <2>3, <2>5 DEF FrameInv
<1>. QED  BY <1>2, <1>3 DEF Dequeue

\* The loop's buffer is counted.
LEMMA LoopHolds ==
  ASSUME FrameInv, NEW x \in Buffers, loop.buf = x
  PROVE  Counted(x) # 0
<1>1. Terms(x)
  BY Totals DEF FrameInv, AllTerms
<1>. QED  BY <1>1 DEF Terms, Total, One

LEMMA MakeWritableInv ==
  ASSUME FrameInv, mode' = mode, MakeWritable
  PROVE  FrameInv'
<1>0. Before /\ UNCHANGED <<queue, encode>> /\ loop.pc = "own"
  BY DEF MakeWritable, Before
<1>1. CASE refs[loop.buf] <= 1 /\ loop' = [loop EXCEPT !.pc = "process"] /\ UNCHANGED <<refs, pool, picture>>
  <2>1. loop'.pc = "process" /\ loop'.buf = loop.buf /\ loop'.new = loop.new
    BY <1>1, LoopFacts DEF Loops
  <2>2. loop' \in Loops /\ LoopFull' /\ encode' \in Slots
    BY <1>0, <1>1, LoopFacts DEF LoopFull, Loops
  <2>3. Shape' /\ Distinct' /\ Borrowing'
    BY <1>0, <1>1, <2>2, LoopFacts, LoopShape
  <2>4. ASSUME NEW b \in Buffers PROVE Counted(b)' = Counted(b)
    <3>1. Taken(b)' = Taken(b)
      BY <1>0, <2>1 DEF Taken
    <3>2. Cardinality(Places(queue, b))' = Cardinality(Places(queue, b))
      BY <1>0, Still
    <3>. QED  BY <1>0, <2>3, <3>1, <3>2, LoopKeepsCount
  <2>5. Counted(loop'.buf) <= 1
    BY <1>0, <1>1, <2>1, LoopFacts DEF FrameInv, Exact, RefsExact
  <2>6. Exact'
    BY <1>1, <2>1, <2>3, <2>4, <2>5, KeepExact
  <2>. QED  BY <2>3, <2>6 DEF FrameInv
<1>2. ASSUME NEW x \in Acquirable,
             loop' = [loop EXCEPT !.pc = "detach", !.new = x], refs' = [refs EXCEPT ![x] = 1],
             pool' = pool \ {x}, picture' = [picture EXCEPT ![x] = picture[loop.buf]]
      PROVE  FrameInv'
  <2>1. loop'.pc = "detach" /\ loop'.buf = loop.buf /\ loop'.new = x
    BY <1>2, LoopFacts DEF Loops
  <2>2. x \in Buffers
    BY AcquiredFree
  <2>3. loop' \in Loops /\ LoopFull' /\ encode' \in Slots
    BY <1>0, <1>2, <2>1, <2>2, LoopFacts DEF LoopFull, Loops, Slots
  <2>4. pool' \in SUBSET Buffers /\ refs' \in [Buffers -> Int] /\ picture' \in [Buffers -> Sources]
    <3>1. picture[loop.buf] \in Sources
      BY <1>0, LoopFacts
    <3>. QED  BY <1>2, <2>2, <3>1, LoopFacts
  <2>5. Shape' /\ Distinct' /\ Borrowing'
    BY <1>0, <2>3, <2>4, LoopFacts, LoopShape
  <2>6. ASSUME NEW b \in Buffers PROVE Counted(b)' = Counted(b) + Same(b, x)
    <3>1. Taken(b)' = Taken(b) + Same(b, x) /\ Same(b, x) \in Nat
      BY <1>0, <2>1, LoopFacts DEF Taken, One, Same
    <3>2. Cardinality(Places(queue, b))' = Cardinality(Places(queue, b))
      BY <1>0, Still
    <3>3. /\ Counted(b) \in Nat /\ Taken(b) \in Nat /\ Cardinality(Places(queue, b)) \in Nat
          /\ Counted(b)' = Counted(b) + (Taken(b)' + Cardinality(Places(queue, b))')
              - (Taken(b) + Cardinality(Places(queue, b)))
      BY <1>0, <2>5, LoopCount
    <3>. QED  BY <3>1, <3>2, <3>3
  <2>7. \A b \in Buffers : Counted(b)' = Counted(b) + Same(b, x) - In(b, {})
    <3>1. \A b \in Buffers : Counted(b) \in Nat
      BY Totals DEF FrameInv, AllTerms, Terms
    <3>. QED  BY <2>6, <3>1 DEF Same, In
  <2>8. \A b \in Buffers : refs'[b] = IF b = x THEN 1 ELSE refs[b] - In(b, {})
    BY <1>2, LoopFacts DEF In
  <2>9. \A b \in pool' : b # x /\ b \in pool
    BY <1>2
  <2>. QED  BY <2>1, <2>5, <2>7, <2>8, <2>9, TakeExact DEF FrameInv
<1>. QED  BY <1>1, <1>2 DEF MakeWritable

LEMMA DetachInv ==
  ASSUME FrameInv, mode' = mode, Detach
  PROVE  FrameInv'
<1>. DEFINE x == loop.buf
<1>0. /\ Before /\ UNCHANGED <<pool, picture, queue, encode>> /\ loop.pc = "detach"
      /\ refs' = [refs EXCEPT ![x] = @ - 1]
      /\ loop'.pc = "process" /\ loop'.buf = loop.new /\ loop'.new = NoBuffer
  BY DEF Detach, Before
<1>1. x \in Buffers /\ loop.buf = x /\ loop.new \in Buffers
  BY <1>0, LoopFacts
<1>. HIDE DEF x
<1>2. loop' \in Loops /\ LoopFull' /\ encode' \in Slots
  BY <1>0, <1>1, LoopFacts DEF Detach, LoopFull, Loops, Slots
<1>3. \A b \in Buffers : refs'[b] = refs[b] - Same(b, x)
  BY <1>0, <1>1, LoopFacts DEF Same
<1>4. Shape' /\ Distinct' /\ Borrowing'
  <2>1. refs' \in [Buffers -> Int]
    BY <1>0, <1>1, LoopFacts
  <2>. QED  BY <1>0, <1>2, <2>1, LoopFacts, LoopShape
<1>5. ASSUME NEW b \in Buffers PROVE Counted(b)' = Counted(b) - Same(b, x)
  <2>1. Taken(b)' = Taken(b) - Same(b, x) /\ Same(b, x) \in Nat
    BY <1>0, <1>1, LoopFacts DEF Taken, One, Same
  <2>2. Cardinality(Places(queue, b))' = Cardinality(Places(queue, b))
    BY <1>0, Still
  <2>3. Taken(b) \in Nat /\ Cardinality(Places(queue, b)) \in Nat
    BY <1>0, <1>4, LoopCount
  <2>4. Taken(b)' + Cardinality(Places(queue, b))'
          = Taken(b) + Cardinality(Places(queue, b)) - Same(b, x)
    BY <2>1, <2>2, <2>3
  <2>. QED  BY <1>0, <1>4, <2>4, LoopReleaseCount
<1>6. \A b \in Buffers : Counted(b) \in Nat /\ Counted(b)' \in Nat /\ refs[b] = Counted(b)
  BY <1>4, Totals, TotalsNext DEF AllTerms, Terms, FrameInv, Exact, RefsExact
<1>7. RefsExact'
  BY <1>3, <1>5, <1>6 DEF RefsExact
<1>8. PoolUncounted'
  <2>1. ASSUME NEW b \in pool PROVE Counted(b)' = 0
    <3>1. b \in Buffers /\ Counted(b) = 0
      BY LoopFacts DEF FrameInv, Exact, PoolUncounted
    <3>. QED  BY <1>5, <1>6, <3>1 DEF Same
  <2>. QED  BY <1>0, <2>1 DEF PoolUncounted
<1>9. Private'
  <2>1. ASSUME NEW y \in Buffers, Own(y)' PROVE Counted(y)' <= 1
    <3>1. loop.new = y
      BY <1>0, <2>1 DEF Own
    <3>2. Counted(y) = 1
      BY <1>0, <3>1 DEF Own, FrameInv, Exact, Private
    <3>. QED  BY <1>5, <1>6, <3>2 DEF Same
  <2>. QED  BY <1>4, <2>1, PrivateNext
<1>. QED  BY <1>4, <1>7, <1>8, <1>9 DEF FrameInv, Exact

LEMMA ProcessInv ==
  ASSUME FrameInv, mode' = mode, Process
  PROVE  FrameInv'
<1>. DEFINE x == loop.buf
<1>0. /\ Before /\ UNCHANGED <<pool, picture, queue>> /\ loop.pc = "process"
      /\ loop' = [loop EXCEPT !.pc = "release"]
  BY DEF Process, Before
<1>1. x \in Buffers /\ loop.buf = x /\ Counted(x) # 0
  BY <1>0, LoopFacts, LoopHolds
<1>2. /\ loop' \in Loops /\ LoopFull' /\ loop'.pc = "release" /\ loop'.buf = x
      /\ loop'.new = loop.new
  BY <1>0, LoopFacts DEF LoopFull, Loops
<1>3. ASSUME NEW b \in Buffers
      PROVE  Cardinality(Places(queue, b))' = Cardinality(Places(queue, b))
  BY <1>0, Still
<1>4. CASE encode = NoBuffer
  <2>1. encode' = x /\ refs' = [refs EXCEPT ![x] = @ + 1]
    BY <1>4 DEF Process
  <2>. HIDE DEF x
  <2>2. Shape' /\ Distinct' /\ Borrowing'
    <3>1. refs' \in [Buffers -> Int] /\ encode' \in Slots
      BY <1>1, <2>1, LoopFacts DEF Slots
    <3>. QED  BY <1>0, <1>2, <3>1, LoopFacts, LoopShape
  <2>3. ASSUME NEW b \in Buffers PROVE Counted(b)' = Counted(b) + Same(b, x)
    <3>1. Taken(b)' = Taken(b) + Same(b, x) /\ Same(b, x) \in Nat
      BY <1>1, <1>2, <1>4, <2>1, LoopFacts DEF Taken, One, Same
    <3>2. /\ Counted(b) \in Nat /\ Taken(b) \in Nat /\ Cardinality(Places(queue, b)) \in Nat
          /\ Counted(b)' = Counted(b) + (Taken(b)' + Cardinality(Places(queue, b))')
              - (Taken(b) + Cardinality(Places(queue, b)))
      BY <1>0, <2>2, LoopCount
    <3>. QED  BY <1>3, <3>1, <3>2
  <2>4. Exact'
    BY <1>0, <1>1, <1>2, <2>1, <2>2, <2>3, AddExact
  <2>. QED  BY <2>2, <2>4 DEF FrameInv
<1>5. CASE encode # NoBuffer
  <2>1. UNCHANGED <<encode, refs>>
    BY <1>5 DEF Process
  <2>2. Shape' /\ Distinct' /\ Borrowing'
    BY <1>0, <1>2, <2>1, LoopFacts, LoopShape
  <2>3. ASSUME NEW b \in Buffers PROVE Counted(b)' = Counted(b)
    <3>1. Taken(b)' = Taken(b)
      BY <1>1, <1>2, <2>1 DEF Taken
    <3>. QED  BY <1>0, <1>3, <2>2, <3>1, LoopKeepsCount
  <2>4. Exact'
    BY <1>0, <1>2, <2>1, <2>2, <2>3, KeepExact
  <2>. QED  BY <2>2, <2>4 DEF FrameInv
<1>. QED  BY <1>4, <1>5

LEMMA LoopReleaseInv ==
  ASSUME FrameInv, mode' = mode, LoopRelease
  PROVE  FrameInv'
<1>. DEFINE x == loop.buf
<1>0. /\ Before /\ UNCHANGED <<picture, queue, encode>> /\ loop.pc = "release"
      /\ Release({x}) /\ loop' = Waiting
  BY DEF LoopRelease, Before
<1>1. x \in Buffers /\ loop.buf = x /\ loop.new = NoBuffer
  BY <1>0, LoopFacts
<1>. HIDE DEF x
<1>2. /\ loop' \in Loops /\ LoopFull' /\ encode' \in Slots
      /\ loop'.pc = "wait" /\ loop'.buf = NoBuffer /\ loop'.new = NoBuffer
  BY <1>0, LoopFacts DEF LoopFull, Loops, Slots, Waiting
<1>3. ASSUME NEW b \in Buffers
      PROVE  Taken(b)' + Cardinality(Places(queue, b))'
               = Taken(b) + Cardinality(Places(queue, b)) - Same(b, x)
  <2>1. Taken(b)' = Taken(b) - Same(b, x) /\ Taken(b) \in Nat /\ Same(b, x) \in Nat
    BY <1>0, <1>1, <1>2, LoopFacts DEF Taken, One, Same
  <2>2. Cardinality(Places(queue, b))' = Cardinality(Places(queue, b))
    BY <1>0, Still
  <2>3. Cardinality(Places(queue, b)) \in Nat
    BY PlacesFinite, LoopFacts
  <2>. QED  BY <2>1, <2>2, <2>3
<1>4. queue' \in Seq(Works) /\ Len(queue') <= QueueCap
  BY <1>0, LoopFacts
<1>. QED  BY <1>0, <1>1, <1>2, <1>3, <1>4, LoopReleases

LEMMA EncodeInv ==
  ASSUME FrameInv, mode' = mode, Encode
  PROVE  FrameInv'
<1>. DEFINE x == encode
<1>0. /\ Before /\ UNCHANGED <<picture, queue, loop>>
      /\ Release({x}) /\ encode' = NoBuffer /\ encode # NoBuffer
  BY DEF Encode, Before
<1>1. x \in Buffers /\ encode = x
  BY <1>0, LoopFacts DEF Slots
<1>. HIDE DEF x
<1>2. loop' \in Loops /\ LoopFull' /\ encode' \in Slots
  BY <1>0, LoopFacts DEF LoopFull, Slots
<1>3. ASSUME NEW b \in Buffers
      PROVE  Taken(b)' + Cardinality(Places(queue, b))'
               = Taken(b) + Cardinality(Places(queue, b)) - Same(b, x)
  <2>1. Taken(b)' = Taken(b) - Same(b, x) /\ Taken(b) \in Nat /\ Same(b, x) \in Nat
    BY <1>0, <1>1, LoopFacts DEF Taken, One, Same
  <2>2. Cardinality(Places(queue, b))' = Cardinality(Places(queue, b))
    BY <1>0, Still
  <2>3. Cardinality(Places(queue, b)) \in Nat
    BY PlacesFinite, LoopFacts
  <2>. QED  BY <2>1, <2>2, <2>3
<1>4. queue' \in Seq(Works) /\ Len(queue') <= QueueCap
  BY <1>0, LoopFacts
<1>. QED  BY <1>0, <1>1, <1>2, <1>3, <1>4, LoopReleases
-----------------------------------------------------------------------------
(* Program changes, and the synchronizer.                                  *)

\* The steps that concern no frame.
LEMMA QuietInv ==
  ASSUME FrameInv, program' \in Sources \cup {NoSource}, epoch' \in 0 .. MaxEpoch,
         sources' \in SUBSET Sources, RingsOfSources',
         UNCHANGED <<mode, pool, refs, picture, pending, last, todo, deliver, queue, loop, encode>>
  PROVE  FrameInv'
<1>1. Deliverers' = Deliverers /\ FrameSync' = FrameSync
  BY DEF Deliverers, FrameSync
<1>2. Shape'
  BY <1>1 DEF FrameInv, Shape, Typed, HandsFull, LoopFull
<1>3. Distinct' /\ Borrowing'
  BY <1>1 DEF FrameInv, Distinct, Borrowing
<1>4. ASSUME NEW b \in Buffers PROVE Counted(b)' = Counted(b)
  <2>1. Terms(b) /\ Terms(b)'
    BY <1>2, <1>3, Totals, TotalsNext DEF FrameInv, AllTerms
  <2>. QED  BY <2>1, Still DEF Terms, Total
<1>5. Exact'
  BY <1>2, <1>3, <1>4, KeepExact
<1>. QED  BY <1>2, <1>3, <1>5 DEF FrameInv

LEMMA ReleaseNone ==
  ASSUME FrameInv, Release({})
  PROVE  UNCHANGED <<pool, refs>>
<1>1. refs' = [b \in Buffers |-> refs[b]]
  BY DEF Release
<1>2. \E kept \in SUBSET {b \in {} : refs[b] = 1} : pool' = pool \cup kept
  BY DEF Release
<1>. QED  BY <1>1, <1>2, LoopFacts

LEMMA ChangeProgramInv ==
  ASSUME FrameInv, mode' = mode, NEW s \in Sources, ChangeProgram(s)
  PROVE  FrameInv'
<1>1. program' \in Sources \cup {NoSource} /\ epoch' \in 0 .. MaxEpoch /\ sources' \in SUBSET Sources
  BY BoundAssumption DEF ChangeProgram, FrameInv, Shape, Typed
<1>2. RingsOfSources'
  BY DEF ChangeProgram, FrameInv, Shape, RingsOfSources, FrameSync
<1>. QED  BY <1>1, <1>2, QuietInv DEF ChangeProgram

LEMMA RegisterInv ==
  ASSUME FrameInv, mode' = mode, NEW s \in Sources, Register(s)
  PROVE  FrameInv'
<1>1. program' \in Sources \cup {NoSource} /\ epoch' \in 0 .. MaxEpoch /\ sources' \in SUBSET Sources
  BY DEF Register, FrameInv, Shape, Typed
<1>2. RingsOfSources'
  BY DEF Register, FrameInv, Shape, RingsOfSources, FrameSync
<1>. QED  BY <1>1, <1>2, QuietInv DEF Register

\* Without the synchronizer there is nothing of the source to release.
LEMMA UnregisterInv ==
  ASSUME FrameInv, mode' = mode, "sync" \notin Removals, NEW s \in Sources, Unregister(s)
  PROVE  FrameInv'
<1>1. ~ FrameSync /\ NoBuffer \notin Buffers
  BY BufferAssumption DEF Unregister, FrameSync
<1>2. pending[s] = <<>> /\ last[s] = NoBuffer /\ pending \in [Sources -> Seq(Buffers)] /\ last \in [Sources -> Slots]
  BY <1>1 DEF FrameInv, Shape, Typed, RingsOfSources
<1>3. UNCHANGED <<pending, last>>
  BY <1>2 DEF Unregister
<1>4. ({pending[s][i] : i \in 1 .. Len(pending[s])} \cup {last[s]}) \cap Buffers = {}
  BY <1>1, <1>2
<1>5. UNCHANGED <<pool, refs>>
  BY <1>4, ReleaseNone DEF Unregister
<1>6. program' \in Sources \cup {NoSource} /\ epoch' \in 0 .. MaxEpoch /\ sources' \in SUBSET Sources
  BY BoundAssumption DEF Unregister, FrameInv, Shape, Typed
<1>7. RingsOfSources'
  BY <1>1, <1>3 DEF FrameInv, Shape, RingsOfSources, FrameSync
<1>. QED  BY <1>3, <1>5, <1>6, <1>7, QuietInv DEF Unregister

LEMMA DecodeInv ==
  ASSUME FrameInv, mode' = mode, NEW s \in Sources, Decode(s)
  PROVE  FrameInv'
<1>0. /\ ~ FrameSync /\ deliver[s].pc = "idle" /\ s \in Deliverers
      /\ UNCHANGED <<mode, program, epoch, sources, pending, last, todo, queue, loop, encode>>
  BY DEF Decode, Deliverers
<1>1. PICK x \in Acquirable :
        /\ deliver' = [deliver EXCEPT ![s] = [pc |-> "route", src |-> s, buf |-> x, epoch |-> 0]]
        /\ picture' = [picture EXCEPT ![x] = s]
        /\ refs' = [refs EXCEPT ![x] = 1]
        /\ pool' = pool \ {x}
  BY DEF Decode
<1>. DEFINE r == [pc |-> "route", src |-> s, buf |-> x, epoch |-> 0]
<1>2. x \in Buffers /\ x \in Slots /\ NoBuffer \notin Buffers
  BY AcquiredFree, BufferAssumption DEF Slots
<1>3. HandOk(r) /\ r.pc = "route" /\ r.buf = x
  BY <1>0, <1>2, BoundAssumption DEF HandOk, Hands
<1>4. deliver' = [deliver EXCEPT ![s] = r] /\ deliver[s].buf = NoBuffer
  BY <1>0, <1>1, HandFacts DEF HandOk
<1>. HIDE DEF r
<1>5. deliver' \in [Deliverers' -> Hands] /\ HandsFull' /\ Borrowing'
  BY <1>0, <1>3, <1>4, HandStep
<1>6. Distinct' /\ RingsOfSources'
  BY <1>0, SameSync
<1>7. Shape'
  <2>1. pool' \in SUBSET Buffers /\ refs' \in [Buffers -> Int] /\ picture' \in [Buffers -> Sources]
    BY <1>1, <1>2, LoopFacts
  <2>. QED  BY <1>0, <1>5, <1>6, <2>1 DEF FrameInv, Shape, Typed, LoopFull
<1>8. ASSUME NEW b \in Buffers PROVE Counted(b)' = Counted(b) + Same(b, x) - In(b, {})
  <2>1. /\ Counted(b) \in Nat
        /\ Counted(b)' = Counted(b) + (Held(r, b) + Cardinality(Places(queue, b))')
              - (Held(deliver[s], b) + Cardinality(Places(queue, b)))
    BY <1>0, <1>4, <1>6, <1>7, DeliverCount
  <2>2. Cardinality(Places(queue, b))' = Cardinality(Places(queue, b))
    BY <1>0, SameQueue
  <2>3. Cardinality(Places(queue, b)) \in Nat
    BY PlacesFinite, LoopFacts
  <2>4. Held(deliver[s], b) = 0 /\ Held(r, b) = Same(b, x) /\ Same(b, x) \in Nat
    BY <1>0, <1>2, <1>3, <1>4 DEF Held, Decoded, Sent, One, Same
  <2>5. Counted(b)' = Counted(b) + Same(b, x)
    BY <2>1, <2>2, <2>3, <2>4
  <2>. QED  BY <2>1, <2>5 DEF In, Same
<1>9. \A b \in Buffers : refs'[b] = IF b = x THEN 1 ELSE refs[b] - In(b, {})
  BY <1>1, LoopFacts DEF In
<1>10. \A b \in pool' : b # x /\ b \in pool
  BY <1>1
<1>11. Exact'
  <2>1. \A b \in Buffers : Counted(b)' = Counted(b) + Same(b, x) - In(b, {})
    BY <1>8
  <2>2. loop' = loop
    BY <1>0
  <2>. QED  BY <1>6, <1>7, <1>9, <1>10, <2>1, <2>2, TakeExact
<1>. QED  BY <1>5, <1>6, <1>7, <1>11 DEF FrameInv

LEMMA TickDeliverInv ==
  ASSUME FrameInv, mode' = mode, NEW s \in Sources, TickDeliver(s)
  PROVE  FrameInv'
<1>. DEFINE r == [pc |-> "route", src |-> s, buf |-> todo[s], epoch |-> 0]
<1>0. /\ FrameSync /\ deliver["tick"].pc = "idle" /\ "tick" \in Deliverers /\ todo[s] # NoBuffer
      /\ UNCHANGED <<mode, program, epoch, sources, pool, refs, picture, pending, last, queue, loop, encode>>
      /\ deliver' = [deliver EXCEPT !["tick"] = r] /\ todo' = [todo EXCEPT ![s] = NoBuffer]
  BY DEF TickDeliver, Deliverers
<1>1. todo[s] = last[s] /\ todo[s] \in Slots /\ todo \in [Sources -> Slots]
  BY <1>0 DEF FrameInv, Borrowing, Shape, Typed
<1>2. HandOk(r) /\ r.pc = "route"
  BY <1>0, <1>1, BoundAssumption DEF HandOk, Hands
<1>. HIDE DEF r
<1>3. /\ \A t \in Sources : todo'[t] = todo[t] \/ todo'[t] = NoBuffer
      /\ todo' \in [Sources -> Slots]
  BY <1>0, <1>1 DEF Slots
<1>4. deliver' \in [Deliverers' -> Hands] /\ HandsFull' /\ Borrowing'
  BY <1>0, <1>2, <1>3, HandStep
<1>5. Distinct' /\ RingsOfSources'
  BY <1>0, SameSync
<1>6. Shape'
  BY <1>0, <1>3, <1>4, <1>5 DEF FrameInv, Shape, Typed, LoopFull
<1>7. ASSUME NEW b \in Buffers PROVE Counted(b)' = Counted(b)
  <2>1. /\ Counted(b) \in Nat
        /\ Counted(b)' = Counted(b) + (Held(r, b) + Cardinality(Places(queue, b))')
              - (Held(deliver["tick"], b) + Cardinality(Places(queue, b)))
    BY <1>0, <1>5, <1>6, DeliverCount
  <2>2. Cardinality(Places(queue, b))' = Cardinality(Places(queue, b))
    BY <1>0, SameQueue
  <2>3. Cardinality(Places(queue, b)) \in Nat
    BY PlacesFinite, LoopFacts
  <2>4. Held(deliver["tick"], b) = 0 /\ Held(r, b) = 0
    BY <1>0, <1>2 DEF Held, Decoded, Sent, One
  <2>. QED  BY <2>1, <2>2, <2>3, <2>4
<1>8. Exact'
  BY <1>0, <1>5, <1>6, <1>7, KeepExact
<1>. QED  BY <1>4, <1>5, <1>6, <1>8 DEF FrameInv

\* A full ring gives its oldest frame up for the new one.
LEMMA PushInv ==
  ASSUME FrameInv, mode' = mode, NEW s \in Sources, Push(s)
  PROVE  FrameInv'
<1>. DEFINE ring == pending[s]
            full == Len(ring) = RingSize
            k == IF full THEN 1 ELSE 0
            rest == IF full THEN Tail(ring) ELSE ring
            dropped == IF full THEN {Head(ring)} ELSE {}
            Off(t) == IF t = s THEN k ELSE 0
<1>0. /\ FrameSync /\ s \in sources
      /\ UNCHANGED <<mode, program, epoch, sources, last, todo, deliver, queue, loop, encode>>
  BY DEF Push
<1>1. PICK x \in Acquirable :
        /\ pending' = [pending EXCEPT ![s] = Append(rest, x)]
        /\ picture' = [picture EXCEPT ![x] = s]
        /\ refs' = [c \in Buffers |-> IF c = x THEN 1
                                      ELSE IF full /\ c = Head(ring) THEN refs[c] - 1 ELSE refs[c]]
        /\ pool' = IF full /\ refs[Head(ring)] = 1 THEN (pool \ {x}) \cup {Head(ring)} ELSE pool \ {x}
  BY DEF Push
<1>2. /\ x \in Buffers /\ ~ InRing(x) /\ ~ InLast(x)
      /\ pending \in [Sources -> Seq(Buffers)] /\ \A t \in Sources : Len(pending[t]) <= RingSize
      /\ RingSize \in Nat /\ RingSize > 0
  BY AcquiredFree, BoundAssumption DEF FrameInv, Shape, Typed
<1>3. /\ ring \in Seq(Buffers) /\ Len(ring) \in Nat /\ Len(ring) <= RingSize
      /\ full => ring # <<>> /\ Head(ring) = ring[1] /\ Head(ring) \in Buffers
  BY <1>2
<1>4. /\ rest \in Seq(Buffers) /\ Len(rest) \in Nat /\ Len(rest) + k = Len(ring) /\ Len(rest) < RingSize
      /\ \A i \in 1 .. Len(rest) : rest[i] = ring[i + k]
  BY <1>2, <1>3
<1>5. /\ Append(rest, x) \in Seq(Buffers) /\ Len(Append(rest, x)) = Len(rest) + 1
      /\ \A i \in 1 .. Len(rest) : Append(rest, x)[i] = ring[i + k]
      /\ Append(rest, x)[Len(rest) + 1] = x
  BY <1>2, <1>4
<1>6. /\ pending' \in [Sources -> Seq(Buffers)] /\ \A t \in Sources : Len(pending'[t]) <= RingSize
      /\ pending'[s] = Append(rest, x) /\ \A t \in Sources : t # s => pending'[t] = pending[t]
  BY <1>1, <1>2, <1>4, <1>5
<1>7. ASSUME NEW t \in Sources, NEW i \in 1 .. Len(pending'[t])
      PROVE  \/ t = s /\ i = Len(rest) + 1 /\ pending'[t][i] = x
             \/ i + Off(t) \in 1 .. Len(pending[t]) /\ pending'[t][i] = pending[t][i + Off(t)]
  <2>1. CASE t = s
    BY <1>3, <1>4, <1>5, <1>6, <2>1
  <2>2. CASE t # s
    BY <1>2, <1>6, <2>2
  <2>. QED  BY <2>1, <2>2
<1>8. \A t \in Sources : Off(t) \in Nat /\ Len(pending[t]) \in Nat /\ Len(pending'[t]) \in Nat
  BY <1>2, <1>6
<1>. HIDE DEF Off
<1>9. Distinct'
  <2>1. ASSUME NEW t \in Sources, NEW u \in Sources, NEW i \in 1 .. Len(pending'[t]),
               NEW j \in 1 .. Len(pending'[u]), pending'[t][i] = pending'[u][j]
        PROVE  t = u /\ i = j
    <3>1. CASE pending'[t][i] = x
      <4>1. ASSUME NEW v \in Sources, NEW l \in 1 .. Len(pending'[v]), pending'[v][l] = x
            PROVE  v = s /\ l = Len(rest) + 1
        <5>1. ASSUME l + Off(v) \in 1 .. Len(pending[v]), pending'[v][l] = pending[v][l + Off(v)]
              PROVE  FALSE
          BY <1>2, <4>1, <5>1 DEF InRing
        <5>. QED  BY <1>7, <5>1
      <4>2. t = s /\ i = Len(rest) + 1
        BY <3>1, <4>1
      <4>3. u = s /\ j = Len(rest) + 1
        BY <2>1, <3>1, <4>1
      <4>. QED  BY <4>2, <4>3
    <3>2. CASE pending'[t][i] # x
      <4>. DEFINE m == i + Off(t)
                  n == j + Off(u)
      <4>1. /\ i + Off(t) \in 1 .. Len(pending[t]) /\ pending'[t][i] = pending[t][i + Off(t)]
            /\ j + Off(u) \in 1 .. Len(pending[u]) /\ pending'[u][j] = pending[u][j + Off(u)]
        BY <1>7, <2>1, <3>2
      <4>2. m \in 1 .. Len(pending[t]) /\ n \in 1 .. Len(pending[u]) /\ pending[t][m] = pending[u][n]
        BY <2>1, <4>1
      <4>. HIDE DEF m, n
      <4>3. t = u /\ m = n
        BY <4>2 DEF FrameInv, Distinct
      <4>. QED  BY <1>8, <4>3 DEF m, n
    <3>. QED  BY <3>1, <3>2
  <2>2. ASSUME NEW t \in Sources, NEW u \in Sources, NEW i \in 1 .. Len(pending'[t])
        PROVE  pending'[t][i] # last[u]
    <3>1. CASE pending'[t][i] = x
      BY <1>2, <3>1 DEF InLast
    <3>2. CASE pending'[t][i] # x
      BY <1>7, <3>2 DEF FrameInv, Distinct
    <3>. QED  BY <3>1, <3>2
  <2>. QED  BY <1>0, <2>1, <2>2 DEF FrameInv, Distinct
<1>10. dropped \in SUBSET Buffers /\ x \notin dropped /\ \A b \in dropped : full /\ b = ring[1] /\ InRing(b)
  BY <1>2, <1>3 DEF InRing
<1>11. ASSUME NEW b \in Buffers PROVE InRing(b)' <=> b = x \/ (InRing(b) /\ b \notin dropped)
  <2>1. ASSUME NEW t \in Sources, NEW i \in 1 .. Len(pending'[t]), pending'[t][i] = b, b # x
        PROVE  InRing(b) /\ b \notin dropped
    <3>1. i + Off(t) \in 1 .. Len(pending[t]) /\ pending[t][i + Off(t)] = b
      BY <1>7, <2>1
    <3>2. InRing(b)
      BY <3>1 DEF InRing
    <3>3. ASSUME full, b = ring[1] PROVE FALSE
      <4>1. 1 \in 1 .. Len(pending[s]) /\ pending[s][1] = b
        BY <1>2, <3>3
      <4>2. t = s /\ i + Off(t) = 1
        BY <3>1, <4>1 DEF FrameInv, Distinct
      <4>3. Off(t) = 1
        BY <3>3, <4>2 DEF Off
      <4>. QED  BY <1>8, <4>2, <4>3
    <3>. QED  BY <1>10, <3>2, <3>3
  <2>2. ASSUME b = x PROVE InRing(b)'
    <3>1. Len(rest) + 1 \in 1 .. Len(pending'[s]) /\ pending'[s][Len(rest) + 1] = b
      BY <1>4, <1>5, <1>6, <2>2
    <3>. QED  BY <3>1 DEF InRing
  <2>3. ASSUME NEW t \in Sources, NEW i \in 1 .. Len(pending[t]), pending[t][i] = b, b \notin dropped
        PROVE  InRing(b)'
    <3>1. CASE t # s
      BY <1>6, <2>3, <3>1 DEF InRing
    <3>2. CASE t = s
      <4>1. i - k \in 1 .. Len(rest)
        BY <1>3, <1>4, <2>3, <3>2
      <4>2. i - k \in 1 .. Len(pending'[s]) /\ pending'[s][i - k] = b
        BY <1>4, <1>5, <1>6, <2>3, <3>2, <4>1
      <4>. QED  BY <4>2 DEF InRing
    <3>. QED  BY <3>1, <3>2
  <2>. QED  BY <2>1, <2>2, <2>3 DEF InRing
<1>12. Shape' /\ Borrowing'
  <2>1. pool' \in SUBSET Buffers /\ refs' \in [Buffers -> Int] /\ picture' \in [Buffers -> Sources]
    BY <1>1, <1>2, <1>3, LoopFacts
  <2>2. Deliverers' = Deliverers /\ FrameSync' = FrameSync
    BY <1>0 DEF Deliverers, FrameSync
  <2>3. HandsFull' /\ LoopFull' /\ RingsOfSources' /\ Borrowing'
    BY <1>0, <1>6, <2>2 DEF FrameInv, Shape, HandsFull, LoopFull, RingsOfSources, Borrowing
  <2>. QED  BY <1>0, <1>6, <2>1, <2>2, <2>3 DEF FrameInv, Shape, Typed
<1>13. ASSUME NEW b \in Buffers PROVE Counted(b)' = Counted(b) + Same(b, x) - In(b, dropped)
  <2>1. Terms(b) /\ Terms(b)'
    BY <1>9, <1>12, Totals, TotalsNext DEF FrameInv, AllTerms
  <2>2. One(InRing(b))' = One(InRing(b)) + Same(b, x) - In(b, dropped)
    BY <1>2, <1>10, <1>11 DEF One, Same, In
  <2>3. /\ One(InLast(b))' = One(InLast(b))
        /\ Cardinality(Decoders(b))' = Cardinality(Decoders(b))
        /\ Cardinality(Senders(b))' = Cardinality(Senders(b))
        /\ Cardinality(Places(queue, b))' = Cardinality(Places(queue, b))
    BY <1>0, Still
  <2>4. Same(b, x) \in Nat /\ In(b, dropped) \in Nat
    BY DEF Same, In
  <2>. HIDE DEF dropped
  <2>. QED  BY <1>0, <2>1, <2>2, <2>3, <2>4 DEF Terms, Total, One
<1>14. \A b \in Buffers : refs'[b] = IF b = x THEN 1 ELSE refs[b] - In(b, dropped)
  BY <1>1, LoopFacts DEF In
<1>15. \A b \in pool' : b # x /\ (b \in pool \/ (b \in dropped /\ refs[b] = 1))
  BY <1>1, <1>10
<1>16. loop' = loop
  BY <1>0
<1>. HIDE DEF dropped
<1>17. Exact'
  BY <1>9, <1>10, <1>12, <1>13, <1>14, <1>15, <1>16, TakeExact
<1>. QED  BY <1>9, <1>12, <1>17 DEF FrameInv

\* A buffer of the synchronizer is its source's last picture afterwards, or released.
LEMMA TickPopInv ==
  ASSUME FrameInv, mode' = mode, TickPop
  PROVE  FrameInv'
<1>. DEFINE fresh == {s \in sources : pending[s] # <<>>}
            newest == [s \in Sources |-> IF s \in fresh THEN pending[s][Len(pending[s])] ELSE last[s]]
            older == UNION {{pending[s][i] : i \in 1 .. Len(pending[s]) - 1} : s \in fresh}
            dropped == (older \cup {last[s] : s \in fresh}) \cap Buffers
<1>0. /\ FrameSync /\ deliver["tick"].pc = "idle"
      /\ last' = newest /\ todo' = newest /\ pending' = [s \in Sources |-> <<>>] /\ Release(dropped)
      /\ UNCHANGED <<mode, program, epoch, sources, picture, deliver, queue, loop, encode>>
  BY DEF TickPop
<1>1. /\ sources \subseteq Sources /\ pending \in [Sources -> Seq(Buffers)] /\ last \in [Sources -> Slots]
      /\ NoBuffer \notin Buffers /\ RingSize \in Nat
      /\ \A s \in Sources : pending[s] # <<>> => s \in sources
  BY BufferAssumption, BoundAssumption DEF FrameInv, Shape, Typed, RingsOfSources
<1>2. \A s \in Sources : /\ Len(pending[s]) \in Nat /\ (pending[s] # <<>> <=> s \in fresh)
                         /\ s \in fresh => Len(pending[s]) \in 1 .. Len(pending[s])
  BY <1>1
<1>3. \A s \in Sources : last'[s] = IF s \in fresh THEN pending[s][Len(pending[s])] ELSE last[s]
  BY <1>0
<1>4. last' \in [Sources -> Slots]
  <2>1. ASSUME NEW s \in Sources
        PROVE  (IF s \in fresh THEN pending[s][Len(pending[s])] ELSE last[s]) \in Slots
    BY <1>1, <1>2 DEF Slots
  <2>. QED  BY <1>0, <2>1
<1>5. /\ dropped \in SUBSET Buffers
      /\ \A b \in Buffers : b \in dropped <=>
           \/ \E s \in fresh : \E i \in 1 .. Len(pending[s]) - 1 : pending[s][i] = b
           \/ \E s \in fresh : last[s] = b
  OBVIOUS
<1>6. fresh \subseteq Sources
  BY <1>1
<1>. HIDE DEF fresh, newest, older, dropped
<1>7. ASSUME NEW s \in Sources, NEW t \in Sources, last'[s] = last'[t], last'[s] # NoBuffer PROVE s = t
  BY <1>2, <1>3, <1>7 DEF FrameInv, Distinct
<1>8. \A s \in Sources : pending'[s] = <<>> /\ Len(pending'[s]) = 0
  BY <1>0
<1>9. Distinct'
  BY <1>7, <1>8 DEF Distinct
<1>10. Shape' /\ Borrowing'
  <2>1. pool' \in SUBSET Buffers /\ refs' \in [Buffers -> Int]
    BY <1>0, <1>5, ReleaseTypes DEF FrameInv, Shape
  <2>2. Deliverers' = Deliverers /\ FrameSync' = FrameSync /\ Deliverers = {"tick"}
    BY <1>0 DEF Deliverers, FrameSync
  <2>3. HandsFull' /\ LoopFull'
    BY <1>0, <2>2 DEF FrameInv, Shape, HandsFull, LoopFull
  <2>4. RingsOfSources'
    BY <1>0, <1>8, <2>2 DEF RingsOfSources
  <2>5. deliver["tick"].buf = NoBuffer
    BY <1>0, <2>2 DEF FrameInv, Shape, HandsFull
  <2>6. Borrowing'
    BY <1>0, <2>2, <2>5 DEF Borrowing
  <2>7. pending' \in [Sources -> Seq(Buffers)] /\ \A s \in Sources : Len(pending'[s]) <= RingSize
    BY <1>0, <1>1, <1>8
  <2>8. todo' \in [Sources -> Slots]
    BY <1>0, <1>4
  <2>. QED  BY <1>0, <1>4, <2>1, <2>2, <2>3, <2>4, <2>6, <2>7, <2>8 DEF FrameInv, Shape, Typed
<1>11. ASSUME NEW b \in Buffers
       PROVE  One(InRing(b))' + One(InLast(b))' = One(InRing(b)) + One(InLast(b)) - In(b, dropped)
  <2>1. ~ InRing(b)'
    BY <1>8 DEF InRing
  <2>2. CASE InRing(b)
    <3>0. PICK s \in Sources : \E i \in 1 .. Len(pending[s]) : pending[s][i] = b
      BY <2>2 DEF InRing
    <3>1. PICK i \in 1 .. Len(pending[s]) : pending[s][i] = b
      BY <3>0
    <3>2. ~ InLast(b) /\ s \in fresh
      BY <1>2, <3>1 DEF InLast, FrameInv, Distinct
    <3>3. CASE i = Len(pending[s])
      <4>1. InLast(b)'
        BY <1>3, <3>1, <3>2, <3>3 DEF InLast
      <4>2. b \notin dropped
        <5>1. ASSUME NEW t \in fresh, NEW j \in 1 .. Len(pending[t]) - 1, pending[t][j] = b PROVE FALSE
          <6>1. j \in 1 .. Len(pending[t]) /\ t \in Sources
            BY <1>2, <1>6
          <6>2. s = t /\ i = j
            BY <3>1, <5>1, <6>1 DEF FrameInv, Distinct
          <6>. QED  BY <1>2, <3>3, <6>2
        <5>2. ASSUME NEW t \in fresh, last[t] = b PROVE FALSE
          BY <1>6, <3>2, <5>2 DEF InLast
        <5>. QED  BY <1>5, <5>1, <5>2
      <4>. QED  BY <2>1, <2>2, <3>2, <4>1, <4>2 DEF One, In
    <3>4. CASE i # Len(pending[s])
      <4>1. i \in 1 .. Len(pending[s]) - 1
        BY <1>2, <3>4
      <4>2. b \in dropped
        BY <1>5, <3>1, <3>2, <4>1
      <4>3. ~ InLast(b)'
        <5>1. ASSUME NEW t \in Sources, last'[t] = b PROVE FALSE
          <6>1. CASE t \in fresh
            <7>1. pending[t][Len(pending[t])] = b /\ Len(pending[t]) \in 1 .. Len(pending[t])
              BY <1>2, <1>3, <5>1, <6>1
            <7>2. s = t /\ i = Len(pending[t])
              BY <3>1, <7>1 DEF FrameInv, Distinct
            <7>. QED  BY <3>4, <7>2
          <6>2. CASE t \notin fresh
            BY <1>3, <3>2, <5>1, <6>2 DEF InLast
          <6>. QED  BY <6>1, <6>2
        <5>. QED  BY <5>1 DEF InLast
      <4>. QED  BY <2>1, <2>2, <3>2, <4>2, <4>3 DEF One, In
    <3>. QED  BY <3>3, <3>4
  <2>3. CASE ~ InRing(b)
    <3>1. \A t \in fresh : \A j \in 1 .. Len(pending[t]) : pending[t][j] # b
      BY <1>6, <2>3 DEF InRing
    <3>2. \A t \in fresh : Len(pending[t]) \in Nat /\ last'[t] # b
      BY <1>2, <1>3, <1>6, <3>1
    <3>3. b \in dropped <=> \E t \in fresh : last[t] = b
      BY <1>5, <3>1, <3>2
    <3>4. CASE \E t \in fresh : last[t] = b
      <4>1. PICK t \in fresh : last[t] = b
        BY <3>4
      <4>2. InLast(b) /\ b \in dropped
        BY <1>6, <3>3, <4>1 DEF InLast
      <4>3. \A u \in Sources : last'[u] # b
        BY <1>1, <1>3, <1>6, <3>2, <4>1 DEF FrameInv, Distinct
      <4>4. ~ InLast(b)'
        BY <4>3 DEF InLast
      <4>. QED  BY <2>1, <2>3, <4>2, <4>4 DEF One, In
    <3>5. CASE ~ \E t \in fresh : last[t] = b
      <4>1. InLast(b)' <=> InLast(b)
        BY <1>3, <3>2, <3>5 DEF InLast
      <4>. QED  BY <2>1, <2>3, <3>3, <3>5, <4>1 DEF One, In
    <3>. QED  BY <3>4, <3>5
  <2>. QED  BY <2>2, <2>3
<1>12. ASSUME NEW b \in Buffers PROVE Counted(b)' = Counted(b) - In(b, dropped)
  <2>1. Terms(b) /\ Terms(b)'
    BY <1>9, <1>10, Totals, TotalsNext DEF FrameInv, AllTerms
  <2>2. /\ Cardinality(Decoders(b))' = Cardinality(Decoders(b))
        /\ Cardinality(Senders(b))' = Cardinality(Senders(b))
        /\ Cardinality(Places(queue, b))' = Cardinality(Places(queue, b))
    BY <1>0, Still
  <2>3. In(b, dropped) \in Nat
    BY DEF In
  <2>4. One(InRing(b))' + One(InLast(b))' = One(InRing(b)) + One(InLast(b)) - In(b, dropped)
    BY <1>11
  <2>5. /\ One(InRing(b)) \in Nat /\ One(InRing(b))' \in Nat
        /\ One(InLast(b)) \in Nat /\ One(InLast(b))' \in Nat
    BY DEF One
  <2>6. /\ One(loop.buf = b)' = One(loop.buf = b) /\ One(loop.buf = b) \in Nat
        /\ One(loop.new = b)' = One(loop.new = b) /\ One(loop.new = b) \in Nat
        /\ One(encode = b)' = One(encode = b) /\ One(encode = b) \in Nat
    BY <1>0 DEF One
  <2>. QED  BY <2>1, <2>2, <2>3, <2>4, <2>5, <2>6 DEF Terms, Total
<1>13. Exact'
  BY <1>0, <1>5, <1>9, <1>10, <1>12, ReleaseExact
<1>. QED  BY <1>9, <1>10, <1>13 DEF FrameInv
-----------------------------------------------------------------------------
(* The invariant, and what follows from it.                                *)

LEMMA InitInv == Init => FrameInv
<1>. SUFFICES ASSUME Init PROVE FrameInv
  OBVIOUS
<1>1. /\ Sources # {} /\ NoBuffer \notin Buffers /\ NoBuffer \in Slots
      /\ {RingSize, QueueCap, MaxEpoch} \subseteq Nat \ {0}
      /\ (CHOOSE s \in Sources : TRUE) \in Sources
  BY BufferAssumption, BoundAssumption DEF Init, Slots
<1>2. Free \in Hands /\ Free.pc = "idle" /\ Free.buf = NoBuffer
  BY <1>1 DEF Free, Hands
<1>3. Waiting \in Loops /\ Waiting.pc = "wait" /\ Waiting.buf = NoBuffer /\ Waiting.new = NoBuffer
  BY <1>1 DEF Waiting, Loops
<1>4. picture \in [Buffers -> Sources]
  BY <1>1 DEF Init, Free
<1>5. Typed
  BY <1>1, <1>2, <1>3, <1>4 DEF Init, Typed
<1>6. HandsFull /\ LoopFull
  BY <1>2, <1>3 DEF Init, HandsFull, LoopFull
<1>7. RingsOfSources /\ Distinct
  BY DEF Init, RingsOfSources, Distinct
<1>8. Borrowing
  BY <1>2 DEF Init, Borrowing
<1>9. ASSUME NEW b \in Buffers PROVE Counted(b) = 0
  <2>1. Terms(b)
    BY <1>5, <1>6, <1>7, Totals DEF Shape, AllTerms
  <2>2. ~ InRing(b) /\ ~ InLast(b)
    BY <1>1 DEF Init, InRing, InLast
  <2>3. Decoders(b) = {} /\ Senders(b) = {} /\ Places(queue, b) = {}
    BY <1>1, <1>2 DEF Init, Decoders, Senders, Places
  <2>4. loop.buf # b /\ loop.new # b /\ encode # b
    BY <1>1, <1>3 DEF Init
  <2>. QED  BY <2>1, <2>2, <2>3, <2>4, FS_EmptySet DEF Terms, Total, One
<1>10. Exact
  <2>1. RefsExact
    BY <1>9 DEF Init, RefsExact
  <2>2. PoolUncounted
    BY <1>5, <1>9 DEF Typed, PoolUncounted
  <2>3. Private
    BY <1>3 DEF Init, Private, Own
  <2>. QED  BY <2>1, <2>2, <2>3 DEF Exact
<1>. QED  BY <1>5, <1>6, <1>7, <1>8, <1>10 DEF FrameInv, Shape

LEMMA NextInv ==
  ASSUME "sync" \notin Removals, FrameInv, [Next]_vars
  PROVE  FrameInv'
<1>1. ASSUME NEW s \in Sources, mode' = mode, ChangeProgram(s) PROVE FrameInv'
  BY <1>1, ChangeProgramInv
<1>2. ASSUME NEW s \in Sources, mode' = mode, Register(s) PROVE FrameInv'
  BY <1>2, RegisterInv
<1>3. ASSUME NEW s \in Sources, mode' = mode, Unregister(s) PROVE FrameInv'
  BY <1>3, UnregisterInv
<1>4. ASSUME NEW s \in Sources, mode' = mode, Push(s) PROVE FrameInv'
  BY <1>4, PushInv
<1>5. ASSUME NEW s \in Sources, mode' = mode, TickDeliver(s) PROVE FrameInv'
  BY <1>5, TickDeliverInv
<1>6. ASSUME NEW s \in Sources, mode' = mode, Decode(s) PROVE FrameInv'
  BY <1>6, DecodeInv
<1>7. ASSUME mode' = mode, TickPop PROVE FrameInv'
  BY <1>7, TickPopInv
<1>8. ASSUME NEW d \in Deliverers, mode' = mode,
             \/ Route(d) \/ Stamp(d) \/ Send(d) \/ SendFull(d) \/ Evict(d)
             \/ GiveUp(d) \/ DecoderRelease(d)
      PROVE  FrameInv'
  BY <1>8, RouteInv, StampInv, SendInv, SendFullInv, EvictInv, GiveUpInv, DecoderReleaseInv
<1>9. ASSUME mode' = mode,
             Dequeue \/ MakeWritable \/ Detach \/ Process \/ LoopRelease \/ Encode
      PROVE  FrameInv'
  BY <1>9, DequeueInv, MakeWritableInv, DetachInv, ProcessInv, LoopReleaseInv, EncodeInv
<1>10. ASSUME UNCHANGED vars PROVE FrameInv'
  <2>1. UNCHANGED <<mode, pool, refs, picture, pending, last, todo, deliver, queue, loop, encode>>
        /\ UNCHANGED <<program, epoch, sources>>
    BY <1>10 DEF vars
  <2>2. /\ program' \in Sources \cup {NoSource} /\ epoch' \in 0 .. MaxEpoch
        /\ sources' \in SUBSET Sources /\ RingsOfSources'
    BY <2>1, SameSync DEF FrameInv, Shape, Typed
  <2>. QED  BY <2>1, <2>2, QuietInv
<1>. QED  BY <1>1, <1>2, <1>3, <1>4, <1>5, <1>6, <1>7, <1>8, <1>9, <1>10 DEF Next, Step

\* The frame path keeps its invariant as long as nobody unregisters a source whose last
\* picture the tick may still be delivering.
THEOREM Invariance ==
  ASSUME "sync" \notin Removals
  PROVE  Spec => []FrameInv
<1>1. FrameInv /\ [Next]_vars => FrameInv'
  BY NextInv
<1>. QED  BY <1>1, InitInv, PTL DEF Spec

\* Every variable of the frame path keeps its type.
THEOREM Typing ==
  ASSUME "sync" \notin Removals
  PROVE  Spec => []TypeOK
<1>1. FrameInv => TypeOK
  BY TypeSets DEF FrameInv, Shape
<1>. QED  BY <1>1, Invariance, PTL

\* The reference count of a picture buffer is always the number of those who will still
\* release it (ReleaseYUV): no step of the tick, the deliverers, the loop or the encoder
\* releases it twice or forgets to.
THEOREM ReferencesExact ==
  ASSUME "sync" \notin Removals
  PROVE  Spec => []RefsExact
<1>1. FrameInv => RefsExact
  BY DEF FrameInv, Exact
<1>. QED  BY <1>1, Invariance, PTL

\* What the tick borrows is the last picture of a source.
LEMMA BorrowedLast ==
  ASSUME FrameInv, NEW b \in Buffers, Borrowed(b)
  PROVE  InLast(b)
<1>1. FrameSync /\ NoBuffer \notin Buffers
  BY BufferAssumption DEF Borrowed
<1>2. ASSUME NEW s \in Sources, todo[s] = b PROVE last[s] = b
  BY <1>1, <1>2 DEF FrameInv, Borrowing
<1>3. ASSUME NEW d \in Deliverers, deliver[d].buf = b
      PROVE  deliver[d].src \in Sources /\ last[deliver[d].src] = b
  BY <1>1, <1>3, HandFacts DEF HandOk, Hands
<1>. QED  BY <1>2, <1>3 DEF Borrowed, InLast

\* A buffer in the pool, free to be acquired for another picture, is in nobody's hands,
\* not even lent to the tick (FramePool.Acquire and Release).
THEOREM PoolAlwaysUnused ==
  ASSUME "sync" \notin Removals
  PROVE  Spec => []PoolUnused
<1>1. FrameInv => PoolUnused
  <2>. SUFFICES ASSUME FrameInv, NEW b \in pool PROVE Counted(b) = 0 /\ ~ Borrowed(b)
    BY DEF PoolUnused, PoolUncounted
  <2>1. b \in Buffers /\ Counted(b) = 0
    BY LoopFacts DEF FrameInv, Exact, PoolUncounted
  <2>2. ASSUME Borrowed(b) PROVE FALSE
    <3>1. Terms(b) /\ InLast(b)
      BY <2>1, <2>2, BorrowedLast, Totals DEF FrameInv, AllTerms
    <3>. QED  BY <2>1, <3>1 DEF Terms, Total, One
  <2>. QED  BY <2>1, <2>2
<1>. QED  BY <1>1, Invariance, PTL

\* The picture the pipeline's nodes draw into is in nobody else's hands: MakeWritable has
\* made a copy of every frame that the synchronizer or another still held.
THEOREM WritesPrivate ==
  ASSUME "sync" \notin Removals
  PROVE  Spec => []ExclusiveWrite
<1>1. FrameInv => ExclusiveWrite
  <2>. DEFINE b == loop.buf
  <2>. SUFFICES ASSUME FrameInv, loop.pc = "process" PROVE Counted(b) = 1 /\ ~ Borrowed(b)
    BY DEF ExclusiveWrite
  <2>1. b \in Buffers /\ loop.buf = b
    BY LoopFacts
  <2>. HIDE DEF b
  <2>2. Counted(b) = 1
    BY <2>1 DEF FrameInv, Exact, Private, Own
  <2>3. ASSUME Borrowed(b) PROVE FALSE
    <3>1. Terms(b) /\ InLast(b)
      BY <2>1, <2>3, BorrowedLast, Totals DEF FrameInv, AllTerms
    <3>. QED  BY <2>1, <2>2, <3>1 DEF Terms, Total, One
  <2>. QED  BY <2>2, <2>3
<1>. QED  BY <1>1, Invariance, PTL
=============================================================================
