---------------------------- MODULE SpliceProofs ----------------------------
(***************************************************************************)
(* Proofs about ad breaks, for any number of breaks, timers and requests   *)
(* that do not name the ID of an open break: the breaks of a message end   *)
(* together (SiblingsTogether), and every running timer belongs to a break *)
(* that wants it (TimersOwned).  Both are inductive, because an ID is      *)
(* handed out only when nothing refers to it any more (FreshIds): a new    *)
(* break replaces none, and no old timer carries its ID.  If messages are  *)
(* sent in the order of the lock, receivers agree with the breaks that are *)
(* open (WireAgrees): WireInv says what the messages still in hand, the    *)
(* timers and the repetitions, will do to what receivers believe.          *)
(***************************************************************************)
EXTENDS SpliceInjector, TLAPS

\* The types of TypeOK.
Breaks == [group : SUBSET Ids, auto : BOOLEAN, held : BOOLEAN,
           timer : Timers \cup {NoTimer}, preroll : PreRolls \cup {NoPreRoll}]
TimerRecords == [st : {"none", "pending", "fired"}, id : Ids]
Repetitions == [st : {"none", "running", "sending"}, ids : SUBSET Ids, cancelled : BOOLEAN]

GeneratedIds == "explicit_id" \notin Operations

Inv == TypeOK /\ SiblingsTogether /\ TimersOwned
-----------------------------------------------------------------------------
LEMMA Blanks ==
  /\ NoEvent \in Breaks /\ NoEvent.group = {} /\ NoEvent.timer = NoTimer
  /\ NoMessage \in Messages /\ Silent \in Repetitions
BY DEF NoEvent, Breaks, NoMessage, Messages, Silent, Repetitions

LEMMA InitInv == Init => Inv
<1>. SUFFICES ASSUME Init PROVE Inv
  OBVIOUS
<1>1. (CHOOSE i \in Ids : TRUE) \in Ids
  BY BoundAssumption
<1>2. /\ active \in [Ids -> Breaks] /\ timer \in [Timers -> TimerRecords]
      /\ \A t \in Timers : timer[t].st = "none"
      /\ \A i \in Ids : active[i] = NoEvent
  BY <1>1, Blanks DEF Init, TimerRecords
<1>3. /\ preroll \in [PreRolls -> Repetitions] /\ ctl \in [Controllers -> [msg : Messages, schedule : SUBSET Ids]]
      /\ hand \in [Timers -> Messages]
  BY Blanks DEF Init, Idle
<1>4. TypeOK
  BY <1>2, <1>3 DEF Init, TypeOK, Breaks, TimerRecords, Repetitions
<1>5. SiblingsTogether /\ TimersOwned
  BY <1>2, Blanks DEF SiblingsTogether, Tracked, TimersOwned
<1>. QED  BY <1>4, <1>5 DEF Inv

\* Breaks that are open are well-formed.
LEMMA Open ==
  ASSUME TypeOK, NEW i \in Ids
  PROVE  /\ active[i] \in Breaks /\ active[i].group \in SUBSET Ids
         /\ i \in Tracked => i \in active[i].group
BY Blanks DEF TypeOK, Breaks, Tracked

\* What cancels goroutines and timers keeps their types.
LEMMA StopTypes ==
  ASSUME TypeOK, NEW ids \in SUBSET Ids
  PROVE  /\ StopTimers(ids) => timer' \in [Timers -> TimerRecords]
         /\ CancelPreRolls(ids) => preroll' \in [PreRolls -> Repetitions]
<1>1. ASSUME NEW t \in Timers PROVE timer[t] \in TimerRecords /\ [timer[t] EXCEPT !.st = "none"] \in TimerRecords
  BY DEF TypeOK, TimerRecords
<1>2. ASSUME NEW p \in PreRolls
      PROVE  preroll[p] \in Repetitions /\ [preroll[p] EXCEPT !.cancelled = TRUE] \in Repetitions
  <2>1. preroll[p] \in Repetitions
    BY DEF TypeOK, Repetitions
  <2>. QED  BY <2>1 DEF Repetitions
<1>. QED  BY <1>1, <1>2 DEF StopTimers, CancelPreRolls

LEMMA SayType ==
  ASSUME TypeOK, NEW c \in Controllers, NEW kind \in {"out", "in"}, NEW ids \in SUBSET Ids, Say(c, kind, ids)
  PROVE  ctl' \in [Controllers -> [msg : Messages, schedule : SUBSET Ids]]
<1>1. [kind |-> kind, ids |-> ids] \in Messages
  BY DEF Messages
<1>. QED  BY <1>1 DEF Say, TypeOK

\* A step that leaves the breaks alone and starts no timer.
LEMMA BystanderInv ==
  ASSUME Inv, TypeOK', UNCHANGED active,
         \A t \in Timers : timer'[t].st = "pending" => timer'[t] = timer[t]
  PROVE  Inv'
BY DEF Inv, SiblingsTogether, TimersOwned, Tracked

\* A step that ends the breaks of a message, the timers of which do not go on.
LEMMA EndInv ==
  ASSUME Inv, TypeOK', NEW i \in Tracked,
         active' = [j \in Ids |-> IF j \in {i} \cup active[i].group THEN NoEvent ELSE active[j]],
         \A t \in Timers : timer'[t].st = "pending" =>
           timer'[t] = timer[t] /\ \A j \in {i} \cup active[i].group : active[j].timer # t
  PROVE  Inv'
<1>. DEFINE gone == {i} \cup active[i].group
<1>1. i \in Ids /\ gone = active[i].group /\ gone \in SUBSET Ids
  BY Open DEF Inv, Tracked
<1>2. SiblingsTogether'
  <2>. SUFFICES ASSUME NEW k \in Ids, active'[k].group # {}, NEW j \in active'[k].group
                PROVE  active'[j].group = active'[k].group
    BY DEF SiblingsTogether, Tracked
  <2>1. k \notin gone /\ active'[k] = active[k]
    BY Blanks
  <2>2. k \in Tracked /\ j \in Ids /\ active[j].group = active[k].group
    BY <2>1, Open DEF Inv, SiblingsTogether, Tracked
  <2>3. j \notin gone
    <3>. SUFFICES ASSUME j \in gone PROVE FALSE
      OBVIOUS
    <3>1. active[j].group = active[i].group
      BY <1>1 DEF Inv, SiblingsTogether
    <3>. QED  BY <1>1, <2>1, <2>2, <3>1, Open DEF Inv
  <2>. QED  BY <2>1, <2>2, <2>3
<1>3. TimersOwned'
  <2>. SUFFICES ASSUME NEW t \in Timers, timer'[t].st = "pending"
                PROVE  LET e == active'[timer'[t].id] IN e.timer = t /\ e.auto /\ ~ e.held
    BY DEF TimersOwned
  <2>1. timer'[t] = timer[t] /\ timer[t].id \in Ids
    BY DEF Inv, TypeOK
  <2>2. LET e == active[timer[t].id] IN e.timer = t /\ e.auto /\ ~ e.held
    BY <2>1 DEF Inv, TimersOwned
  <2>3. timer[t].id \notin gone
    BY <2>2
  <2>. QED  BY <2>1, <2>2, <2>3
<1>. QED  BY <1>2, <1>3 DEF Inv
-----------------------------------------------------------------------------
(* A message opens breaks                                                  *)

LEMMA InjectInv ==
  ASSUME Inv, GeneratedIds, NEW c \in Controllers, NEW ids \in SUBSET Ids, NEW first \in ids,
         NEW auto \in BOOLEAN, NEW scheduled \in BOOLEAN, InjectCue(c, ids, first, auto, scheduled)
  PROVE  Inv'
<1>. USE NilAssumption DEF Inv
<1>1. PICK t \in Timers \cup {NoTimer} :
        /\ IF auto THEN t \in Timers /\ Unused(t) ELSE t = NoTimer
        /\ active' = [i \in Ids |->
             IF i \notin ids THEN active[i]
             ELSE [NoEvent EXCEPT !.group = ids, !.auto = (auto /\ i = first),
                                  !.timer = IF i = first THEN t ELSE NoTimer]]
        /\ timer' = IF auto THEN [timer EXCEPT ![t] = [st |-> "pending", id |-> first]] ELSE timer
  BY DEF InjectCue
<1>2. ids \subseteq FreshIds /\ first \in Ids
  BY DEF InjectCue, GeneratedIds
<1>3. ASSUME NEW i \in ids
      PROVE  /\ active'[i] \in Breaks /\ active'[i].group = ids /\ active'[i].held = FALSE
             /\ i = first => active'[i].auto = auto /\ active'[i].timer = t
  <2>. DEFINE a == auto /\ i = first
             u == IF i = first THEN t ELSE NoTimer
  <2>1. a \in BOOLEAN /\ u \in Timers \cup {NoTimer} /\ (i = first => a = auto /\ u = t)
    BY <1>1
  <2>2. active'[i] = [NoEvent EXCEPT !.group = ids, !.auto = a, !.timer = u]
    BY <1>1
  <2>3. NoEvent \in Breaks /\ NoEvent.held = FALSE
    BY Blanks DEF NoEvent
  <2>. HIDE DEF a, u
  <2>. QED  BY <2>1, <2>2, <2>3 DEF Breaks
<1>4. \A i \in Ids \ ids : active'[i] = active[i]
  BY <1>1
<1>5. active' \in [Ids -> Breaks]
  <2>1. \A i \in Ids : active'[i] \in Breaks
    BY <1>3, <1>4, Open
  <2>. QED  BY <1>1, <2>1
<1>6. timer' \in [Timers -> TimerRecords]
  BY <1>1, <1>2 DEF TypeOK, TimerRecords
<1>7. ctl' \in [Controllers -> [msg : Messages, schedule : SUBSET Ids]]
  <2>1. [kind |-> "out", ids |-> ids] \in Messages
    BY DEF Messages
  <2>. QED  BY <1>2, <2>1 DEF InjectCue, TypeOK
<1>8. TypeOK'
  <2>1. \A i \in Ids : active'[i] = NoEvent \/ i \in active'[i].group
    BY <1>3, <1>4 DEF TypeOK
  <2>. QED  BY <1>5, <1>6, <1>7, <2>1 DEF InjectCue, TypeOK, Breaks, TimerRecords
<1>9. SiblingsTogether'
  <2>. SUFFICES ASSUME NEW k \in Ids, active'[k].group # {}, NEW j \in active'[k].group
                PROVE  active'[j].group = active'[k].group
    BY DEF SiblingsTogether, Tracked
  <2>1. CASE k \in ids
    BY <1>3, <2>1
  <2>2. CASE k \notin ids
    <3>1. k \in Tracked /\ j \in Ids /\ active[j].group = active[k].group /\ active[k].group # {}
      BY <1>4, <2>2, Open DEF SiblingsTogether, Tracked
    <3>2. j \notin ids
      BY <1>2, <3>1 DEF FreshIds, Tracked
    <3>. QED  BY <1>4, <2>2, <3>1, <3>2
  <2>. QED  BY <2>1, <2>2
<1>10. TimersOwned'
  <2>. SUFFICES ASSUME NEW u \in Timers, timer'[u].st = "pending"
                PROVE  LET e == active'[timer'[u].id] IN e.timer = u /\ e.auto /\ ~ e.held
    BY DEF TimersOwned
  <2>1. CASE auto /\ u = t
    <3>1. timer'[u].id = first
      BY <1>1, <2>1 DEF TypeOK
    <3>. QED  BY <1>3, <2>1, <3>1
  <2>2. CASE ~ (auto /\ u = t)
    <3>1. timer'[u] = timer[u] /\ timer[u].id \in Ids
      BY <1>1, <2>2 DEF TypeOK
    <3>2. timer[u].id \notin ids
      BY <1>2, <3>1 DEF FreshIds
    <3>. QED  BY <1>4, <3>1, <3>2 DEF TimersOwned
  <2>. QED  BY <2>1, <2>2
<1>. QED  BY <1>8, <1>9, <1>10

\* ScheduleCue and the repetitions touch no timer; a break keeps all but its cancel function.
LEMMA ScheduleInv ==
  ASSUME Inv, NEW c \in Controllers, Schedule(c)
  PROVE  Inv'
<1>. USE DEF Inv
<1>1. PICK i \in ctl[c].schedule : TRUE
  BY DEF Schedule
<1>2. i \in Ids
  BY <1>1 DEF TypeOK
<1>3. ctl' \in [Controllers -> [msg : Messages, schedule : SUBSET Ids]]
  <2>1. ctl[c] \in [msg : Messages, schedule : SUBSET Ids]
    BY DEF TypeOK
  <2>2. [ctl[c] EXCEPT !.schedule = {}] \in [msg : Messages, schedule : SUBSET Ids]
    BY <2>1
  <2>. QED  BY <2>2 DEF Schedule, TypeOK
<1>4. UNCHANGED <<timer, hand, closed, wire, prompt>>
  BY DEF Schedule
<1>5. CASE UNCHANGED <<preroll, active>>
  <2>1. TypeOK'
    BY <1>3, <1>4, <1>5 DEF TypeOK
  <2>. QED  BY <1>4, <1>5, <2>1, BystanderInv
<1>6. CASE i \in Tracked /\ ~ UNCHANGED <<preroll, active>>
  <2>1. PICK p \in PreRolls :
          /\ preroll' = [preroll EXCEPT ![p] = [Silent EXCEPT !.st = "running", !.ids = active[i].group]]
          /\ active' = [active EXCEPT ![i].preroll = p]
    BY <1>1, <1>6 DEF Schedule
  <2>2. active[i] \in Breaks /\ active[i].group \in SUBSET Ids
    BY <1>2, Open
  <2>. DEFINE r == [Silent EXCEPT !.st = "running", !.ids = active[i].group]
             e == [active[i] EXCEPT !.preroll = p]
  <2>3. r \in Repetitions
    BY <2>2, Blanks DEF Repetitions
  <2>4. /\ e \in Breaks /\ e.group = active[i].group /\ e.timer = active[i].timer
        /\ e.auto = active[i].auto /\ e.held = active[i].held
    BY <2>2 DEF Breaks
  <2>5. preroll' = [preroll EXCEPT ![p] = r] /\ active' = [active EXCEPT ![i] = e]
    BY <2>1, Zenon
  <2>. HIDE DEF r, e
  <2>6. preroll' \in [PreRolls -> Repetitions] /\ active' \in [Ids -> Breaks]
    BY <1>2, <2>3, <2>4, <2>5 DEF TypeOK, Repetitions, Breaks
  <2>7. \A j \in Ids : /\ active'[j].group = active[j].group /\ active'[j].timer = active[j].timer
                       /\ active'[j].auto = active[j].auto /\ active'[j].held = active[j].held
                       /\ active'[j] = NoEvent \/ j \in active'[j].group
    BY <1>2, <1>6, <2>4, <2>5, Open DEF TypeOK
  <2>8. TypeOK'
    BY <1>3, <1>4, <2>6, <2>7 DEF TypeOK, Repetitions, Breaks
  <2>9. SiblingsTogether'
    <3>. SUFFICES ASSUME NEW k \in Ids, active'[k].group # {}, NEW j \in active'[k].group
                  PROVE  active'[j].group = active'[k].group
      BY DEF SiblingsTogether, Tracked
    <3>1. k \in Tracked /\ j \in active[k].group /\ j \in Ids
      BY <2>7, Open DEF Tracked
    <3>. QED  BY <2>7, <3>1 DEF SiblingsTogether
  <2>10. TimersOwned'
    BY <1>4, <2>7 DEF TimersOwned, TypeOK
  <2>. QED  BY <2>8, <2>9, <2>10
<1>. QED  BY <1>1, <1>5, <1>6 DEF Schedule

LEMMA PreRollInv ==
  ASSUME Inv, NEW p \in PreRolls, PreRollTick(p) \/ PreRollSend(p) \/ PreRollEnd(p)
  PROVE  Inv'
<1>. USE DEF Inv
<1>1. preroll[p] \in Repetitions
  BY DEF TypeOK, Repetitions
<1>2. [preroll[p] EXCEPT !.st = "sending"] \in Repetitions /\ [preroll[p] EXCEPT !.st = "running"] \in Repetitions
  BY <1>1 DEF Repetitions
<1>3. preroll' \in [PreRolls -> Repetitions]
  <2>1. CASE PreRollTick(p)
    BY <1>2, <2>1, Blanks DEF PreRollTick, TypeOK, Repetitions
  <2>2. CASE PreRollSend(p)
    BY <1>2, <2>2, Blanks DEF PreRollSend, TypeOK, Repetitions
  <2>3. CASE PreRollEnd(p)
    BY <2>3, Blanks DEF PreRollEnd, TypeOK, Repetitions
  <2>. QED  BY <2>1, <2>2, <2>3
<1>4. UNCHANGED <<active, timer, ctl, hand, closed, prompt>> /\ wire' \in SUBSET Ids
  <2>1. preroll[p].ids \in SUBSET Ids
    BY <1>1 DEF Repetitions
  <2>. QED  BY <2>1 DEF PreRollTick, PreRollSend, PreRollEnd, TypeOK
<1>5. TypeOK'
  BY <1>3, <1>4 DEF TypeOK, Repetitions
<1>. QED  BY <1>4, <1>5, BystanderInv
-----------------------------------------------------------------------------
(* Breaks end                                                              *)

LEMMA GoneType ==
  ASSUME TypeOK, NEW gone \in SUBSET Ids,
         active' = [j \in Ids |-> IF j \in gone THEN NoEvent ELSE active[j]]
  PROVE  active' \in [Ids -> Breaks] /\ \A j \in Ids : active'[j] = NoEvent \/ j \in active'[j].group
<1>1. \A j \in Ids : active'[j] \in Breaks /\ (active'[j] = NoEvent \/ j \in active'[j].group)
  BY Blanks, Open DEF TypeOK
<1>. QED  BY <1>1

LEMMA ReturnInv ==
  ASSUME Inv, NEW c \in Controllers, NEW i \in Ids, ReturnToProgram(c, i)
  PROVE  Inv'
<1>. USE DEF Inv
<1>. DEFINE gone == {i} \cup active[i].group
<1>1. i \in Tracked /\ gone \in SUBSET Ids /\ active[i].group \in SUBSET Ids
  BY Open DEF ReturnToProgram
<1>2. /\ active' = [j \in Ids |-> IF j \in gone THEN NoEvent ELSE active[j]]
      /\ StopTimers(gone) /\ CancelPreRolls(gone)
      /\ Say(c, "in", active[i].group) /\ UNCHANGED <<hand, closed, wire, prompt>>
  BY DEF ReturnToProgram, End
<1>3. TypeOK'
  <2>1. timer' \in [Timers -> TimerRecords] /\ preroll' \in [PreRolls -> Repetitions]
    BY <1>1, <1>2, StopTypes
  <2>2. ctl' \in [Controllers -> [msg : Messages, schedule : SUBSET Ids]]
    BY <1>1, <1>2, SayType
  <2>3. active' \in [Ids -> Breaks] /\ \A j \in Ids : active'[j] = NoEvent \/ j \in active'[j].group
    BY <1>1, <1>2, GoneType
  <2>. QED  BY <1>2, <2>1, <2>2, <2>3 DEF TypeOK, Breaks, TimerRecords, Repetitions
<1>4. ASSUME NEW t \in Timers, timer'[t].st = "pending"
      PROVE  timer'[t] = timer[t] /\ \A j \in gone : active[j].timer # t
  <2>1. CASE timer[t].st = "pending" /\ \E j \in gone : active[j].timer = t
    <3>1. timer'[t] = [timer[t] EXCEPT !.st = "none"] /\ timer[t] \in TimerRecords
      BY <1>2, <2>1 DEF StopTimers, TypeOK, TimerRecords
    <3>. QED  BY <1>4, <3>1 DEF TimerRecords
  <2>2. CASE ~ (timer[t].st = "pending" /\ \E j \in gone : active[j].timer = t)
    <3>1. timer'[t] = timer[t]
      BY <1>2, <2>2 DEF StopTimers
    <3>. QED  BY <1>4, <2>2, <3>1
  <2>. QED  BY <2>1, <2>2
<1>. QED  BY <1>1, <1>2, <1>3, <1>4, EndInv

\* The callback of a timer, which may find its break gone, or another's.
LEMMA TimerReturnsInv ==
  ASSUME Inv, NEW t \in Timers, TimerReturns(t)
  PROVE  Inv'
<1>. USE DEF Inv
<1>. DEFINE i == timer[t].id
            gone == {i} \cup active[i].group
<1>0. ASSUME NEW u \in Timers PROVE /\ timer[u] \in TimerRecords /\ [timer[u] EXCEPT !.st = "none"] \in TimerRecords
                                    /\ [timer[u] EXCEPT !.st = "none"].st = "none"
  <2>1. timer[u] \in TimerRecords
    BY DEF TypeOK, TimerRecords
  <2>. QED  BY <2>1 DEF TimerRecords
<1>1. i \in Ids /\ UNCHANGED <<ctl, closed, wire, prompt>>
  BY DEF TimerReturns, TypeOK
<1>2. CASE closed \/ i \notin Tracked
  <2>1. timer' = [timer EXCEPT ![t].st = "none"] /\ UNCHANGED <<active, preroll, hand>>
    BY <1>2 DEF TimerReturns
  <2>2. timer' \in [Timers -> TimerRecords] /\ \A u \in Timers : timer'[u].st = "pending" => timer'[u] = timer[u]
    BY <1>0, <2>1 DEF TypeOK, TimerRecords
  <2>3. TypeOK'
    BY <1>1, <2>1, <2>2 DEF TypeOK, TimerRecords
  <2>. QED  BY <2>1, <2>2, <2>3, BystanderInv
<1>3. CASE ~ (closed \/ i \notin Tracked)
  <2>1. /\ active' = [j \in Ids |-> IF j \in gone THEN NoEvent ELSE active[j]]
        /\ timer' = [u \in Timers |->
             IF u = t \/ (timer[u].st = "pending" /\ \E j \in gone : active[j].timer = u)
               THEN [timer[u] EXCEPT !.st = "none"] ELSE timer[u]]
        /\ CancelPreRolls(gone)
        /\ hand' = [hand EXCEPT ![t] = [kind |-> "in", ids |-> active[i].group]]
    BY <1>3 DEF TimerReturns
  <2>2. gone \in SUBSET Ids /\ active[i].group \in SUBSET Ids
    BY <1>1, Open
  <2>3. TypeOK'
    <3>1. timer' \in [Timers -> TimerRecords]
      BY <1>0, <2>1
    <3>2. preroll' \in [PreRolls -> Repetitions]
      BY <2>1, <2>2, StopTypes
    <3>3. [kind |-> "in", ids |-> active[i].group] \in Messages
      BY <2>2 DEF Messages
    <3>4. hand' \in [Timers -> Messages]
      BY <2>1, <3>3 DEF TypeOK
    <3>5. active' \in [Ids -> Breaks] /\ \A j \in Ids : active'[j] = NoEvent \/ j \in active'[j].group
      BY <2>1, <2>2, GoneType
    <3>. QED  BY <1>1, <3>1, <3>2, <3>4, <3>5 DEF TypeOK, Breaks, TimerRecords, Repetitions
  <2>4. \A u \in Timers : timer'[u].st = "pending" =>
          timer'[u] = timer[u] /\ \A j \in gone : active[j].timer # u
    BY <1>0, <2>1
  <2>. QED  BY <1>1, <1>3, <2>1, <2>3, <2>4, EndInv
<1>. QED  BY <1>2, <1>3
-----------------------------------------------------------------------------
(* A break changes                                                         *)

\* A break keeps its group, and if a timer runs for it after the step it is its own.
LEMMA ChangeInv ==
  ASSUME Inv, TypeOK', NEW i \in Ids, NEW e \in Breaks,
         e.group = active[i].group, active' = [active EXCEPT ![i] = e],
         \A t \in Timers : timer'[t].st = "pending" =>
           \/ timer'[t] = timer[t] /\ timer[t].id # i
           \/ timer'[t].id = i /\ e.timer = t /\ e.auto /\ ~ e.held
  PROVE  Inv'
<1>. USE DEF Inv
<1>1. active'[i] = e /\ \A j \in Ids \ {i} : active'[j] = active[j]
  BY DEF TypeOK
<1>2. SiblingsTogether'
  <2>. SUFFICES ASSUME NEW k \in Ids, active'[k].group # {}, NEW j \in active'[k].group
                PROVE  active'[j].group = active'[k].group
    BY DEF SiblingsTogether, Tracked
  <2>1. k \in Tracked /\ j \in active[k].group /\ j \in Ids
    BY <1>1, Open DEF Tracked
  <2>. QED  BY <1>1, <2>1 DEF SiblingsTogether
<1>3. TimersOwned'
  <2>. SUFFICES ASSUME NEW t \in Timers, timer'[t].st = "pending"
                PROVE  LET f == active'[timer'[t].id] IN f.timer = t /\ f.auto /\ ~ f.held
    BY DEF TimersOwned
  <2>1. CASE timer'[t] = timer[t] /\ timer[t].id # i
    BY <1>1, <2>1 DEF TimersOwned, TypeOK
  <2>2. CASE timer'[t].id = i /\ e.timer = t /\ e.auto /\ ~ e.held
    BY <1>1, <2>2
  <2>. QED  BY <2>1, <2>2
<1>. QED  BY <1>2, <1>3

LEMMA HoldInv ==
  ASSUME Inv, NEW c \in Controllers, NEW i \in Ids, HoldBreak(c, i)
  PROVE  Inv'
<1>. USE DEF Inv
<1>. DEFINE e == [active[i] EXCEPT !.held = TRUE, !.timer = NoTimer, !.preroll = NoPreRoll]
<1>1. e \in Breaks /\ e.group = active[i].group
  <2>1. active[i] \in Breaks
    BY Open
  <2>. QED  BY <2>1 DEF Breaks
<1>2. active' = [active EXCEPT ![i] = e]
  BY Zenon DEF HoldBreak
<1>. HIDE DEF e
<1>3. i \in active[i].group /\ StopTimers({i}) /\ CancelPreRolls({i}) /\ UNCHANGED <<ctl, hand, closed, wire, prompt>>
  BY Open DEF HoldBreak
<1>4. TypeOK'
  <2>1. timer' \in [Timers -> TimerRecords] /\ preroll' \in [PreRolls -> Repetitions]
    BY <1>3, StopTypes
  <2>2. active' \in [Ids -> Breaks] /\ \A j \in Ids : active'[j] = NoEvent \/ j \in active'[j].group
    BY <1>1, <1>2, <1>3 DEF TypeOK, Breaks
  <2>. QED  BY <1>3, <2>1, <2>2 DEF TypeOK, Breaks, TimerRecords, Repetitions
<1>5. ASSUME NEW t \in Timers, timer'[t].st = "pending" PROVE timer'[t] = timer[t] /\ timer[t].id # i
  <2>1. CASE timer[t].st = "pending" /\ active[i].timer = t
    <3>1. timer'[t] = [timer[t] EXCEPT !.st = "none"] /\ timer[t] \in TimerRecords
      BY <1>3, <2>1 DEF StopTimers, TypeOK, TimerRecords
    <3>. QED  BY <1>5, <3>1 DEF TimerRecords
  <2>2. CASE ~ (timer[t].st = "pending" /\ active[i].timer = t)
    <3>1. timer'[t] = timer[t]
      BY <1>3, <2>2 DEF StopTimers
    <3>. QED  BY <1>5, <2>2, <3>1 DEF TimersOwned
  <2>. QED  BY <2>1, <2>2
<1>. QED  BY <1>1, <1>2, <1>4, <1>5, ChangeInv

LEMMA ExtendInv ==
  ASSUME Inv, NEW c \in Controllers, NEW i \in Ids, NEW left \in BOOLEAN, ExtendBreak(c, i, left)
  PROVE  Inv'
<1>. USE NilAssumption DEF Inv
<1>. DEFINE stopped == [t \in Timers |-> IF timer[t].st = "pending" /\ active[i].timer = t
                                           THEN [timer[t] EXCEPT !.st = "none"] ELSE timer[t]]
<1>1. PICK t \in Timers \cup {NoTimer} :
        /\ IF left /\ active[i].auto THEN t \in Timers /\ Unused(t) ELSE t = NoTimer
        /\ timer' = IF t = NoTimer THEN stopped ELSE [stopped EXCEPT ![t] = [st |-> "pending", id |-> i]]
        /\ active' = [active EXCEPT ![i].held = FALSE, ![i].timer = t, ![i].preroll = NoPreRoll]
  BY DEF ExtendBreak
<1>2. /\ i \in active[i].group /\ active[i].group \in SUBSET Ids /\ active[i] \in Breaks
      /\ CancelPreRolls({i}) /\ Say(c, "out", active[i].group) /\ UNCHANGED <<hand, closed, wire, prompt>>
  BY Open DEF ExtendBreak
<1>3. ASSUME NEW u \in Timers
      PROVE  /\ stopped[u] \in TimerRecords
             /\ stopped[u].st = "pending" => stopped[u] = timer[u] /\ timer[u].id # i
  <2>1. timer[u] \in TimerRecords
    BY DEF TypeOK, TimerRecords
  <2>2. CASE timer[u].st = "pending" /\ active[i].timer = u
    <3>1. stopped[u] = [timer[u] EXCEPT !.st = "none"]
      BY <2>2
    <3>. HIDE DEF stopped
    <3>. QED  BY <2>1, <3>1 DEF TimerRecords
  <2>3. CASE ~ (timer[u].st = "pending" /\ active[i].timer = u)
    <3>1. stopped[u] = timer[u]
      BY <2>3
    <3>. HIDE DEF stopped
    <3>. QED  BY <2>1, <2>3, <3>1 DEF TimersOwned
  <2>. QED  BY <2>2, <2>3
<1>4. stopped \in [Timers -> TimerRecords]
  BY <1>3
<1>. HIDE DEF stopped
<1>. DEFINE e == [active[i] EXCEPT !.held = FALSE, !.timer = t, !.preroll = NoPreRoll]
<1>5. /\ e \in Breaks /\ e.group = active[i].group /\ e.timer = t /\ e.auto = active[i].auto
      /\ e.held = FALSE
  BY <1>2 DEF Breaks
<1>6. active' = [active EXCEPT ![i] = e]
  BY <1>1, Zenon
<1>. HIDE DEF e
<1>7. TypeOK'
  <2>1. timer' \in [Timers -> TimerRecords]
    BY <1>1, <1>4 DEF TimerRecords
  <2>2. preroll' \in [PreRolls -> Repetitions] /\ ctl' \in [Controllers -> [msg : Messages, schedule : SUBSET Ids]]
    BY <1>2, StopTypes, SayType
  <2>3. active' \in [Ids -> Breaks] /\ \A j \in Ids : active'[j] = NoEvent \/ j \in active'[j].group
    BY <1>2, <1>5, <1>6 DEF TypeOK, Breaks
  <2>. QED  BY <1>2, <2>1, <2>2, <2>3 DEF TypeOK, Breaks, TimerRecords, Repetitions
<1>8. ASSUME NEW u \in Timers, timer'[u].st = "pending"
      PROVE  \/ timer'[u] = timer[u] /\ timer[u].id # i
             \/ timer'[u].id = i /\ e.timer = u /\ e.auto /\ ~ e.held
  <2>1. CASE u = t
    <3>1. timer'[u] = [st |-> "pending", id |-> i] /\ active[i].auto
      BY <1>1, <1>4, <2>1
    <3>. QED  BY <1>5, <2>1, <3>1
  <2>2. CASE u # t
    <3>1. timer'[u] = stopped[u]
      BY <1>1, <1>4, <2>2
    <3>. QED  BY <1>3, <1>8, <3>1
  <2>. QED  BY <2>1, <2>2
<1>. QED  BY <1>5, <1>6, <1>7, <1>8, ChangeInv

\* Close stops every timer that has not fired; firing and sending change no break.
LEMMA CloseInv == Inv /\ Close => Inv'
<1>. SUFFICES ASSUME Inv, Close PROVE Inv'
  OBVIOUS
<1>. USE DEF Inv
<1>1. /\ timer' \in [Timers -> TimerRecords] /\ preroll' \in [PreRolls -> Repetitions]
      /\ closed' = TRUE /\ UNCHANGED <<active, ctl, hand, wire, prompt>>
  BY StopTypes DEF Close
<1>2. TypeOK'
  BY <1>1 DEF TypeOK, TimerRecords, Repetitions
<1>3. ASSUME NEW t \in Timers, timer'[t].st = "pending" PROVE timer'[t] = timer[t]
  <2>1. CASE timer[t].st = "pending" /\ \E i \in Ids : active[i].timer = t
    <3>1. timer'[t] = [timer[t] EXCEPT !.st = "none"] /\ timer[t] \in TimerRecords
      BY <2>1 DEF Close, StopTimers, TypeOK, TimerRecords
    <3>. QED  BY <1>3, <3>1 DEF TimerRecords
  <2>2. CASE ~ (timer[t].st = "pending" /\ \E i \in Ids : active[i].timer = t)
    BY <2>2 DEF Close, StopTimers
  <2>. QED  BY <2>1, <2>2
<1>. QED  BY <1>1, <1>2, <1>3, BystanderInv

LEMMA SendInv ==
  ASSUME Inv
  PROVE  /\ \A c \in Controllers : Send(c) => Inv'
         /\ \A t \in Timers : TimerFires(t) \/ TimerSend(t) => Inv'
<1>. USE DEF Inv
<1>1. ASSUME NEW c \in Controllers, Send(c) PROVE Inv'
  <2>1. ctl[c] \in [msg : Messages, schedule : SUBSET Ids]
    BY DEF TypeOK
  <2>2. [ctl[c] EXCEPT !.msg = NoMessage] \in [msg : Messages, schedule : SUBSET Ids]
    BY <2>1, Blanks
  <2>3. ctl' \in [Controllers -> [msg : Messages, schedule : SUBSET Ids]]
    BY <1>1, <2>2 DEF Send, TypeOK
  <2>4. wire' \in SUBSET Ids
    <3>1. ctl[c].msg.ids \in SUBSET Ids
      BY <2>1 DEF Messages
    <3>. QED  BY <1>1, <3>1 DEF Send, Heard, TypeOK
  <2>5. TypeOK' /\ UNCHANGED <<active, timer>>
    BY <1>1, <2>3, <2>4 DEF Send, TypeOK
  <2>. QED  BY <2>5, BystanderInv
<1>2. ASSUME NEW t \in Timers, TimerFires(t) PROVE Inv'
  <2>1. timer[t] \in TimerRecords
    BY DEF TypeOK, TimerRecords
  <2>2. [timer[t] EXCEPT !.st = "fired"] \in TimerRecords /\ [timer[t] EXCEPT !.st = "fired"].st = "fired"
    BY <2>1 DEF TimerRecords
  <2>3. timer' \in [Timers -> TimerRecords] /\ \A u \in Timers : timer'[u].st = "pending" => timer'[u] = timer[u]
    BY <1>2, <2>2 DEF TimerFires, TypeOK, TimerRecords
  <2>4. TypeOK' /\ UNCHANGED active
    BY <1>2, <2>3 DEF TimerFires, TypeOK, TimerRecords
  <2>. QED  BY <2>3, <2>4, BystanderInv
<1>3. ASSUME NEW t \in Timers, TimerSend(t) PROVE Inv'
  <2>1. hand' \in [Timers -> Messages]
    BY <1>3, Blanks DEF TimerSend, TypeOK
  <2>2. wire' \in SUBSET Ids
    <3>1. hand[t].ids \in SUBSET Ids
      BY DEF TypeOK, Messages
    <3>. QED  BY <1>3, <3>1 DEF TimerSend, Heard, TypeOK
  <2>3. TypeOK' /\ UNCHANGED <<active, timer>>
    BY <1>3, <2>1, <2>2 DEF TimerSend, TypeOK
  <2>. QED  BY <2>3, BystanderInv
<1>. QED  BY <1>1, <1>2, <1>3

LEMMA NextInv ==
  ASSUME GeneratedIds PROVE Inv /\ [Next]_vars => Inv'
<1>. SUFFICES ASSUME Inv, [Next]_vars PROVE Inv'
  OBVIOUS
<1>1. CASE UNCHANGED vars
  BY <1>1 DEF vars, Inv, TypeOK, SiblingsTogether, Tracked, TimersOwned
<1>2. ASSUME NEW c \in Controllers, Request(c) PROVE Inv'
  BY <1>2, InjectInv, ReturnInv, HoldInv, ExtendInv DEF Request, CancelEvent
<1>3. ASSUME NEW t \in Timers, Timer(t) PROVE Inv'
  BY <1>3, TimerReturnsInv, SendInv DEF Timer
<1>. QED  BY <1>1, <1>2, <1>3, ScheduleInv, PreRollInv, CloseInv, SendInv DEF Next
-----------------------------------------------------------------------------
(* What receivers hear.  The invariant says what the messages that are not *)
(* sent yet will make of the wire, and who may still repeat a cue.         *)

\* ScheduleCue looks up an event that nobody else schedules and that has no pre-roll yet.
SchedulesApart ==
  /\ \A c, d \in Controllers : c # d => ctl[c].schedule \cap ctl[d].schedule = {}
  /\ \A c \in Controllers : \A i \in ctl[c].schedule \cap Tracked : active[i].preroll = NoPreRoll

\* A pre-roll that is not cancelled repeats the cue of an open break.
RepetitionsOwned ==
  \A p \in PreRolls : preroll[p].st # "none" /\ ~ preroll[p].cancelled =>
    \E i \in Tracked : active[i].preroll = p /\ preroll[p].ids = active[i].group

\* In order of the lock: one message is in hand at a time, it makes the wire agree with the
\* breaks that are open, and without one the wire agrees; nothing is repeated after a cancel.
InOrder ==
  /\ \A c, d \in Controllers : ctl[c].msg # NoMessage /\ ctl[d].msg # NoMessage => c = d
  /\ \A t, u \in Timers : hand[t] # NoMessage /\ hand[u] # NoMessage => t = u
  /\ \A c \in Controllers, t \in Timers : ctl[c].msg = NoMessage \/ hand[t] = NoMessage
  /\ \A c \in Controllers : ctl[c].msg # NoMessage => Heard(ctl[c].msg) = Tracked
  /\ \A t \in Timers : hand[t] # NoMessage => Heard(hand[t]) = Tracked
  /\ (\A c \in Controllers : ctl[c].msg = NoMessage) /\ (\A t \in Timers : hand[t] = NoMessage) => wire = Tracked
  /\ \A p \in PreRolls : preroll[p].cancelled => preroll[p].st # "sending"

WireInv == Inv /\ SchedulesApart /\ RepetitionsOwned /\ (prompt /\ ~ closed => InOrder)

LEMMA PreRollFacts ==
  ASSUME TypeOK, NEW p \in PreRolls
  PROVE  /\ preroll[p] \in Repetitions /\ preroll[p].cancelled \in BOOLEAN /\ preroll[p].ids \in SUBSET Ids
         /\ Silent.st = "none" /\ Silent.ids = {} /\ Silent.cancelled = FALSE
<1>1. preroll[p] \in Repetitions
  BY DEF TypeOK, Repetitions
<1>. QED  BY <1>1 DEF Repetitions, Silent

\* A cancel stops nothing but the repetitions of the breaks it names.
LEMMA CancelFacts ==
  ASSUME TypeOK, NEW ids \in SUBSET Ids, CancelPreRolls(ids), NEW p \in PreRolls
  PROVE  /\ preroll'[p].st = preroll[p].st /\ preroll'[p].ids = preroll[p].ids
         /\ preroll[p].st # "none" /\ ~ preroll'[p].cancelled =>
              ~ preroll[p].cancelled /\ \A i \in ids : active[i].preroll # p
<1>1. preroll[p] \in Repetitions
  BY PreRollFacts
<1>2. CASE preroll[p].st # "none" /\ \E i \in ids : active[i].preroll = p
  <2>1. preroll'[p] = [preroll[p] EXCEPT !.cancelled = TRUE]
    BY <1>2 DEF CancelPreRolls
  <2>. QED  BY <1>1, <2>1 DEF Repetitions
<1>3. CASE ~ (preroll[p].st # "none" /\ \E i \in ids : active[i].preroll = p)
  <2>1. preroll'[p] = preroll[p]
    BY <1>3 DEF CancelPreRolls
  <2>. QED  BY <1>3, <2>1
<1>. QED  BY <1>2, <1>3

\* The breaks of an open break's message are open.
LEMMA GroupTracked ==
  ASSUME Inv, NEW i \in Tracked
  PROVE  i \in Ids /\ i \in active[i].group /\ active[i].group \subseteq Tracked
<1>1. i \in Ids /\ i \in active[i].group /\ active[i].group \in SUBSET Ids
  BY Open DEF Inv, Tracked
<1>. QED  BY <1>1 DEF Inv, SiblingsTogether, Tracked

\* Whoever gets the lock in order finds no message in hand.
LEMMA Quiet ==
  ASSUME InOrder, InHand
  PROVE  /\ wire = Tracked
         /\ \A c \in Controllers : ctl[c].msg = NoMessage
         /\ \A t \in Timers : hand[t] = NoMessage
         /\ \A p \in PreRolls : preroll[p].st # "sending"
BY DEF InOrder, InHand

\* A request puts its message in hand when there is none.
LEMMA SaysInOrder ==
  ASSUME InOrder, InHand, NEW c \in Controllers, NEW m, ctl'[c].msg = m, m # NoMessage,
         (IF m.kind = "out" THEN wire' \cup m.ids ELSE wire' \ m.ids) = Tracked',
         \A d \in Controllers : d # c => ctl'[d].msg = ctl[d].msg,
         UNCHANGED hand, \A p \in PreRolls : preroll'[p].st = preroll[p].st
  PROVE  InOrder'
BY Quiet DEF InOrder, Heard

\* A step that leaves the messages alone, and the breaks that are open.
LEMMA SameInOrder ==
  ASSUME InOrder, UNCHANGED <<hand, wire>>, Tracked' = Tracked,
         \A c \in Controllers : ctl'[c].msg = ctl[c].msg,
         \A p \in PreRolls : preroll'[p].cancelled => preroll'[p].st # "sending"
  PROVE  InOrder'
BY DEF InOrder, Heard

\* The breaks of a message end, and their repetitions with them.
LEMMA EndWire ==
  ASSUME WireInv, NEW i \in Tracked,
         active' = [j \in Ids |-> IF j \in {i} \cup active[i].group THEN NoEvent ELSE active[j]],
         CancelPreRolls({i} \cup active[i].group),
         \A c \in Controllers : ctl'[c].schedule = ctl[c].schedule
  PROVE  SchedulesApart' /\ RepetitionsOwned' /\ Tracked' = Tracked \ active[i].group
<1>. DEFINE gone == {i} \cup active[i].group
<1>1. i \in Ids /\ gone = active[i].group /\ gone \in SUBSET Ids
  BY GroupTracked, Open DEF WireInv, Inv
<1>2. Tracked' = Tracked \ gone /\ \A j \in Tracked \ gone : active'[j] = active[j]
  BY Blanks DEF Tracked
<1>3. SchedulesApart'
  BY <1>2 DEF WireInv, SchedulesApart
<1>4. RepetitionsOwned'
  <2>. SUFFICES ASSUME NEW p \in PreRolls, preroll'[p].st # "none", ~ preroll'[p].cancelled
                PROVE  \E k \in Tracked' : active'[k].preroll = p /\ preroll'[p].ids = active'[k].group
    BY DEF RepetitionsOwned
  <2>1. /\ preroll'[p].st = preroll[p].st /\ preroll'[p].ids = preroll[p].ids
        /\ ~ preroll[p].cancelled /\ \A j \in gone : active[j].preroll # p
    BY <1>1, CancelFacts DEF WireInv, Inv
  <2>2. PICK k \in Tracked : active[k].preroll = p /\ preroll[p].ids = active[k].group
    BY <2>1 DEF WireInv, RepetitionsOwned
  <2>. QED  BY <1>2, <2>1, <2>2
<1>. QED  BY <1>1, <1>2, <1>3, <1>4

\* A break is held or extended: its own repetition ends.
LEMMA ChangeWire ==
  ASSUME WireInv, NEW i \in Tracked, NEW e, active' = [active EXCEPT ![i] = e],
         e.group = active[i].group, e.preroll = NoPreRoll, CancelPreRolls({i}),
         \A c \in Controllers : ctl'[c].schedule = ctl[c].schedule
  PROVE  SchedulesApart' /\ RepetitionsOwned' /\ Tracked' = Tracked
<1>1. i \in Ids /\ active'[i] = e /\ \A j \in Ids \ {i} : active'[j] = active[j]
  BY DEF WireInv, Inv, TypeOK, Tracked
<1>2. Tracked' = Tracked /\ Tracked \subseteq Ids
  BY <1>1 DEF Tracked
<1>3. SchedulesApart'
  BY <1>1, <1>2 DEF WireInv, SchedulesApart
<1>4. RepetitionsOwned'
  <2>. SUFFICES ASSUME NEW p \in PreRolls, preroll'[p].st # "none", ~ preroll'[p].cancelled
                PROVE  \E k \in Tracked' : active'[k].preroll = p /\ preroll'[p].ids = active'[k].group
    BY DEF RepetitionsOwned
  <2>1. /\ preroll'[p].st = preroll[p].st /\ preroll'[p].ids = preroll[p].ids
        /\ ~ preroll[p].cancelled /\ active[i].preroll # p
    BY <1>1, CancelFacts DEF WireInv, Inv
  <2>2. PICK k \in Tracked : active[k].preroll = p /\ preroll[p].ids = active[k].group
    BY <2>1 DEF WireInv, RepetitionsOwned
  <2>. QED  BY <1>1, <1>2, <2>1, <2>2
<1>. QED  BY <1>2, <1>3, <1>4

LEMMA InitWire == Init => WireInv
<1>. SUFFICES ASSUME Init PROVE WireInv
  OBVIOUS
<1>1. /\ Tracked = {} /\ wire = {}
      /\ \A c \in Controllers : ctl[c].msg = NoMessage /\ ctl[c].schedule = {}
      /\ \A t \in Timers : hand[t] = NoMessage
      /\ \A p \in PreRolls : preroll[p].st = "none"
  BY Blanks DEF Init, Idle, Tracked, Silent
<1>. QED  BY <1>1, InitInv DEF WireInv, SchedulesApart, RepetitionsOwned, InOrder

LEMMA InjectWire ==
  ASSUME WireInv, Inv', GeneratedIds, NEW c \in Controllers, NEW ids \in SUBSET Ids, NEW first \in ids,
         NEW auto \in BOOLEAN, NEW scheduled \in BOOLEAN, InjectCue(c, ids, first, auto, scheduled)
  PROVE  WireInv'
<1>1. ids \subseteq FreshIds /\ Locks(c) /\ UNCHANGED <<preroll, hand, closed, wire, prompt>>
  BY DEF InjectCue, GeneratedIds
<1>2. \A i \in Ids \ ids : active'[i] = active[i]
  BY DEF InjectCue
<1>3. \A i \in ids : active'[i].group = ids /\ active'[i].preroll = NoPreRoll
  <2>1. ASSUME NEW i \in ids PROVE active'[i].group = ids /\ active'[i].preroll = NoPreRoll
    <3>1. PICK t : active' = [j \in Ids |->
             IF j \notin ids THEN active[j]
             ELSE [NoEvent EXCEPT !.group = ids, !.auto = (auto /\ j = first),
                                  !.timer = IF j = first THEN t ELSE NoTimer]]
      BY DEF InjectCue
    <3>. DEFINE a == auto /\ i = first
                u == IF i = first THEN t ELSE NoTimer
    <3>2. active'[i] = [NoEvent EXCEPT !.group = ids, !.auto = a, !.timer = u]
      BY <3>1
    <3>. HIDE DEF a, u
    <3>. QED  BY <3>2 DEF NoEvent
  <2>. QED  BY <2>1
<1>4. Tracked' = Tracked \cup ids /\ ids \cap Tracked = {}
  BY <1>1, <1>2, <1>3 DEF FreshIds, Tracked
<1>5. /\ ctl'[c].msg = [kind |-> "out", ids |-> ids] /\ ctl'[c].schedule \subseteq {first}
      /\ \A d \in Controllers : d # c => ctl'[d] = ctl[d]
  BY DEF InjectCue, WireInv, Inv, TypeOK
<1>6. SchedulesApart'
  <2>1. \A d \in Controllers : ctl[d].schedule \cap ids = {}
    BY <1>1 DEF FreshIds
  <2>2. \A d, e \in Controllers : d # e => ctl'[d].schedule \cap ctl'[e].schedule = {}
    BY <1>5, <2>1 DEF WireInv, SchedulesApart
  <2>3. ASSUME NEW d \in Controllers, NEW i \in ctl'[d].schedule, i \in Tracked'
        PROVE  active'[i].preroll = NoPreRoll
    <3>1. CASE i \in ids
      BY <1>3, <3>1
    <3>2. CASE i \notin ids
      <4>1. d # c /\ i \in ctl[d].schedule /\ i \in Tracked /\ i \in Ids
        BY <1>4, <1>5, <2>3, <3>2 DEF Tracked
      <4>. QED  BY <1>2, <3>2, <4>1 DEF WireInv, SchedulesApart
    <3>. QED  BY <3>1, <3>2
  <2>. QED  BY <2>2, <2>3 DEF SchedulesApart
<1>7. RepetitionsOwned'
  <2>1. \A k \in Tracked : active'[k] = active[k]
    BY <1>2, <1>4 DEF Tracked
  <2>. QED  BY <1>1, <1>4, <2>1 DEF WireInv, RepetitionsOwned
<1>8. ASSUME prompt', ~ closed' PROVE InOrder'
  <2>1. InOrder /\ InHand
    BY <1>1, <1>8 DEF WireInv, Locks
  <2>. DEFINE m == [kind |-> "out", ids |-> ids]
  <2>2. m # NoMessage /\ m.kind = "out" /\ m.ids = ids
    BY DEF NoMessage
  <2>3. wire' \cup ids = Tracked'
    BY <1>1, <1>4, <2>1, Quiet
  <2>. HIDE DEF m
  <2>4. ctl'[c].msg = m
    BY <1>5 DEF m
  <2>. QED  BY <1>1, <1>5, <2>1, <2>2, <2>3, <2>4, SaysInOrder
<1>. QED  BY <1>6, <1>7, <1>8 DEF WireInv

LEMMA ReturnWire ==
  ASSUME WireInv, Inv', NEW c \in Controllers, NEW i \in Ids, ReturnToProgram(c, i)
  PROVE  WireInv'
<1>1. /\ i \in Tracked /\ Locks(c) /\ UNCHANGED <<hand, closed, wire, prompt>>
      /\ active' = [j \in Ids |-> IF j \in {i} \cup active[i].group THEN NoEvent ELSE active[j]]
      /\ CancelPreRolls({i} \cup active[i].group)
  BY DEF ReturnToProgram, End
<1>2. /\ ctl'[c].msg = [kind |-> "in", ids |-> active[i].group] /\ ctl'[c].schedule = ctl[c].schedule
      /\ \A d \in Controllers : d # c => ctl'[d] = ctl[d]
  <2>1. ctl[c] \in [msg : Messages, schedule : SUBSET Ids]
    BY DEF WireInv, Inv, TypeOK
  <2>2. ctl' = [ctl EXCEPT ![c] = [ctl[c] EXCEPT !.msg = [kind |-> "in", ids |-> active[i].group]]]
    BY DEF ReturnToProgram, Say
  <2>. QED  BY <2>1, <2>2 DEF WireInv, Inv, TypeOK
<1>3. SchedulesApart' /\ RepetitionsOwned' /\ Tracked' = Tracked \ active[i].group
  BY <1>1, <1>2, EndWire
<1>4. ASSUME prompt', ~ closed' PROVE InOrder'
  <2>1. InOrder /\ InHand
    BY <1>1, <1>4 DEF WireInv, Locks
  <2>. DEFINE m == [kind |-> "in", ids |-> active[i].group]
  <2>2. m # NoMessage /\ m.kind = "in" /\ m.ids = active[i].group
    BY DEF NoMessage
  <2>3. wire' \ active[i].group = Tracked'
    BY <1>1, <1>3, <2>1, Quiet
  <2>4. \A p \in PreRolls : preroll'[p].st = preroll[p].st
    BY <1>1, CancelFacts, Open DEF WireInv, Inv
  <2>5. ctl'[c].msg = m
    BY <1>2
  <2>. HIDE DEF m
  <2>. QED  BY <1>1, <1>2, <2>1, <2>2, <2>3, <2>4, <2>5, SaysInOrder
<1>. QED  BY <1>3, <1>4 DEF WireInv

LEMMA HoldWire ==
  ASSUME WireInv, Inv', NEW c \in Controllers, NEW i \in Ids, HoldBreak(c, i)
  PROVE  WireInv'
<1>. DEFINE e == [active[i] EXCEPT !.held = TRUE, !.timer = NoTimer, !.preroll = NoPreRoll]
<1>1. i \in Tracked /\ Locks(c) /\ CancelPreRolls({i}) /\ UNCHANGED <<ctl, hand, closed, wire, prompt>>
  BY DEF HoldBreak
<1>2. active' = [active EXCEPT ![i] = e]
  BY Zenon DEF HoldBreak
<1>3. e.group = active[i].group /\ e.preroll = NoPreRoll
  <2>1. active[i] \in Breaks
    BY Open DEF WireInv, Inv
  <2>. QED  BY <2>1 DEF Breaks
<1>. HIDE DEF e
<1>4. SchedulesApart' /\ RepetitionsOwned' /\ Tracked' = Tracked
  BY <1>1, <1>2, <1>3, ChangeWire
<1>5. ASSUME prompt', ~ closed' PROVE InOrder'
  <2>1. InOrder /\ InHand
    BY <1>1, <1>5 DEF WireInv, Locks
  <2>2. \A p \in PreRolls : preroll'[p].st # "sending"
    BY <1>1, <2>1, CancelFacts, Quiet DEF WireInv, Inv
  <2>. QED  BY <1>1, <1>4, <2>1, <2>2, SameInOrder
<1>. QED  BY <1>4, <1>5 DEF WireInv

LEMMA ExtendWire ==
  ASSUME WireInv, Inv', NEW c \in Controllers, NEW i \in Ids, NEW left \in BOOLEAN, ExtendBreak(c, i, left)
  PROVE  WireInv'
<1>1. i \in Tracked /\ Locks(c) /\ CancelPreRolls({i}) /\ UNCHANGED <<hand, closed, wire, prompt>>
  BY DEF ExtendBreak
<1>2. PICK t : active' = [active EXCEPT ![i].held = FALSE, ![i].timer = t, ![i].preroll = NoPreRoll]
  BY DEF ExtendBreak
<1>. DEFINE e == [active[i] EXCEPT !.held = FALSE, !.timer = t, !.preroll = NoPreRoll]
<1>3. active' = [active EXCEPT ![i] = e]
  BY <1>2, Zenon
<1>4. e.group = active[i].group /\ e.preroll = NoPreRoll
  <2>1. active[i] \in Breaks
    BY Open DEF WireInv, Inv
  <2>. QED  BY <2>1 DEF Breaks
<1>. HIDE DEF e
<1>5. /\ ctl'[c].msg = [kind |-> "out", ids |-> active[i].group] /\ ctl'[c].schedule = ctl[c].schedule
      /\ \A d \in Controllers : d # c => ctl'[d] = ctl[d]
  <2>1. ctl[c] \in [msg : Messages, schedule : SUBSET Ids]
    BY DEF WireInv, Inv, TypeOK
  <2>2. ctl' = [ctl EXCEPT ![c] = [ctl[c] EXCEPT !.msg = [kind |-> "out", ids |-> active[i].group]]]
    BY DEF ExtendBreak, Say
  <2>. QED  BY <2>1, <2>2 DEF WireInv, Inv, TypeOK
<1>6. SchedulesApart' /\ RepetitionsOwned' /\ Tracked' = Tracked
  BY <1>1, <1>3, <1>4, <1>5, ChangeWire
<1>7. ASSUME prompt', ~ closed' PROVE InOrder'
  <2>1. InOrder /\ InHand
    BY <1>1, <1>7 DEF WireInv, Locks
  <2>. DEFINE m == [kind |-> "out", ids |-> active[i].group]
  <2>2. m # NoMessage /\ m.kind = "out" /\ m.ids = active[i].group
    BY DEF NoMessage
  <2>3. wire' \cup active[i].group = Tracked'
    BY <1>1, <1>6, <2>1, Quiet, GroupTracked DEF WireInv
  <2>4. \A p \in PreRolls : preroll'[p].st = preroll[p].st
    BY <1>1, CancelFacts DEF WireInv, Inv
  <2>5. ctl'[c].msg = m
    BY <1>5
  <2>. HIDE DEF m
  <2>. QED  BY <1>1, <1>5, <2>1, <2>2, <2>3, <2>4, <2>5, SaysInOrder
<1>. QED  BY <1>6, <1>7 DEF WireInv

LEMMA ScheduleWire ==
  ASSUME WireInv, Inv', NEW c \in Controllers, Schedule(c)
  PROVE  WireInv'
<1>1. PICK i \in ctl[c].schedule : TRUE
  BY DEF Schedule
<1>2. /\ i \in Ids /\ UNCHANGED <<timer, hand, closed, wire, prompt>>
      /\ \A d \in Controllers : d # c => ctl'[d] = ctl[d]
      /\ ctl'[c].schedule = {} /\ ctl'[c].msg = ctl[c].msg
  <2>1. ctl[c] \in [msg : Messages, schedule : SUBSET Ids]
    BY DEF WireInv, Inv, TypeOK
  <2>2. ctl' = [ctl EXCEPT ![c] = [ctl[c] EXCEPT !.schedule = {}]] /\ UNCHANGED <<timer, hand, closed, wire, prompt>>
    BY DEF Schedule
  <2>3. [ctl[c] EXCEPT !.schedule = {}].schedule = {} /\ [ctl[c] EXCEPT !.schedule = {}].msg = ctl[c].msg /\ i \in Ids
    BY <1>1, <2>1
  <2>. QED  BY <2>2, <2>3 DEF WireInv, Inv, TypeOK
<1>3. CASE UNCHANGED <<preroll, active>>
  <2>1. SchedulesApart' /\ RepetitionsOwned' /\ Tracked' = Tracked
    BY <1>2, <1>3 DEF WireInv, SchedulesApart, RepetitionsOwned, Tracked
  <2>2. \A d \in Controllers : ctl'[d].msg = ctl[d].msg
    BY <1>2
  <2>3. ASSUME prompt', ~ closed' PROVE InOrder'
    <3>1. \A p \in PreRolls : preroll'[p].cancelled => preroll'[p].st # "sending"
      BY <1>2, <1>3, <2>3 DEF WireInv, InOrder
    <3>. QED  BY <1>2, <2>1, <2>2, <2>3, <3>1, SameInOrder DEF WireInv
  <2>. QED  BY <2>1, <2>3 DEF WireInv
<1>4. CASE i \in Tracked /\ ~ UNCHANGED <<preroll, active>>
  <2>1. PICK p \in PreRolls :
          /\ preroll' = [preroll EXCEPT ![p] = [Silent EXCEPT !.st = "running", !.ids = active[i].group]]
          /\ active' = [active EXCEPT ![i].preroll = p]
    BY <1>1, <1>4 DEF Schedule
  <2>. DEFINE r == [Silent EXCEPT !.st = "running", !.ids = active[i].group]
             e == [active[i] EXCEPT !.preroll = p]
  <2>2. r.st = "running" /\ r.ids = active[i].group /\ r.cancelled = FALSE
    BY DEF Silent
  <2>3. e.group = active[i].group /\ e.preroll = p
    <3>1. active[i] \in Breaks
      BY <1>2, Open DEF WireInv, Inv
    <3>. QED  BY <3>1 DEF Breaks
  <2>4. preroll' = [preroll EXCEPT ![p] = r] /\ active' = [active EXCEPT ![i] = e]
    BY <2>1, Zenon
  <2>. HIDE DEF r, e
  <2>5. /\ preroll'[p] = r /\ \A q \in PreRolls \ {p} : preroll'[q] = preroll[q]
        /\ active'[i] = e /\ \A j \in Ids \ {i} : active'[j] = active[j]
    BY <1>2, <2>4 DEF WireInv, Inv, TypeOK
  <2>6. Tracked' = Tracked
    BY <1>2, <2>3, <2>5 DEF Tracked
  <2>7. active[i].preroll = NoPreRoll /\ \A d \in Controllers \ {c} : i \notin ctl[d].schedule
    BY <1>1, <1>4 DEF WireInv, SchedulesApart
  <2>8. SchedulesApart'
    <3>1. \A d, f \in Controllers : d # f => ctl'[d].schedule \cap ctl'[f].schedule = {}
      BY <1>2 DEF WireInv, SchedulesApart
    <3>2. ASSUME NEW d \in Controllers, NEW j \in ctl'[d].schedule \cap Tracked'
          PROVE  active'[j].preroll = NoPreRoll
      <4>1. d # c /\ j \in ctl[d].schedule \cap Tracked /\ j # i /\ j \in Ids
        BY <1>2, <2>6, <2>7, <3>2 DEF Tracked
      <4>. QED  BY <2>5, <4>1 DEF WireInv, SchedulesApart
    <3>. QED  BY <3>1, <3>2 DEF SchedulesApart
  <2>9. RepetitionsOwned'
    <3>. SUFFICES ASSUME NEW q \in PreRolls, preroll'[q].st # "none", ~ preroll'[q].cancelled
                  PROVE  \E k \in Tracked' : active'[k].preroll = q /\ preroll'[q].ids = active'[k].group
      BY DEF RepetitionsOwned
    <3>1. CASE q = p
      BY <1>4, <2>2, <2>3, <2>5, <2>6, <3>1
    <3>2. CASE q # p
      <4>1. preroll'[q] = preroll[q]
        BY <2>5, <3>2
      <4>2. PICK k \in Tracked : active[k].preroll = q /\ preroll[q].ids = active[k].group
        BY <4>1 DEF WireInv, RepetitionsOwned
      <4>3. k # i /\ k \in Ids
        BY <2>7, <4>2, NilAssumption DEF Tracked
      <4>. QED  BY <2>5, <2>6, <4>1, <4>2, <4>3
    <3>. QED  BY <3>1, <3>2
  <2>10. ASSUME prompt', ~ closed' PROVE InOrder'
    <3>1. \A q \in PreRolls : preroll'[q].cancelled => preroll'[q].st # "sending"
      BY <1>2, <2>2, <2>5, <2>10 DEF WireInv, InOrder
    <3>2. \A d \in Controllers : ctl'[d].msg = ctl[d].msg
      BY <1>2
    <3>. QED  BY <1>2, <2>6, <2>10, <3>1, <3>2, SameInOrder DEF WireInv
  <2>. QED  BY <2>8, <2>9, <2>10 DEF WireInv
<1>. QED  BY <1>1, <1>3, <1>4 DEF Schedule

\* A repetition in order of the lock says nothing new.
LEMMA RepeatsKnown ==
  ASSUME WireInv, NEW p \in PreRolls, preroll[p].st # "none", ~ preroll[p].cancelled
  PROVE  preroll[p].ids \subseteq Tracked
BY GroupTracked DEF WireInv, RepetitionsOwned

LEMMA PreRollWire ==
  ASSUME WireInv, Inv', NEW p \in PreRolls, PreRollTick(p) \/ PreRollSend(p) \/ PreRollEnd(p)
  PROVE  WireInv'
<1>1. /\ UNCHANGED <<active, timer, ctl, hand, closed, prompt>> /\ preroll[p].st # "none"
      /\ \A q \in PreRolls \ {p} : preroll'[q] = preroll[q]
  BY DEF PreRollTick, PreRollSend, PreRollEnd, WireInv, Inv, TypeOK
<1>2. \/ preroll'[p] = Silent
      \/ preroll'[p].ids = preroll[p].ids /\ preroll'[p].cancelled = preroll[p].cancelled
  <2>1. \/ preroll'[p] = Silent
        \/ preroll'[p] = [preroll[p] EXCEPT !.st = "sending"]
        \/ preroll'[p] = [preroll[p] EXCEPT !.st = "running"]
    BY DEF PreRollTick, PreRollSend, PreRollEnd, WireInv, Inv, TypeOK
  <2>. QED  BY <2>1, PreRollFacts DEF WireInv, Inv, Repetitions
<1>3. Tracked' = Tracked /\ SchedulesApart'
  BY <1>1 DEF WireInv, SchedulesApart, Tracked
<1>4. RepetitionsOwned'
  <2>. SUFFICES ASSUME NEW q \in PreRolls, preroll'[q].st # "none", ~ preroll'[q].cancelled
                PROVE  \E k \in Tracked' : active'[k].preroll = q /\ preroll'[q].ids = active'[k].group
    BY DEF RepetitionsOwned
  <2>1. preroll[q].st # "none" /\ ~ preroll[q].cancelled /\ preroll'[q].ids = preroll[q].ids
    BY <1>1, <1>2, PreRollFacts DEF WireInv, Inv
  <2>. QED  BY <1>1, <1>3, <2>1 DEF WireInv, RepetitionsOwned
<1>5. ASSUME prompt', ~ closed' PROVE InOrder'
  <2>1. InOrder /\ prompt /\ ~ closed
    BY <1>1, <1>5 DEF WireInv
  <2>2. \A q \in PreRolls : preroll'[q].cancelled => preroll'[q].st # "sending"
    <3>1. CASE PreRollTick(p)
      <4>1. ~ preroll[p].cancelled
        BY <2>1, <3>1 DEF PreRollTick
      <4>. QED  BY <1>1, <1>2, <2>1, <4>1, PreRollFacts DEF InOrder, WireInv, Inv
    <3>2. CASE PreRollSend(p) \/ PreRollEnd(p)
      <4>1. preroll'[p].st # "sending"
        <5>1. preroll'[p] = Silent \/ preroll'[p] = [preroll[p] EXCEPT !.st = "running"]
          BY <3>2 DEF PreRollSend, PreRollEnd, WireInv, Inv, TypeOK
        <5>. QED  BY <5>1, PreRollFacts DEF WireInv, Inv, Repetitions
      <4>. QED  BY <1>1, <2>1, <4>1 DEF InOrder
    <3>. QED  BY <3>1, <3>2
  <2>3. CASE PreRollTick(p) \/ PreRollEnd(p)
    <3>1. UNCHANGED wire
      BY <2>3 DEF PreRollTick, PreRollEnd
    <3>. QED  BY <1>1, <1>3, <2>1, <2>2, <3>1, SameInOrder
  <2>4. CASE PreRollSend(p)
    <3>1. ~ preroll[p].cancelled /\ wire' = wire \cup preroll[p].ids
      BY <2>1, <2>4 DEF PreRollSend, InOrder
    <3>2. preroll[p].ids \subseteq Tracked
      BY <1>1, <3>1, RepeatsKnown
    <3>3. \A m : Heard(m) = Tracked =>
            (IF m.kind = "out" THEN wire' \cup m.ids ELSE wire' \ m.ids) = Tracked
      BY <3>1, <3>2 DEF Heard
    <3>4. wire = Tracked => wire' = Tracked
      BY <3>1, <3>2
    <3>. QED  BY <1>1, <1>3, <2>1, <2>2, <3>3, <3>4 DEF InOrder, Heard
  <2>. QED  BY <2>3, <2>4
<1>. QED  BY <1>3, <1>4, <1>5 DEF WireInv

\* The callback of a timer ends breaks as a request does.
LEMMA TimerReturnsWire ==
  ASSUME WireInv, Inv', NEW t \in Timers, TimerReturns(t)
  PROVE  WireInv'
<1>. DEFINE i == timer[t].id
<1>1. i \in Ids /\ UNCHANGED <<ctl, closed, wire, prompt>> /\ (prompt => InHand)
  BY DEF TimerReturns, WireInv, Inv, TypeOK
<1>2. CASE closed \/ i \notin Tracked
  <2>1. UNCHANGED <<active, preroll, hand>>
    BY <1>2 DEF TimerReturns
  <2>2. Tracked' = Tracked /\ SchedulesApart' /\ RepetitionsOwned'
    BY <1>1, <2>1 DEF WireInv, SchedulesApart, RepetitionsOwned, Tracked
  <2>3. ASSUME prompt', ~ closed' PROVE InOrder'
    BY <1>1, <2>1, <2>2, <2>3 DEF WireInv, InOrder, Heard
  <2>. QED  BY <2>2, <2>3 DEF WireInv
<1>3. CASE ~ (closed \/ i \notin Tracked)
  <2>1. /\ i \in Tracked
        /\ active' = [j \in Ids |-> IF j \in {i} \cup active[i].group THEN NoEvent ELSE active[j]]
        /\ CancelPreRolls({i} \cup active[i].group)
        /\ hand' = [hand EXCEPT ![t] = [kind |-> "in", ids |-> active[i].group]]
    BY <1>3 DEF TimerReturns
  <2>2. SchedulesApart' /\ RepetitionsOwned' /\ Tracked' = Tracked \ active[i].group
    BY <1>1, <2>1, EndWire
  <2>3. ASSUME prompt', ~ closed' PROVE InOrder'
    <3>1. InOrder /\ InHand
      BY <1>1, <2>3 DEF WireInv
    <3>. DEFINE m == [kind |-> "in", ids |-> active[i].group]
    <3>2. m # NoMessage /\ m.kind = "in" /\ m.ids = active[i].group
      BY DEF NoMessage
    <3>3. wire' \ active[i].group = Tracked'
      BY <1>1, <2>2, <3>1, Quiet
    <3>4. \A p \in PreRolls : preroll'[p].st # "sending"
      <4>1. {i} \cup active[i].group \in SUBSET Ids
        BY <1>1, Open DEF WireInv, Inv
      <4>. QED  BY <2>1, <3>1, <4>1, CancelFacts, Quiet DEF WireInv, Inv
    <3>5. hand'[t] = m /\ \A u \in Timers : u # t => hand'[u] = hand[u]
      BY <2>1 DEF WireInv, Inv, TypeOK
    <3>. HIDE DEF m
    <3>. QED  BY <1>1, <3>1, <3>2, <3>3, <3>4, <3>5, Quiet DEF InOrder, Heard
  <2>. QED  BY <2>2, <2>3 DEF WireInv
<1>. QED  BY <1>2, <1>3

\* The message in hand is sent: the wire agrees.
LEMMA SendWire ==
  ASSUME WireInv, Inv'
  PROVE  /\ \A c \in Controllers : Send(c) => WireInv'
         /\ \A t \in Timers : TimerFires(t) \/ TimerSend(t) => WireInv'
<1>1. ASSUME NEW c \in Controllers, Send(c) PROVE WireInv'
  <2>1. /\ UNCHANGED <<active, timer, preroll, hand, closed, prompt>>
        /\ ctl[c].msg # NoMessage /\ wire' = Heard(ctl[c].msg)
        /\ \A d \in Controllers : d # c => ctl'[d] = ctl[d]
        /\ ctl'[c].msg = NoMessage /\ ctl'[c].schedule = ctl[c].schedule
    <3>1. ctl[c] \in [msg : Messages, schedule : SUBSET Ids]
      BY DEF WireInv, Inv, TypeOK
    <3>2. ctl' = [ctl EXCEPT ![c] = [ctl[c] EXCEPT !.msg = NoMessage]]
      BY <1>1 DEF Send
    <3>. QED  BY <1>1, <3>1, <3>2 DEF Send, WireInv, Inv, TypeOK
  <2>2. Tracked' = Tracked /\ SchedulesApart' /\ RepetitionsOwned'
    BY <2>1 DEF WireInv, SchedulesApart, RepetitionsOwned, Tracked
  <2>3. ASSUME prompt', ~ closed' PROVE InOrder'
    BY <2>1, <2>2, <2>3 DEF WireInv, InOrder
  <2>. QED  BY <2>2, <2>3 DEF WireInv
<1>2. ASSUME NEW t \in Timers, TimerFires(t) PROVE WireInv'
  BY <1>2 DEF TimerFires, WireInv, SchedulesApart, RepetitionsOwned, Tracked, InOrder, Heard
<1>3. ASSUME NEW t \in Timers, TimerSend(t) PROVE WireInv'
  <2>1. /\ UNCHANGED <<active, timer, preroll, ctl, closed, prompt>>
        /\ hand[t] # NoMessage /\ wire' = Heard(hand[t])
        /\ hand'[t] = NoMessage /\ \A u \in Timers : u # t => hand'[u] = hand[u]
    BY <1>3 DEF TimerSend, WireInv, Inv, TypeOK
  <2>2. Tracked' = Tracked /\ SchedulesApart' /\ RepetitionsOwned'
    BY <2>1 DEF WireInv, SchedulesApart, RepetitionsOwned, Tracked
  <2>3. ASSUME prompt', ~ closed' PROVE InOrder'
    BY <2>1, <2>2, <2>3 DEF WireInv, InOrder
  <2>. QED  BY <2>2, <2>3 DEF WireInv
<1>. QED  BY <1>1, <1>2, <1>3

LEMMA CloseWire == WireInv /\ Inv' /\ Close => WireInv'
<1>. SUFFICES ASSUME WireInv, Inv', Close PROVE WireInv'
  OBVIOUS
<1>1. closed' /\ CancelPreRolls(Ids) /\ UNCHANGED <<active, ctl>>
  BY DEF Close
<1>2. \A p \in PreRolls : preroll'[p].st # "none" /\ ~ preroll'[p].cancelled =>
        preroll[p].st # "none" /\ ~ preroll[p].cancelled /\ preroll'[p].ids = preroll[p].ids
  BY <1>1, CancelFacts DEF WireInv, Inv
<1>3. SchedulesApart' /\ RepetitionsOwned'
  BY <1>1, <1>2 DEF WireInv, SchedulesApart, RepetitionsOwned, Tracked
<1>. QED  BY <1>1, <1>3 DEF WireInv

LEMMA NextWire ==
  ASSUME GeneratedIds PROVE WireInv /\ [Next]_vars => WireInv'
<1>. SUFFICES ASSUME WireInv, [Next]_vars PROVE WireInv'
  OBVIOUS
<1>0. Inv'
  BY NextInv DEF WireInv
<1>1. CASE UNCHANGED vars
  BY <1>0, <1>1 DEF vars, WireInv, SchedulesApart, RepetitionsOwned, Tracked, InOrder, Heard
<1>2. ASSUME NEW c \in Controllers, Request(c) PROVE WireInv'
  BY <1>0, <1>2, InjectWire, ReturnWire, HoldWire, ExtendWire DEF Request, CancelEvent
<1>3. ASSUME NEW t \in Timers, Timer(t) PROVE WireInv'
  BY <1>0, <1>3, TimerReturnsWire, SendWire DEF Timer
<1>. QED  BY <1>0, <1>1, <1>2, <1>3, ScheduleWire, PreRollWire, CloseWire, SendWire DEF Next
-----------------------------------------------------------------------------
\* Every variable keeps its type, and an open break is among the breaks of its message.
THEOREM Typing ==
  ASSUME GeneratedIds PROVE Spec => []TypeOK
<1>1. Inv => TypeOK
  BY DEF Inv
<1>. QED  BY <1>1, InitInv, NextInv, PTL DEF Spec

\* The breaks that one message opened are open and end together, by whatever request or
\* timer ends the first (removeSiblingEventsLocked).
THEOREM SiblingsAlways ==
  ASSUME GeneratedIds PROVE Spec => []SiblingsTogether
<1>1. Inv => SiblingsTogether
  BY DEF Inv
<1>. QED  BY <1>1, InitInv, NextInv, PTL DEF Spec

\* No running timer is lost sight of: it is that of an open break which is not held, through
\* holds, extensions and the ends of breaks (injector.go).
THEOREM TimersAlwaysOwned ==
  ASSUME GeneratedIds PROVE Spec => []TimersOwned
<1>1. Inv => TimersOwned
  BY DEF Inv
<1>. QED  BY <1>1, InitInv, NextInv, PTL DEF Spec

\* What receivers of the stream believe: once every message is sent, in the order in which
\* the requests and timers had the lock, exactly the breaks that are open here are open for
\* them, however the breaks were opened, scheduled, repeated, held, extended and ended.
THEOREM WireAlwaysAgrees ==
  ASSUME GeneratedIds PROVE Spec => []WireAgrees
<1>1. WireInv => WireAgrees
  BY Quiet DEF WireInv, WireAgrees
<1>. QED  BY <1>1, InitWire, NextWire, PTL DEF Spec
=============================================================================
