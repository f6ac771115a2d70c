--------------------------- MODULE SpliceInjector ---------------------------
(***************************************************************************)
(* Ad breaks (server/scte35/injector.go): cues that open a break, the      *)
(* timers that end it, hold, extend, cancel, the repetition of a cue       *)
(* during its pre-roll, and what receivers of the stream make of the       *)
(* messages.                                                               *)
(*                                                                         *)
(* Threads: Controllers (API requests and macros), a goroutine per timer   *)
(* that has fired, and one per pre-roll.  inj.mu guards the breaks; every  *)
(* message is handed to the muxer after the unlock.  A splice_insert opens *)
(* one break, a time_signal one per cue-out descriptor.  Durations are     *)
(* left out: a timer may fire at any time.                                 *)
(***************************************************************************)
EXTENDS Integers, FiniteSets

CONSTANTS
  Ids,          \* event IDs
  Controllers,  \* goroutines serving requests
  Timers,       \* timers; one is reused when nothing refers to it
  NoTimer,      \* the nil timer
  PreRolls,     \* pre-roll goroutines
  NoPreRoll,    \* the nil cancel function
  MaxActive,    \* config.MaxActiveEvents
  Operations,   \* group, explicit_id, schedule, extend_short: what requests may use
  Tempos        \* what prompt may be

ASSUME NilAssumption == NoTimer \notin Timers /\ NoPreRoll \notin PreRolls
ASSUME BoundAssumption == MaxActive \in Nat \ {0} /\ Tempos \subseteq BOOLEAN /\ Ids # {}

VARIABLES
  active,   \* inj.activeEvents
  timer,    \* per timer: pending, or fired and waiting for the lock
  preroll,  \* per pre-roll goroutine
  ctl,      \* per controller: the request under way
  hand,     \* per timer: the message its goroutine has to send
  closed,   \* inj.closed
  wire,     \* the breaks that are open for receivers of the stream
  prompt    \* never changes; TRUE: a message in hand is sent and a fired timer served
            \* before another goroutine gets the lock

vars == <<active, timer, preroll, ctl, hand, closed, wire, prompt>>

NoEvent == [group |-> {}, auto |-> FALSE, held |-> FALSE, timer |-> NoTimer, preroll |-> NoPreRoll]
NoMessage == [kind |-> "none", ids |-> {}]
Silent == [st |-> "none", ids |-> {}, cancelled |-> FALSE]
Idle == [msg |-> NoMessage, schedule |-> {}]

Messages == [kind : {"none", "out", "in"}, ids : SUBSET Ids]
Tracked == {i \in Ids : active[i].group # {}}

TypeOK ==
  /\ active \in [Ids -> [group : SUBSET Ids, auto : BOOLEAN, held : BOOLEAN,
                         timer : Timers \cup {NoTimer}, preroll : PreRolls \cup {NoPreRoll}]]
  /\ timer \in [Timers -> [st : {"none", "pending", "fired"}, id : Ids]]
  /\ preroll \in [PreRolls -> [st : {"none", "running", "sending"}, ids : SUBSET Ids,
                               cancelled : BOOLEAN]]
  /\ ctl \in [Controllers -> [msg : Messages, schedule : SUBSET Ids]]
  /\ hand \in [Timers -> Messages]
  /\ closed \in BOOLEAN /\ wire \in SUBSET Ids /\ prompt \in Tempos
  /\ \A i \in Ids : active[i] = NoEvent \/ i \in active[i].group

Init ==
  /\ active = [i \in Ids |-> NoEvent]
  /\ timer \in [Timers -> {[st |-> "none", id |-> CHOOSE i \in Ids : TRUE]}]
  /\ preroll = [p \in PreRolls |-> Silent]
  /\ ctl = [c \in Controllers |-> Idle]
  /\ hand = [t \in Timers |-> NoMessage]
  /\ closed = FALSE /\ wire = {} /\ prompt \in Tempos
-----------------------------------------------------------------------------
Unused(t) ==
  timer[t].st = "none" /\ hand[t] = NoMessage /\ \A i \in Ids : active[i].timer # t

\* The counter hands out IDs that nothing refers to any more.
FreshIds ==
  {i \in Ids : /\ i \notin Tracked \cup wire
               /\ \A t \in Timers : (timer[t].st # "none" => timer[t].id # i) /\ i \notin hand[t].ids
               /\ \A c \in Controllers : i \notin ctl[c].msg.ids \cup ctl[c].schedule
               /\ \A p \in PreRolls : i \notin preroll[p].ids}

\* Messages that are not sent yet.
InHand == /\ \A c \in Controllers : ctl[c].msg = NoMessage
          /\ \A t \in Timers : hand[t] = NoMessage
          /\ \A p \in PreRolls : preroll[p].st # "sending"

\* A request gets the lock.
Locks(c) ==
  /\ ctl[c] = Idle /\ ~ closed
  /\ prompt => InHand /\ \A t \in Timers : timer[t].st # "fired"

\* timer.Stop() and the cancel functions: a timer that has fired is not called back.
StopTimers(ids) ==
  timer' = [t \in Timers |->
    IF timer[t].st = "pending" /\ \E i \in ids : active[i].timer = t
      THEN [timer[t] EXCEPT !.st = "none"] ELSE timer[t]]

CancelPreRolls(ids) ==
  preroll' = [p \in PreRolls |->
    IF preroll[p].st # "none" /\ \E i \in ids : active[i].preroll = p
      THEN [preroll[p] EXCEPT !.cancelled = TRUE] ELSE preroll[p]]

Say(c, kind, ids) == ctl' = [ctl EXCEPT ![c].msg = [kind |-> kind, ids |-> ids]]
-----------------------------------------------------------------------------
(* InjectCue and ScheduleCue *)

\* The events of a message share one timer, which the first of them holds.  An ID
\* given by the caller is not looked up: an event it replaces keeps its timer running.
InjectCue(c, ids, first, auto, scheduled) ==
  /\ Locks(c)
  /\ Cardinality(Tracked) < MaxActive
  /\ first \in ids
  /\ ids \subseteq FreshIds \/ "explicit_id" \in Operations
  /\ Cardinality(ids) > 1 => "group" \in Operations
  /\ scheduled => "schedule" \in Operations
  /\ \E t \in Timers \cup {NoTimer} :
       /\ IF auto THEN t \in Timers /\ Unused(t) ELSE t = NoTimer
       /\ active' = [i \in Ids |->
            IF i \notin ids THEN active[i]
            ELSE [NoEvent EXCEPT !.group = ids, !.auto = (auto /\ i = first),
                                 !.timer = IF i = first THEN t ELSE NoTimer]]
       /\ timer' = IF auto THEN [timer EXCEPT ![t] = [st |-> "pending", id |-> first]] ELSE timer
  /\ ctl' = [ctl EXCEPT ![c] = [msg |-> [kind |-> "out", ids |-> ids],
                                schedule |-> IF scheduled THEN {first} ELSE {}]]
  /\ UNCHANGED <<preroll, hand, closed, wire, prompt>>

\* ScheduleCue takes the lock again and looks the event up by its ID.
Schedule(c) ==
  /\ ctl[c].schedule # {} /\ ctl[c].msg = NoMessage
  /\ prompt => InHand
  /\ \A i \in ctl[c].schedule :
       IF i \in Tracked
         THEN \E p \in PreRolls :
                /\ preroll[p] = Silent /\ \A j \in Ids : active[j].preroll # p
                /\ preroll' = [preroll EXCEPT ![p] = [Silent EXCEPT !.st = "running", !.ids = active[i].group]]
                /\ active' = [active EXCEPT ![i].preroll = p]
         ELSE UNCHANGED <<preroll, active>>
  /\ ctl' = [ctl EXCEPT ![c].schedule = {}]
  /\ UNCHANGED <<timer, hand, closed, wire, prompt>>

\* preRollRepeat: at every tick the cue again, until the splice point or the cancel;
\* select may still take a tick that is ready together with the cancel.
PreRollTick(p) ==
  /\ preroll[p].st = "running"
  /\ prompt => ~ preroll[p].cancelled
  /\ preroll' = [preroll EXCEPT ![p] = IF closed THEN Silent ELSE [@ EXCEPT !.st = "sending"]]
  /\ UNCHANGED <<active, timer, ctl, hand, closed, wire, prompt>>

PreRollSend(p) ==
  /\ preroll[p].st = "sending"
  /\ wire' = wire \cup preroll[p].ids
  /\ preroll' = [preroll EXCEPT ![p] = IF @.cancelled THEN Silent ELSE [@ EXCEPT !.st = "running"]]
  /\ UNCHANGED <<active, timer, ctl, hand, closed, prompt>>

PreRollEnd(p) ==
  /\ preroll[p].st = "running"
  /\ preroll' = [preroll EXCEPT ![p] = Silent]
  /\ UNCHANGED <<active, timer, ctl, hand, closed, wire, prompt>>
-----------------------------------------------------------------------------
(* The end of a break: ReturnToProgram and CancelEvent, by request or timer *)

\* Mutant: the other breaks of the message stay.
End_One(i) ==
  /\ active' = [active EXCEPT ![i] = NoEvent]
  /\ StopTimers({i})
  /\ CancelPreRolls({i})

\* The break goes, and with it all that the same message opened.
End(i) ==
  LET gone == {i} \cup active[i].group IN
  /\ active' = [j \in Ids |-> IF j \in gone THEN NoEvent ELSE active[j]]
  /\ StopTimers(gone)
  /\ CancelPreRolls(gone)

ReturnToProgram(c, i) ==
  /\ Locks(c) /\ i \in Tracked
  /\ End(i)
  /\ Say(c, "in", active[i].group)
  /\ UNCHANGED <<hand, closed, wire, prompt>>

\* The message cancels where the other returns: receivers leave the break either way.
CancelEvent(c, i) == ReturnToProgram(c, i)

TimerFires(t) ==
  /\ timer[t].st = "pending"
  /\ timer' = [timer EXCEPT ![t].st = "fired"]
  /\ UNCHANGED <<active, preroll, ctl, hand, closed, wire, prompt>>

\* Mutant: the timer's return does not reach the stream.
TimerReturns_Mute(t) ==
  /\ timer[t].st = "fired" /\ timer[t].id \in Tracked
  /\ LET i == timer[t].id IN
       /\ active' = [j \in Ids |-> IF j \in {i} \cup active[i].group THEN NoEvent ELSE active[j]]
       /\ timer' = [timer EXCEPT ![t].st = "none"]
       /\ CancelPreRolls({i} \cup active[i].group)
  /\ UNCHANGED <<hand, ctl, closed, wire, prompt>>

\* The callback of a timer: ReturnToProgram of the ID it was made for.
TimerReturns(t) ==
  /\ timer[t].st = "fired"
  /\ prompt => InHand
  /\ LET i == timer[t].id IN
       IF closed \/ i \notin Tracked
         THEN timer' = [timer EXCEPT ![t].st = "none"] /\ UNCHANGED <<active, preroll, hand>>
         ELSE LET gone == {i} \cup active[i].group IN
              /\ active' = [j \in Ids |-> IF j \in gone THEN NoEvent ELSE active[j]]
              /\ timer' = [u \in Timers |->
                   IF u = t \/ (timer[u].st = "pending" /\ \E j \in gone : active[j].timer = u)
                     THEN [timer[u] EXCEPT !.st = "none"] ELSE timer[u]]
              /\ CancelPreRolls(gone)
              /\ hand' = [hand EXCEPT ![t] = [kind |-> "in", ids |-> active[i].group]]
  /\ UNCHANGED <<ctl, closed, wire, prompt>>
-----------------------------------------------------------------------------
(* HoldBreak, ExtendBreak, Close *)

\* Mutant: the timer of a held break goes on.
HoldBreak_TimerRuns(c, i) ==
  /\ Locks(c) /\ i \in Tracked
  /\ CancelPreRolls({i})
  /\ active' = [active EXCEPT ![i].held = TRUE, ![i].preroll = NoPreRoll]
  /\ UNCHANGED <<timer, ctl, hand, closed, wire, prompt>>

\* Only the timer of this very event is stopped.
HoldBreak(c, i) ==
  /\ Locks(c) /\ i \in Tracked
  /\ StopTimers({i}) /\ CancelPreRolls({i})
  /\ active' = [active EXCEPT ![i].held = TRUE, ![i].timer = NoTimer, ![i].preroll = NoPreRoll]
  /\ UNCHANGED <<ctl, hand, closed, wire, prompt>>

\* Mutant: the old timer is stopped and no new one made.
ExtendBreak_NoTimer(c, i, left) ==
  /\ Locks(c) /\ i \in Tracked /\ left
  /\ StopTimers({i}) /\ CancelPreRolls({i})
  /\ active' = [active EXCEPT ![i].held = FALSE, ![i].timer = NoTimer, ![i].preroll = NoPreRoll]
  /\ Say(c, "out", active[i].group)
  /\ UNCHANGED <<hand, closed, wire, prompt>>

\* A new timer for what is left of the new duration, if anything is left.
ExtendBreak(c, i, left) ==
  /\ Locks(c) /\ i \in Tracked
  /\ ~ left => "extend_short" \in Operations
  /\ CancelPreRolls({i})
  /\ LET stopped == [t \in Timers |-> IF timer[t].st = "pending" /\ active[i].timer = t
                                        THEN [timer[t] EXCEPT !.st = "none"] ELSE timer[t]]
     IN \E t \in Timers \cup {NoTimer} :
          /\ IF left /\ active[i].auto THEN t \in Timers /\ Unused(t) ELSE t = NoTimer
          /\ timer' = IF t = NoTimer THEN stopped ELSE [stopped EXCEPT ![t] = [st |-> "pending", id |-> i]]
          /\ active' = [active EXCEPT ![i].held = FALSE, ![i].timer = t, ![i].preroll = NoPreRoll]
  /\ Say(c, "out", active[i].group)
  /\ UNCHANGED <<hand, closed, wire, prompt>>

Close ==
  /\ ~ closed /\ closed' = TRUE
  /\ StopTimers(Ids) /\ CancelPreRolls(Ids)
  /\ UNCHANGED <<active, ctl, hand, wire, prompt>>
-----------------------------------------------------------------------------
(* The muxer gets a message after the unlock; receivers follow it.         *)

Heard(msg) == IF msg.kind = "out" THEN wire \cup msg.ids ELSE wire \ msg.ids

Send(c) ==
  /\ ctl[c].msg # NoMessage
  /\ wire' = Heard(ctl[c].msg)
  /\ ctl' = [ctl EXCEPT ![c].msg = NoMessage]
  /\ UNCHANGED <<active, timer, preroll, hand, closed, prompt>>

TimerSend(t) ==
  /\ hand[t] # NoMessage
  /\ wire' = Heard(hand[t])
  /\ hand' = [hand EXCEPT ![t] = NoMessage]
  /\ UNCHANGED <<active, timer, preroll, ctl, closed, prompt>>

Request(c) ==
  \/ \E ids \in SUBSET Ids : \E first \in ids, auto, scheduled \in BOOLEAN :
       InjectCue(c, ids, first, auto, scheduled)
  \/ \E i \in Ids : ReturnToProgram(c, i) \/ CancelEvent(c, i) \/ HoldBreak(c, i)
  \/ \E i \in Ids, left \in BOOLEAN : ExtendBreak(c, i, left)

Timer(t) == TimerFires(t) \/ TimerReturns(t) \/ TimerSend(t)

Next ==
  \/ \E c \in Controllers : Request(c) \/ Send(c) \/ Schedule(c)
  \/ \E t \in Timers : Timer(t)
  \/ \E p \in PreRolls : PreRollTick(p) \/ PreRollSend(p) \/ PreRollEnd(p)
  \/ Close

Spec == Init /\ [][Next]_vars

\* Timers fire, a fired one gets the lock in the end, and messages in hand are sent.
FairSpec ==
  /\ Spec
  /\ \A t \in Timers : SF_vars(Timer(t))
  /\ \A c \in Controllers : WF_vars(Send(c))
  /\ \A p \in PreRolls : WF_vars(PreRollSend(p))
-----------------------------------------------------------------------------
\* The breaks one message opened are open and end together (removeSiblingEventsLocked).
SiblingsTogether == \A i \in Tracked : \A j \in active[i].group : active[j].group = active[i].group

\* A timer that has not fired is the timer of a break that is open and not held: there
\* is none that no request could stop any more.
TimersOwned ==
  \A t \in Timers : timer[t].st = "pending" =>
    LET e == active[timer[t].id] IN e.timer = t /\ e.auto /\ ~ e.held

\* If messages are sent in the order of the lock (prompt): when every one is sent, exactly
\* the breaks that are open here are open for receivers, though repetitions may still come.
WireAgrees ==
  prompt /\ InHand /\ ~ closed => wire = Tracked

\* Auto-return never ends a break that is held.
HeldStays ==
  [][\A t \in Timers, i \in Ids :
       timer[t].st = "fired" /\ timer'[t].st = "none" /\ active[i].held => active'[i] = active[i]]_vars

\* A break with auto-return ends, unless it is held or its duration is set anew.
BreakEnds ==
  \A i \in Ids, t \in Timers \cup {NoTimer} :
    LET due == active[i].auto /\ ~ active[i].held /\ active[i].timer = t
    IN  due ~> (closed \/ ~ due)

\* No more breaks are open than the limit allows.
ActiveBounded == Cardinality(Tracked) <= MaxActive
=============================================================================
