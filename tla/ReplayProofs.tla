---------------------------- MODULE ReplayProofs ----------------------------
(***************************************************************************)
(* Proofs about instant replay: whatever requests run beside each other    *)
(* and whenever a clip ends, the manager remembers exactly the player that *)
(* plays.  OnePlayer is inductive once a player that a request has in hand *)
(* is known to be one (TypeOK): a request may only be handed a player whose*)
(* goroutine has not ended, or wait for one that has.  And between handlers*)
(* that do not disturb each other (prompt) the state, the source on the    *)
(* switcher and the player agree: StatusTrue, from the invariant SInv that *)
(* follows a handler from section to section.                              *)
(***************************************************************************)
EXTENDS Replay, TLAPS

Plays(p) == plr[p].st \in {"loading", "ready", "live", "running", "held", "ending"}

Inv == TypeOK /\ OnePlayer

\* The types of a goroutine and of a request, as in TypeOK.
Goroutines == [st : {"loading", "ready", "live", "running", "held", "ending", "ended", "done"},
               paused : BOOLEAN, shut : BOOLEAN, lost : BOOLEAN, cancelled : BOOLEAN]
Requests == [pc : {"idle", "pause", "paused", "resume", "resumed", "stop", "quick", "play"},
             player : Players \cup {NoPlayer}]
-----------------------------------------------------------------------------
LEMMA InitInv == Init => Inv
<1>. SUFFICES ASSUME Init PROVE Inv
  OBVIOUS
<1>1. NoRun \in Goroutines /\ NoRun.st = "done"
  <2>1. NewPlayer \in Goroutines
    BY DEF NewPlayer, Goroutines
  <2>. QED  BY <2>1 DEF NoRun, Goroutines
<1>2. TypeOK
  <2>1. plr \in [Players -> Goroutines]
    BY <1>1 DEF Init, Goroutines
  <2>2. ctl \in [Clients -> Requests] /\ \A c \in Clients : ctl[c].player = NoPlayer /\ ctl[c].pc = "idle"
    BY DEF Init, Idle, Requests
  <2>. QED  BY <2>1, <2>2 DEF Init, TypeOK, Goroutines, Requests
<1>3. OnePlayer
  BY <1>1, NoPlayerAssumption DEF Init, OnePlayer
<1>. QED  BY <1>2, <1>3 DEF Inv

\* A fresh player is started in the place of none.
LEMMA LaunchInv ==
  ASSUME Inv, NEW p \in Fresh, Launch(p)
  PROVE  /\ OnePlayer'
         /\ player' \in Players \cup {NoPlayer} /\ shown' = "loading"
         /\ plr' \in [Players -> Goroutines]
<1>1. p \in Players /\ plr[p].st = "done"
  BY DEF Fresh
<1>2. plr' \in [Players -> Goroutines]
  BY <1>1 DEF Launch, NewPlayer, Inv, TypeOK, Goroutines
<1>3. ASSUME NEW q \in Players PROVE Plays(q)' <=> player' = q
  <2>1. CASE q = p
    BY <1>1, <2>1 DEF Launch, NewPlayer, Plays, Inv, TypeOK
  <2>2. CASE q # p
    BY <1>1, <2>2, NoPlayerAssumption DEF Launch, Plays, Inv, TypeOK, OnePlayer
  <2>. QED  BY <2>1, <2>2
<1>. QED  BY <1>1, <1>2, <1>3 DEF Launch, OnePlayer, Plays

\* What a step does to one goroutine leaves it one.
LEMMA Goroutine ==
  ASSUME NEW r \in Goroutines
  PROVE  /\ [r EXCEPT !.cancelled = TRUE] \in Goroutines
         /\ [r EXCEPT !.cancelled = TRUE].st = r.st
         /\ [r EXCEPT !.st = "running", !.paused = FALSE] \in Goroutines
         /\ [r EXCEPT !.st = "running", !.paused = FALSE].st = "running"
BY DEF Goroutines

LEMMA FreshChosen ==
  ASSUME Fresh # {} PROVE (CHOOSE p \in Fresh : TRUE) \in Fresh
OBVIOUS

\* Requests: only Play starts a goroutine, and a cancelled one goes on until it ends.
LEMMA RequestInv ==
  ASSUME Inv, NEW c \in Clients, Request(c)
  PROVE  Inv'
<1>. USE NoPlayerAssumption DEF Inv, Goroutines, Requests
<1>1. CASE Play(c)
  BY <1>1, LaunchInv, FreshChosen DEF Play, TypeOK
<1>2. ASSUME NEW pc \in {"stop", "quick"}, player # NoPlayer, Cancel(c, pc)
      PROVE  /\ plr' \in [Players -> Goroutines]
             /\ ctl' \in [Clients -> Requests]
             /\ \A d \in Clients : ctl'[d].player = NoPlayer <=> ctl'[d].pc \in {"idle", "play"}
             /\ \A p \in Players : plr'[p].st = plr[p].st
  <2>0. plr \in [Players -> Goroutines] /\ player \in Players
    BY <1>2 DEF TypeOK
  <2>1. plr' \in [Players -> Goroutines] /\ \A p \in Players : plr'[p].st = plr[p].st
    <3>. HIDE DEF Inv, Goroutines, Requests
    <3>1. plr' = [plr EXCEPT ![player] = [plr[player] EXCEPT !.cancelled = TRUE]]
      BY <1>2 DEF Cancel
    <3>2. plr[player] \in Goroutines
      BY <2>0
    <3>. QED  BY <2>0, <3>1, <3>2, Goroutine
  <2>2. player \in Players /\ [pc |-> pc, player |-> player] \in Requests
    BY <1>2 DEF TypeOK
  <2>3. ctl' = [ctl EXCEPT ![c] = [pc |-> pc, player |-> player]]
    BY <1>2 DEF Cancel
  <2>4. ctl' \in [Clients -> Requests]
    BY <2>2, <2>3 DEF TypeOK
  <2>5. \A d \in Clients : ctl'[d].player = NoPlayer <=> ctl'[d].pc \in {"idle", "play"}
    BY <2>2, <2>3 DEF TypeOK
  <2>. QED  BY <2>1, <2>4, <2>5
<1>3. CASE Stop(c)
  BY <1>2, <1>3 DEF Stop, TypeOK, OnePlayer
<1>4. CASE Close(c)
  BY <1>2, <1>4 DEF Close, TypeOK, OnePlayer
<1>5. CASE QuickReplay(c)
  <2>1. CASE player # NoPlayer
    BY <1>2, <1>5, <2>1 DEF QuickReplay, TypeOK, OnePlayer
  <2>2. CASE player = NoPlayer
    BY <1>5, <2>2 DEF QuickReplay, TypeOK, OnePlayer, Begins
  <2>. QED  BY <2>1, <2>2
<1>6. CASE Pause(c) \/ Resume(c)
  BY <1>6 DEF Pause, Resume, Take, TypeOK, OnePlayer
<1>. QED  BY <1>1, <1>3, <1>4, <1>5, <1>6 DEF Request

\* What requests go on with: QuickPlay starts a player as Play does, and Resume lets one run
\* that was blocked.
LEMMA ContinueInv ==
  ASSUME Inv, NEW c \in Clients, Continue(c)
  PROVE  Inv'
<1>. USE NoPlayerAssumption DEF Inv, Goroutines, Requests
<1>1. CASE Stopped(c)
  BY <1>1 DEF Stopped, Idle, TypeOK, OnePlayer
<1>2. CASE QuickPlay(c)
  <2>1. /\ ctl' \in [Clients -> Requests]
        /\ \A d \in Clients : ctl'[d].player = NoPlayer <=> ctl'[d].pc \in {"idle", "play"}
    BY <1>2 DEF QuickPlay, Idle, TypeOK
  <2>2. CASE UNCHANGED <<player, shown, plr>>
    BY <1>2, <2>1, <2>2 DEF QuickPlay, TypeOK, OnePlayer
  <2>3. CASE Fresh # {} /\ Launch(CHOOSE p \in Fresh : TRUE)
    BY <1>2, <2>1, <2>3, LaunchInv, FreshChosen DEF QuickPlay, TypeOK
  <2>. QED  BY <1>2, <2>2, <2>3 DEF QuickPlay
<1>3. CASE PausePlayer(c)
  <2>1. ctl[c].player \in Players
    BY <1>3 DEF PausePlayer, TypeOK
  <2>. DEFINE q == ctl[c].player
             lost == plr[q].shut /\ plr[q].st = "held"
             new == [plr[q] EXCEPT !.paused = TRUE, !.shut = TRUE, !.lost = lost]
  <2>2. new \in Goroutines /\ new.st = plr[q].st
    <3>1. plr[q] \in Goroutines /\ lost \in BOOLEAN
      BY <2>1 DEF TypeOK
    <3>. HIDE DEF lost
    <3>. QED  BY <3>1
  <2>3. plr' = plr \/ plr' = [plr EXCEPT ![q] = new]
    BY <1>3, Zenon DEF PausePlayer
  <2>. HIDE DEF new
  <2>4. /\ plr' \in [Players -> Goroutines]
        /\ \A p \in Players : plr'[p].st = plr[p].st
    BY <2>1, <2>2, <2>3 DEF TypeOK
  <2>5. /\ ctl[c].pc = "pause" /\ ctl' = [ctl EXCEPT ![c].pc = "paused"]
        /\ UNCHANGED <<prompt, player, shown, onair, closed>>
    BY <1>3 DEF PausePlayer
  <2>6. TypeOK'
    BY <2>1, <2>4, <2>5 DEF TypeOK
  <2>7. OnePlayer'
    BY <2>4, <2>5 DEF OnePlayer
  <2>. QED  BY <2>6, <2>7
<1>4. CASE ResumePlayer(c)
  <2>1. ctl[c].player \in Players
    BY <1>4 DEF ResumePlayer, TypeOK
  <2>. DEFINE q == ctl[c].player
             st == IF plr[q].st = "held" /\ ~ plr[q].lost THEN "running" ELSE plr[q].st
             new == [plr[q] EXCEPT !.paused = FALSE, !.shut = FALSE, !.st = st]
  <2>2. plr' = plr \/ plr' = [plr EXCEPT ![q] = new]
    BY <1>4, Zenon DEF ResumePlayer
  <2>3. new \in Goroutines /\ (new.st = plr[q].st \/ (plr[q].st = "held" /\ new.st = "running"))
    <3>1. plr[q] \in Goroutines
      BY <2>1 DEF TypeOK
    <3>2. st = plr[q].st \/ (plr[q].st = "held" /\ st = "running")
      OBVIOUS
    <3>. HIDE DEF st
    <3>. QED  BY <3>1, <3>2
  <2>. HIDE DEF new
  <2>4. /\ plr' \in [Players -> Goroutines]
        /\ \A p \in Players : plr'[p].st = plr[p].st \/ (plr[p].st = "held" /\ plr'[p].st = "running")
    BY <2>1, <2>2, <2>3 DEF TypeOK
  <2>5. /\ ctl[c].pc = "resume" /\ ctl' = [ctl EXCEPT ![c].pc = "resumed"]
        /\ UNCHANGED <<prompt, player, shown, onair, closed>>
    BY <1>4 DEF ResumePlayer
  <2>6. TypeOK'
    BY <2>1, <2>4, <2>5 DEF TypeOK
  <2>7. OnePlayer'
    BY <2>4, <2>5 DEF OnePlayer
  <2>. QED  BY <2>6, <2>7
<1>5. CASE Tell(c)
  BY <1>5 DEF Tell, Idle, TypeOK, OnePlayer
<1>. QED  BY <1>1, <1>2, <1>3, <1>4, <1>5 DEF Continue

\* The goroutine of a player; it leaves the manager in OnDone and plays no more.
LEMMA RunInv ==
  ASSUME Inv, NEW p \in Players, Run(p) \/ End(p)
  PROVE  Inv'
<1>. USE NoPlayerAssumption DEF Inv, Goto
<1>1. CASE Ready(p) \/ DecodeFailed(p) \/ GoLive(p) \/ Hold(p) \/ End(p)
  <2>1. CASE Ready(p)         BY <2>1 DEF Ready, TypeOK, OnePlayer
  <2>2. CASE DecodeFailed(p)  BY <2>2 DEF DecodeFailed, TypeOK, OnePlayer
  <2>3. CASE GoLive(p)        BY <2>3 DEF GoLive, TypeOK, OnePlayer
  <2>4. CASE Hold(p)          BY <2>4 DEF Hold, TypeOK, OnePlayer
  <2>5. CASE End(p)           BY <2>5 DEF End, TypeOK, OnePlayer
  <2>. QED  BY <1>1, <2>1, <2>2, <2>3, <2>4, <2>5
<1>2. CASE Begin(p)
  <2>1. plr \in [Players -> Goroutines]
    BY DEF TypeOK, Goroutines
  <2>2. /\ plr' \in [Players -> Goroutines] /\ plr'[p].st = "running"
        /\ \A q \in Players : q # p => plr'[q] = plr[q]
    <3>. HIDE DEF Inv
    <3>1. plr' = [plr EXCEPT ![p] = [plr[p] EXCEPT !.st = "running", !.paused = FALSE]]
      BY <1>2, <2>1 DEF Begin
    <3>2. plr[p] \in Goroutines
      BY <2>1
    <3>. QED  BY <2>1, <3>1, <3>2, Goroutine
  <2>3. plr[p].st = "live" /\ UNCHANGED <<prompt, player, shown, onair, ctl, closed>>
    BY <1>2 DEF Begin
  <2>4. TypeOK'
    BY <2>2, <2>3 DEF TypeOK, Goroutines
  <2>5. OnePlayer'
    BY <2>2, <2>3 DEF OnePlayer
  <2>. QED  BY <2>4, <2>5
<1>3. CASE Done(p)
  BY <1>3 DEF Done, TypeOK, OnePlayer
<1>4. CASE GoOff(p)
  BY <1>4 DEF GoOff, NoRun, NewPlayer, TypeOK, OnePlayer
<1>. QED  BY <1>1, <1>2, <1>3, <1>4 DEF Run

LEMMA NextInv == Inv /\ [Next]_vars => Inv'
<1>. SUFFICES ASSUME Inv, [Next]_vars PROVE Inv'
  OBVIOUS
<1>1. CASE UNCHANGED vars
  BY <1>1 DEF vars, Inv, TypeOK, OnePlayer
<1>. QED  BY <1>1, RequestInv, ContinueInv, RunInv DEF Next

\* Every variable of the replay keeps its type; a request has a player in hand exactly while
\* it needs one.
THEOREM Typing == Spec => []TypeOK
<1>1. Inv => TypeOK
  BY DEF Inv
<1>. QED  BY <1>1, InitInv, NextInv, PTL DEF Spec

\* The manager's player is the one goroutine that plays, for any number of requests and
\* players, though Stop, OnDone and the next Play come in any order (manager.go).
THEOREM OnePlayerAlways == Spec => []OnePlayer
<1>1. Inv => OnePlayer
  BY DEF Inv
<1>. QED  BY <1>1, InitInv, NextInv, PTL DEF Spec
-----------------------------------------------------------------------------
(***************************************************************************)
(* Handlers that do not disturb each other: Status and the switcher agree  *)
(* with the player.  Inside a handler they may disagree, so the invariant  *)
(* says what the handler has done by each of the points it passes.         *)
(***************************************************************************)
Handles(c) == ctl[c].pc \in {"pause", "paused", "resume", "resumed"}
Turns(p) == plr[p].st \in {"ready", "live", "ended"}

OneAtATime ==
  /\ \A c, d \in Clients : Handles(c) /\ Handles(d) => c = d
  /\ \A p, q \in Players : Turns(p) /\ Turns(q) => p = q
  /\ \A c \in Clients, p \in Players : ~ (Handles(c) /\ Turns(p))

\* A request that pauses or resumes has the manager's player in hand.
HandlerAt(c) ==
  /\ ctl[c].player = player /\ player # NoPlayer
  /\ shown \in {"playing", "paused"}
  /\ plr[player].st # "loading"
  /\ ctl[c].pc = "pause" => shown = "playing"
  /\ ctl[c].pc = "resume" => shown = "paused"
  /\ ctl[c].pc = "paused" => plr[player].shut
  /\ ctl[c].pc = "resumed" => ~ plr[player].shut

Held == \A c \in Clients : Handles(c) => HandlerAt(c)

\* No request has still to write what it did to the player.
Told == \A c \in Clients : ctl[c].pc \notin {"paused", "resumed"}

Channel ==
  player # NoPlayer =>
    /\ plr[player].paused <=> plr[player].shut
    /\ ~ plr[player].lost
    /\ plr[player].st = "loading" => shown = "loading"
    /\ plr[player].st \in {"loading", "ready", "live"} => ~ plr[player].shut
    /\ Told => (plr[player].shut <=> shown = "paused")

OnAir ==
  /\ shown = "idle" <=> player = NoPlayer
  /\ (\A p \in Players : ~ Turns(p)) => (onair <=> shown \in {"playing", "paused"})
  /\ \A p \in Players : plr[p].st \in {"ready", "live"} => shown = "playing"
  /\ \A p \in Players : plr[p].st = "live" => onair
  /\ \A p \in Players : plr[p].st = "ended" => player = NoPlayer

Prompt == OneAtATime /\ Held /\ Channel /\ OnAir

SInv == Inv /\ (prompt => Prompt)
-----------------------------------------------------------------------------
LEMMA InitPrompt == Init => Prompt
<1>1. NoRun.st = "done" /\ Idle.pc = "idle"
  BY DEF NoRun, NewPlayer, Idle
<1>. QED
  BY <1>1, NoPlayerAssumption
  DEF Init, Prompt, OneAtATime, Held, Channel, OnAir, Handles, Turns

\* When a handler may begin, no other is under way.
LEMMA Quiet ==
  ASSUME prompt, MayBegin
  PROVE  /\ \A c \in Clients : ~ Handles(c)
         /\ \A p \in Players : ~ Turns(p)
BY DEF MayBegin, Busy, Handles, Turns

\* While no handler is under way, what is shown is so.
LEMMA QuietShown ==
  ASSUME SInv, prompt, MayBegin
  PROVE  /\ shown = "idle" <=> player = NoPlayer
         /\ onair <=> shown \in {"playing", "paused"}
         /\ player # NoPlayer => (plr[player].shut <=> shown = "paused")
<1>1. Told
  BY Quiet DEF Told, Handles
<1>. QED  BY <1>1, Quiet DEF SInv, Prompt, OnAir, Channel

\* A fresh player takes the place of none: it is not on air, nor paused.
LEMMA LaunchPrompt ==
  ASSUME SInv, prompt, MayBegin, NEW p \in Fresh, Launch(p),
         onair' = onair, \A c \in Clients : ~ Handles(c)'
  PROVE  Prompt'
<1>1. p \in Players /\ p # NoPlayer
  BY NoPlayerAssumption DEF Fresh
<1>2. plr'[p] = NewPlayer /\ \A q \in Players : q # p => plr'[q] = plr[q]
  BY <1>1 DEF Launch, SInv, Inv, TypeOK
<1>3. player = NoPlayer /\ player' = p /\ shown' = "loading"
  BY DEF Launch
<1>4. /\ plr'[p].st = "loading" /\ ~ plr'[p].paused /\ ~ plr'[p].shut /\ ~ plr'[p].lost
  BY <1>2 DEF NewPlayer
<1>5. \A q \in Players : ~ Turns(q)'
  BY <1>2, <1>4, Quiet DEF Turns
<1>6. ~ onair
  BY <1>3, QuietShown
<1>7. OneAtATime' /\ Held'
  BY <1>5 DEF OneAtATime, Held
<1>8. Channel'
  BY <1>3, <1>4 DEF Channel
<1>9. OnAir'
  BY <1>1, <1>3, <1>5, <1>6 DEF OnAir, Turns
<1>. QED  BY <1>7, <1>8, <1>9 DEF Prompt

\* A step that leaves the state, the source and what Prompt says of the goroutines as they
\* are, and neither begins nor continues a handler.
LEMMA SamePrompt ==
  ASSUME SInv, prompt, UNCHANGED <<player, shown, onair>>,
         \A p \in Players : /\ plr'[p].st = plr[p].st /\ plr'[p].paused = plr[p].paused
                            /\ plr'[p].shut = plr[p].shut /\ plr'[p].lost = plr[p].lost,
         \A c \in Clients : ctl'[c] = ctl[c] \/ (~ Handles(c) /\ ~ Handles(c)')
  PROVE  Prompt'
<1>0. Prompt /\ player \in Players \cup {NoPlayer}
  BY DEF SInv, Inv, TypeOK
<1>1. \A p \in Players : Turns(p)' <=> Turns(p)
  BY DEF Turns
<1>2. \A c \in Clients : Handles(c)' => Handles(c) /\ ctl'[c] = ctl[c]
  BY DEF Handles
<1>3. OneAtATime'
  BY <1>0, <1>1, <1>2 DEF Prompt, OneAtATime
<1>4. ASSUME NEW c \in Clients, Handles(c)' PROVE HandlerAt(c)'
  <2>1. ctl'[c] = ctl[c] /\ HandlerAt(c)
    BY <1>0, <1>2, <1>4 DEF Prompt, Held
  <2>2. player \in Players
    BY <1>0, <2>1 DEF HandlerAt
  <2>. QED  BY <2>1, <2>2 DEF HandlerAt
<1>5. Told' => Told
  BY DEF Told, Handles
<1>6. Channel'
  BY <1>0, <1>5 DEF Prompt, Channel
<1>7. OnAir'
  BY <1>0, <1>1 DEF Prompt, OnAir
<1>. QED  BY <1>3, <1>4, <1>6, <1>7 DEF Prompt, Held

\* Requests: those that wait for a goroutine leave everything else alone, and Pause and
\* Resume take the player in hand when its state allows it.
LEMMA RequestPrompt ==
  ASSUME SInv, prompt, NEW c \in Clients, Request(c)
  PROVE  Prompt'
<1>0. Prompt /\ TypeOK
  BY DEF SInv, Inv
<1>1. CASE Play(c)
  BY <1>1, LaunchPrompt, FreshChosen, Quiet DEF Play, Begins, Handles
<1>2. ASSUME NEW pc \in {"stop", "quick"}, player # NoPlayer, Cancel(c, pc), Begins(c),
             UNCHANGED <<player, shown, onair>>
      PROVE  Prompt'
  <2>1. player \in Players
    BY <1>0, <1>2 DEF TypeOK
  <2>2. plr' = [plr EXCEPT ![player] = [plr[player] EXCEPT !.cancelled = TRUE]]
    BY <1>2 DEF Cancel
  <2>3. \A p \in Players : /\ plr'[p].st = plr[p].st /\ plr'[p].paused = plr[p].paused
                           /\ plr'[p].shut = plr[p].shut /\ plr'[p].lost = plr[p].lost
    BY <1>0, <2>1, <2>2 DEF TypeOK
  <2>4. \A d \in Clients : ctl'[d] = ctl[d] \/ (~ Handles(d) /\ ~ Handles(d)')
    BY <1>0, <1>2 DEF Cancel, TypeOK, Begins, Handles
  <2>. QED  BY <1>2, <2>3, <2>4, SamePrompt
<1>3. CASE Stop(c)
  BY <1>2, <1>3 DEF Stop
<1>4. CASE Close(c)
  <2>1. CASE player # NoPlayer
    BY <1>2, <1>4, <2>1 DEF Close
  <2>2. CASE player = NoPlayer
    BY <1>4, <2>2, SamePrompt DEF Close
  <2>. QED  BY <2>1, <2>2
<1>5. CASE QuickReplay(c)
  <2>1. CASE player # NoPlayer
    BY <1>2, <1>5, <2>1 DEF QuickReplay
  <2>2. CASE player = NoPlayer
    <3>1. /\ ctl' = [ctl EXCEPT ![c].pc = "play"] /\ ctl[c].pc = "idle"
          /\ UNCHANGED <<player, shown, onair, plr>>
      BY <1>5, <2>2 DEF QuickReplay, Begins
    <3>2. \A d \in Clients : ctl'[d] = ctl[d] \/ (~ Handles(d) /\ ~ Handles(d)')
      BY <1>0, <3>1 DEF TypeOK, Handles
    <3>. QED  BY <3>1, <3>2, SamePrompt
  <2>. QED  BY <2>1, <2>2
<1>6. ASSUME NEW state \in {"playing", "paused"}, NEW pc \in {"pause", "resume"}, Take(c, state, pc),
             pc = "pause" <=> state = "playing"
      PROVE  Prompt'
  <2>1. /\ player # NoPlayer /\ shown = state /\ MayBegin
        /\ ctl' = [ctl EXCEPT ![c] = [pc |-> pc, player |-> player]]
        /\ UNCHANGED <<player, shown, onair, plr>>
    BY <1>6 DEF Take, Begins
  <2>2. /\ ctl'[c].pc = pc /\ ctl'[c].player = player
        /\ \A d \in Clients : d # c => ctl'[d] = ctl[d]
    BY <1>0, <2>1 DEF TypeOK
  <2>3. \A d \in Clients : ~ Handles(d)
    BY <2>1, Quiet
  <2>4. \A p \in Players : ~ Turns(p) /\ ~ Turns(p)'
    BY <2>1, Quiet DEF Turns
  <2>5. OneAtATime'
    BY <2>2, <2>3, <2>4 DEF OneAtATime, Handles
  <2>6. plr[player].st # "loading"
    BY <1>0, <2>1 DEF Prompt, Channel
  <2>7. Held'
    BY <1>6, <2>1, <2>2, <2>3, <2>6 DEF Held, HandlerAt, Handles
  <2>8. Channel'
    <3>1. Told
      BY <2>3 DEF Told, Handles
    <3>. QED  BY <1>0, <2>1, <3>1 DEF Prompt, Channel
  <2>9. OnAir'
    BY <1>0, <2>1, <2>4 DEF Prompt, OnAir, Turns
  <2>. QED  BY <2>5, <2>7, <2>8, <2>9 DEF Prompt
<1>7. CASE Pause(c)
  BY <1>6, <1>7 DEF Pause
<1>8. CASE Resume(c)
  BY <1>6, <1>8 DEF Resume
<1>. QED  BY <1>1, <1>3, <1>4, <1>5, <1>7, <1>8 DEF Request

\* A request in hand of the player does what it does to it alone.
LEMMA InHand ==
  ASSUME SInv, prompt, NEW c \in Clients, Handles(c)
  PROVE  /\ HandlerAt(c) /\ player \in Players
         /\ \A d \in Clients : d # c => ~ Handles(d)
         /\ \A p \in Players : ~ Turns(p)
         /\ plr[player].st \in {"running", "held", "ending"}
         /\ plr[player].paused <=> plr[player].shut
         /\ ~ plr[player].lost
<1>1. HandlerAt(c) /\ player \in Players
  BY DEF SInv, Inv, TypeOK, Prompt, Held, HandlerAt
<1>2. \A d \in Clients : d # c => ~ Handles(d)
  BY DEF SInv, Prompt, OneAtATime
<1>3. \A p \in Players : ~ Turns(p)
  BY DEF SInv, Prompt, OneAtATime
<1>4. plr[player].st \in {"loading", "ready", "live", "running", "held", "ending"}
  BY <1>1 DEF SInv, Inv, OnePlayer
<1>5. plr[player].st \in {"running", "held", "ending"}
  BY <1>1, <1>3, <1>4 DEF HandlerAt, Turns
<1>6. (plr[player].paused <=> plr[player].shut) /\ ~ plr[player].lost
  BY <1>1 DEF SInv, Prompt, Channel, HandlerAt
<1>. QED  BY <1>1, <1>2, <1>3, <1>5, <1>6

\* The second section of Pause and Resume: the player's channel is shut, or opened, as the
\* third will say.
LEMMA PlayerPrompt ==
  ASSUME SInv, prompt, NEW c \in Clients, Handles(c), NEW pc \in {"paused", "resumed"},
         ctl' = [ctl EXCEPT ![c].pc = pc], UNCHANGED <<player, shown, onair>>,
         \A p \in Players : p # player => plr'[p] = plr[p],
         plr'[player].st \in {"running", "held", "ending"},
         plr'[player].paused <=> plr'[player].shut,
         ~ plr'[player].lost,
         plr'[player].shut <=> pc = "paused"
  PROVE  Prompt'
<1>0. Prompt /\ TypeOK
  BY DEF SInv, Inv
<1>1. /\ ctl'[c].pc = pc /\ ctl'[c].player = ctl[c].player
      /\ \A d \in Clients : d # c => ctl'[d] = ctl[d]
  BY <1>0 DEF TypeOK
<1>2. \A p \in Players : ~ Turns(p)'
  BY InHand DEF Turns
<1>3. \A d \in Clients : d # c => ~ Handles(d)'
  BY <1>1, InHand DEF Handles
<1>4. OneAtATime'
  BY <1>2, <1>3 DEF OneAtATime
<1>5. HandlerAt(c) /\ player # NoPlayer
  BY InHand DEF HandlerAt
<1>6. HandlerAt(c)'
  BY <1>1, <1>5 DEF HandlerAt
<1>7. Held'
  BY <1>3, <1>6 DEF Held
<1>8. Channel'
  BY <1>1 DEF Channel, Told
<1>9. OnAir'
  BY <1>0, <1>2, InHand DEF Prompt, OnAir, Turns
<1>. QED  BY <1>4, <1>7, <1>8, <1>9 DEF Prompt

\* What requests go on with.
LEMMA ContinuePrompt ==
  ASSUME SInv, prompt, NEW c \in Clients, Continue(c)
  PROVE  Prompt'
<1>0. Prompt /\ TypeOK
  BY DEF SInv, Inv
<1>1. CASE Stopped(c)
  <2>1. \A d \in Clients : ctl'[d] = ctl[d] \/ (~ Handles(d) /\ ~ Handles(d)')
    BY <1>0, <1>1 DEF Stopped, Idle, TypeOK, Handles
  <2>. QED  BY <1>1, <2>1, SamePrompt DEF Stopped
<1>2. CASE QuickPlay(c)
  <2>1. \A d \in Clients : ctl'[d] = ctl[d] \/ (~ Handles(d) /\ ~ Handles(d)')
    BY <1>0, <1>2 DEF QuickPlay, Idle, TypeOK, Handles
  <2>2. MayBegin /\ onair' = onair
    BY <1>2 DEF QuickPlay
  <2>3. CASE UNCHANGED <<player, shown, plr>>
    BY <2>1, <2>2, <2>3, SamePrompt
  <2>4. CASE Fresh # {} /\ Launch(CHOOSE p \in Fresh : TRUE)
    <3>1. \A d \in Clients : ~ Handles(d)'
      BY <2>1, <2>2, Quiet DEF Handles
    <3>. QED  BY <2>2, <2>4, <3>1, LaunchPrompt, FreshChosen
  <2>. QED  BY <1>2, <2>3, <2>4 DEF QuickPlay
<1>3. CASE PausePlayer(c)
  <2>1. ctl[c].pc = "pause" /\ Handles(c) /\ ctl' = [ctl EXCEPT ![c].pc = "paused"]
    BY <1>3 DEF PausePlayer, Handles
  <2>2. /\ ctl[c].player = player /\ player \in Players
        /\ plr[player].st \in {"running", "held", "ending"}
    BY <2>1, InHand DEF HandlerAt
  <2>3. ~ plr[player].paused /\ ~ plr[player].shut
    <3>1. Told
      BY <2>1, InHand DEF Told, Handles
    <3>2. shown = "playing"
      BY <2>1, InHand DEF HandlerAt
    <3>. QED  BY <1>0, <2>1, <2>2, <3>1, <3>2, InHand, NoPlayerAssumption DEF Prompt, Channel
  <2>. DEFINE lost == plr[player].shut /\ plr[player].st = "held"
              new == [plr[player] EXCEPT !.paused = TRUE, !.shut = TRUE, !.lost = lost]
  <2>4. plr' = [plr EXCEPT ![player] = new]
    <3>1. ~ (plr[ctl[c].player].paused \/ plr[ctl[c].player].st = "done")
      BY <2>2, <2>3
    <3>2. plr' = [plr EXCEPT ![ctl[c].player] = [plr[ctl[c].player] EXCEPT !.paused = TRUE, !.shut = TRUE,
                   !.lost = plr[ctl[c].player].shut /\ plr[ctl[c].player].st = "held"]]
      BY <1>3, <3>1, Zenon DEF PausePlayer
    <3>. QED  BY <2>2, <3>2
  <2>5. plr \in [Players -> Goroutines]
    BY <1>0 DEF TypeOK, Goroutines
  <2>6. /\ new.st = plr[player].st /\ new.paused = TRUE /\ new.shut = TRUE /\ new.lost = lost
    <3>1. plr[player] \in Goroutines
      BY <2>2, <2>5
    <3>. HIDE DEF lost
    <3>. QED  BY <3>1 DEF Goroutines
  <2>7. lost = FALSE
    BY <2>3
  <2>. HIDE DEF new, lost
  <2>8. plr'[player] = new /\ \A p \in Players : p # player => plr'[p] = plr[p]
    BY <2>2, <2>4, <2>5
  <2>9. UNCHANGED <<player, shown, onair>>
    BY <1>3 DEF PausePlayer
  <2>. QED  BY <2>1, <2>2, <2>6, <2>7, <2>8, <2>9, PlayerPrompt
<1>4. CASE ResumePlayer(c)
  <2>1. ctl[c].pc = "resume" /\ Handles(c) /\ ctl' = [ctl EXCEPT ![c].pc = "resumed"]
    BY <1>4 DEF ResumePlayer, Handles
  <2>2. /\ ctl[c].player = player /\ player \in Players
        /\ plr[player].st \in {"running", "held", "ending"}
        /\ ~ plr[player].lost
    BY <2>1, InHand DEF HandlerAt
  <2>3. plr[player].paused
    <3>1. Told
      BY <2>1, InHand DEF Told, Handles
    <3>2. shown = "paused"
      BY <2>1, InHand DEF HandlerAt
    <3>. QED  BY <1>0, <2>1, <2>2, <3>1, <3>2, InHand, NoPlayerAssumption DEF Prompt, Channel
  <2>. DEFINE st == IF plr[player].st = "held" /\ ~ plr[player].lost THEN "running" ELSE plr[player].st
              new == [plr[player] EXCEPT !.paused = FALSE, !.shut = FALSE, !.st = st]
  <2>4. plr' = [plr EXCEPT ![player] = new]
    <3>1. plr' = IF ~ plr[ctl[c].player].paused THEN plr
                 ELSE [plr EXCEPT ![ctl[c].player] = [plr[ctl[c].player] EXCEPT !.paused = FALSE, !.shut = FALSE,
                        !.st = IF plr[ctl[c].player].st = "held" /\ ~ plr[ctl[c].player].lost
                                 THEN "running" ELSE plr[ctl[c].player].st]]
      BY <1>4, Zenon DEF ResumePlayer
    <3>. QED  BY <2>2, <2>3, <3>1
  <2>5. plr \in [Players -> Goroutines]
    BY <1>0 DEF TypeOK, Goroutines
  <2>6. st \in {"running", "ending"}
    BY <2>2
  <2>7. /\ new.st = st /\ new.paused = FALSE /\ new.shut = FALSE /\ new.lost = plr[player].lost
    <3>1. plr[player] \in Goroutines
      BY <2>2, <2>5
    <3>. HIDE DEF st
    <3>. QED  BY <3>1 DEF Goroutines
  <2>. HIDE DEF new, st
  <2>8. plr'[player] = new /\ \A p \in Players : p # player => plr'[p] = plr[p]
    BY <2>2, <2>4, <2>5
  <2>9. UNCHANGED <<player, shown, onair>>
    BY <1>4 DEF ResumePlayer
  <2>. QED  BY <2>1, <2>2, <2>6, <2>7, <2>8, <2>9, PlayerPrompt
<1>5. CASE Tell(c)
  <2>1. /\ ctl[c].pc \in {"paused", "resumed"} /\ Handles(c)
        /\ ctl' = [ctl EXCEPT ![c] = Idle]
        /\ shown' = IF ctl[c].pc = "paused" THEN "paused" ELSE "playing"
        /\ UNCHANGED <<player, onair, plr>>
    BY <1>5 DEF Tell, Handles
  <2>2. \A d \in Clients : ~ Handles(d)'
    BY <1>0, <2>1, InHand DEF Handles, Idle, TypeOK
  <2>3. \A p \in Players : ~ Turns(p) /\ ~ Turns(p)'
    BY <2>1, InHand DEF Turns
  <2>4. OneAtATime' /\ Held'
    BY <2>2, <2>3 DEF OneAtATime, Held
  <2>5. HandlerAt(c) /\ plr[player].st \in {"running", "held", "ending"} /\ player # NoPlayer
    BY <2>1, InHand DEF HandlerAt
  <2>6. plr[player].shut <=> shown' = "paused"
    BY <2>1, <2>5 DEF HandlerAt
  <2>7. Channel'
    BY <2>1, <2>5, <2>6, InHand DEF Channel
  <2>8. OnAir'
    BY <1>0, <2>1, <2>3, <2>5 DEF Prompt, OnAir, Turns, HandlerAt
  <2>. QED  BY <2>4, <2>7, <2>8 DEF Prompt
<1>. QED  BY <1>1, <1>2, <1>3, <1>4, <1>5 DEF Continue

\* A goroutine that moves from one point to another, doing nothing to its channel.
LEMMA MovePrompt ==
  ASSUME SInv, prompt, NEW p \in Players, UNCHANGED <<player, shown, ctl>>,
         NEW st \in {"running", "held", "ending"}, plr[p].st \in {"loading", "running", "held"},
         Goto(p, st), onair' = onair
  PROVE  Prompt'
<1>0. Prompt /\ TypeOK
  BY DEF SInv, Inv
<1>1. /\ plr'[p].st = st
      /\ \A q \in Players : /\ plr'[q].paused = plr[q].paused
                            /\ plr'[q].shut = plr[q].shut /\ plr'[q].lost = plr[q].lost
      /\ \A q \in Players : q # p => plr'[q].st = plr[q].st
  BY <1>0 DEF Goto, TypeOK
<1>2. \A q \in Players : Turns(q)' <=> Turns(q)
  BY <1>1 DEF Turns
<1>3. \A c \in Clients : Handles(c)' <=> Handles(c)
  BY DEF Handles
<1>4. OneAtATime'
  BY <1>0, <1>2, <1>3 DEF Prompt, OneAtATime
<1>5. ASSUME NEW c \in Clients, Handles(c)' PROVE HandlerAt(c)'
  <2>1. HandlerAt(c) /\ player \in Players
    BY <1>3, <1>5, InHand
  <2>. QED  BY <1>1, <2>1 DEF HandlerAt
<1>6. Channel'
  BY <1>0, <1>1 DEF Prompt, Channel, Told, TypeOK
<1>7. OnAir'
  BY <1>0, <1>1, <1>2 DEF Prompt, OnAir
<1>. QED  BY <1>4, <1>5, <1>6, <1>7 DEF Prompt, Held

\* A goroutine in OnReady or OnDone: no request has it in hand.
LEMMA TurnPrompt ==
  ASSUME SInv, prompt, NEW p \in Players, \A c \in Clients : ~ Handles(c),
         \A q \in Players : q # p => ~ Turns(q),
         ctl' = ctl, \A q \in Players : q # p => plr'[q] = plr[q]
  PROVE  /\ OneAtATime' /\ Held'
         /\ \A q \in Players : q # p => ~ Turns(q)'
         /\ Told /\ Told'
<1>1. \A c \in Clients : ~ Handles(c)'
  BY DEF Handles
<1>2. \A q \in Players : q # p => ~ Turns(q)'
  BY DEF Turns
<1>3. Told /\ Told'
  BY DEF Told, Handles
<1>. QED  BY <1>1, <1>2, <1>3 DEF OneAtATime, Held

\* The goroutine of a player.
LEMMA RunPrompt ==
  ASSUME SInv, prompt, NEW p \in Players, Run(p) \/ End(p)
  PROVE  Prompt'
<1>0. Prompt /\ TypeOK /\ OnePlayer /\ p # NoPlayer
  BY NoPlayerAssumption DEF SInv, Inv
<1>1. CASE DecodeFailed(p)
  BY <1>1, MovePrompt DEF DecodeFailed
<1>2. CASE Hold(p)
  BY <1>2, MovePrompt DEF Hold
<1>3. CASE End(p)
  BY <1>3, MovePrompt DEF End
<1>4. ASSUME Turns(p)
      PROVE  (\A c \in Clients : ~ Handles(c)) /\ (\A q \in Players : q # p => ~ Turns(q))
  BY <1>0, <1>4 DEF Prompt, OneAtATime
<1>5. CASE Ready(p)
  <2>1. /\ plr[p].st = "loading" /\ MayBegin /\ shown' = "playing"
        /\ plr' = [plr EXCEPT ![p].st = "ready"] /\ UNCHANGED <<player, onair, ctl>>
    BY <1>5 DEF Ready, Goto
  <2>2. /\ plr'[p].st = "ready" /\ plr'[p].paused = plr[p].paused
        /\ plr'[p].shut = plr[p].shut /\ plr'[p].lost = plr[p].lost
        /\ \A q \in Players : q # p => plr'[q] = plr[q]
    BY <1>0, <2>1 DEF TypeOK
  <2>3. player = p
    BY <1>0, <2>1 DEF OnePlayer
  <2>4. ~ plr[p].shut /\ ~ plr[p].paused /\ ~ plr[p].lost
    BY <1>0, <2>1, <2>3 DEF Prompt, Channel
  <2>5. /\ OneAtATime' /\ Held' /\ \A q \in Players : q # p => ~ Turns(q)'
    BY <2>1, <2>2, Quiet, TurnPrompt
  <2>6. Channel'
    BY <2>1, <2>2, <2>3, <2>4 DEF Channel
  <2>7. OnAir'
    BY <1>0, <2>1, <2>2, <2>3, <2>5 DEF OnAir, Turns
  <2>. QED  BY <2>5, <2>6, <2>7 DEF Prompt
<1>6. CASE GoLive(p)
  <2>1. /\ plr[p].st = "ready" /\ Turns(p) /\ onair' = TRUE
        /\ plr' = [plr EXCEPT ![p].st = "live"] /\ UNCHANGED <<player, shown, ctl>>
    BY <1>6 DEF GoLive, Goto, Turns
  <2>2. /\ plr'[p].st = "live" /\ plr'[p].paused = plr[p].paused
        /\ plr'[p].shut = plr[p].shut /\ plr'[p].lost = plr[p].lost
        /\ \A q \in Players : q # p => plr'[q] = plr[q]
    BY <1>0, <2>1 DEF TypeOK
  <2>3. player = p /\ shown = "playing"
    BY <1>0, <2>1 DEF OnePlayer, Prompt, OnAir
  <2>5. /\ OneAtATime' /\ Held' /\ \A q \in Players : q # p => ~ Turns(q)'
    BY <1>4, <2>1, <2>2, TurnPrompt
  <2>6. Channel'
    BY <1>0, <2>1, <2>2, <2>3 DEF Prompt, Channel, Told
  <2>7. OnAir'
    BY <1>0, <2>1, <2>2, <2>3, <2>5 DEF OnAir, Turns
  <2>. QED  BY <2>5, <2>6, <2>7 DEF Prompt
<1>7. CASE Begin(p)
  <2>1. /\ plr[p].st = "live" /\ Turns(p)
        /\ plr' = [plr EXCEPT ![p] = [plr[p] EXCEPT !.st = "running", !.paused = FALSE]]
        /\ UNCHANGED <<player, shown, onair, ctl>>
    BY <1>0, <1>7 DEF Begin, Turns, TypeOK
  <2>2. /\ plr'[p].st = "running" /\ plr'[p].paused = FALSE
        /\ plr'[p].shut = plr[p].shut /\ plr'[p].lost = plr[p].lost
        /\ \A q \in Players : q # p => plr'[q] = plr[q]
    BY <1>0, <2>1 DEF TypeOK
  <2>3. player = p /\ shown = "playing" /\ onair
    BY <1>0, <2>1 DEF OnePlayer, Prompt, OnAir
  <2>4. ~ plr[p].shut /\ ~ plr[p].lost
    BY <1>0, <2>1, <2>3 DEF Prompt, Channel
  <2>5. /\ OneAtATime' /\ Held' /\ \A q \in Players : q # p => ~ Turns(q)'
    BY <1>4, <2>1, <2>2, TurnPrompt
  <2>6. Channel'
    BY <2>1, <2>2, <2>3, <2>4 DEF Channel
  <2>7. OnAir'
    BY <1>0, <2>1, <2>2, <2>3, <2>5 DEF OnAir, Turns
  <2>. QED  BY <2>5, <2>6, <2>7 DEF Prompt
<1>8. CASE Done(p)
  <2>1. /\ plr[p].st = "ending" /\ MayBegin /\ player' = NoPlayer /\ shown' = "idle"
        /\ plr' = [plr EXCEPT ![p].st = "ended"] /\ UNCHANGED <<onair, ctl>>
    BY <1>8 DEF Done, Goto
  <2>2. plr'[p].st = "ended" /\ \A q \in Players : q # p => plr'[q] = plr[q]
    BY <1>0, <2>1 DEF TypeOK
  <2>3. /\ OneAtATime' /\ Held' /\ \A q \in Players : q # p => ~ Turns(q)'
    BY <2>1, <2>2, Quiet, TurnPrompt
  <2>4. Channel'
    BY <2>1 DEF Channel
  <2>5. OnAir'
    BY <2>1, <2>2, <2>3 DEF OnAir, Turns
  <2>. QED  BY <2>3, <2>4, <2>5 DEF Prompt
<1>9. CASE GoOff(p)
  <2>1. /\ plr[p].st = "ended" /\ Turns(p) /\ onair' = FALSE
        /\ plr' = [plr EXCEPT ![p] = NoRun] /\ UNCHANGED <<player, shown, ctl>>
    BY <1>9 DEF GoOff, Turns
  <2>2. plr'[p].st = "done" /\ \A q \in Players : q # p => plr'[q] = plr[q]
    BY <1>0, <2>1 DEF TypeOK, NoRun, NewPlayer
  <2>3. player = NoPlayer /\ shown = "idle"
    BY <1>0, <2>1 DEF Prompt, OnAir
  <2>4. /\ OneAtATime' /\ Held' /\ \A q \in Players : q # p => ~ Turns(q)'
    BY <1>4, <2>1, <2>2, TurnPrompt
  <2>5. Channel'
    BY <2>1, <2>3 DEF Channel
  <2>6. OnAir'
    BY <2>1, <2>2, <2>3, <2>4 DEF OnAir, Turns
  <2>. QED  BY <2>4, <2>5, <2>6 DEF Prompt
<1>. QED  BY <1>1, <1>2, <1>3, <1>5, <1>6, <1>7, <1>8, <1>9 DEF Run

LEMMA NextPrompt == SInv /\ [Next]_vars => SInv'
<1>. SUFFICES ASSUME SInv, [Next]_vars PROVE SInv'
  OBVIOUS
<1>1. Inv'
  BY NextInv DEF SInv
<1>2. prompt' = prompt
  BY DEF Next, vars, Request, Continue, Run, Play, Stop, Close, QuickReplay, Pause, Resume, Take,
         Stopped, QuickPlay, PausePlayer, ResumePlayer, Tell, Ready, DecodeFailed, GoLive, Begin,
         Hold, End, Done, GoOff
<1>3. ASSUME prompt PROVE Prompt'
  <2>1. CASE UNCHANGED vars
    BY <1>3, <2>1, SamePrompt DEF vars
  <2>. QED  BY <1>3, <2>1, RequestPrompt, ContinuePrompt, RunPrompt DEF Next
<1>. QED  BY <1>1, <1>2, <1>3 DEF SInv

\* Between handlers that do not disturb each other Status and the switcher agree with the
\* player, for any number of requests and players: the replay source is registered while the
\* state says playing or paused, and a player is blocked exactly while it says paused
\* (manager.go, player.go, app.go).
THEOREM StatusAlwaysTrue == Spec => []StatusTrue
<1>1. Init => SInv
  BY InitInv, InitPrompt DEF SInv
<1>2. SInv => StatusTrue
  <2>1. prompt /\ ~ Busy => MayBegin
    BY DEF MayBegin
  <2>. QED  BY <2>1, QuietShown DEF StatusTrue, SInv, Prompt, Channel
<1>. QED  BY <1>1, <1>2, NextPrompt, PTL DEF Spec
=============================================================================
