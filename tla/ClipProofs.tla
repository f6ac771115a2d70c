----------------------------- MODULE ClipProofs -----------------------------
(***************************************************************************)
(* Proofs about a clip slot: a decoder is closed once and never under its  *)
(* player (DecoderSafe), and a player outputs to a registered source       *)
(* (SourceFollows).                                                        *)
(*                                                                         *)
(* The right to close a decoder is a token: the slot has it, or one        *)
(* request that waits (Closers).  That holds whatever runs beside each     *)
(* other.  The rest is about requests one at a time (Orderly): a request   *)
(* between its sections is the only one, so it finds the slot as it left   *)
(* it, and who decodes still has its token (DecoderOpen), which no one     *)
(* lets fall (CloserKept).                                                 *)
(***************************************************************************)
EXTENDS ClipPlayers, TLAPS

\* The types of a player's goroutine and of a request, as in TypeOK.
Goroutines == [st : {"new", "running", "held", "over", "holding", "done"}, paused : BOOLEAN, cancelled : BOOLEAN]
Requests == [pc : {"idle", "start", "launch", "wait", "off", "put"},
             player : Optional, closer : Optional, then : {"idle", "off", "put"}]

HasPlayer == \A c \in Clients : ctl[c].pc \in {"start", "launch", "wait"} => ctl[c].player \in Players

Closers ==
  /\ \A p \in Players : decoder[p] # "broken"
  /\ slot.closer # NoPlayer => decoder[slot.closer] = "open"
  /\ \A c \in Clients : ctl[c].closer # NoPlayer =>
       /\ ctl[c].pc = "wait" /\ decoder[ctl[c].closer] = "open"
       /\ ctl[c].closer # slot.closer
       /\ \A d \in Clients \ {c} : ctl[d].closer # ctl[c].closer

Decodes(p) == plr[p].st \in {"new", "running", "held", "over"}

OneRequest == \A c, d \in Clients : ctl[c].pc # "idle" /\ ctl[d].pc # "idle" => c = d

OutOfSlot == \A c \in Clients : ctl[c].pc \in {"wait", "off", "put"} => slot.player = NoPlayer

Starting ==
  \A c \in Clients : ctl[c].pc \in {"start", "launch"} =>
    /\ slot.player = ctl[c].player /\ slot.closer = ctl[c].player /\ plr[ctl[c].player].st = "new"
    /\ ctl[c].pc = "launch" => registered

DecoderOpen ==
  \A p \in Players : Decodes(p) =>
    /\ decoder[p] = "open"
    /\ \/ slot.player = p /\ slot.closer = p
       \/ \E c \in Clients : ctl[c].pc = "wait" /\ ctl[c].player = p /\ ctl[c].closer = p

CloserKept ==
  \A p \in Players : decoder[p] = "open" => slot.closer = p \/ \E c \in Clients : ctl[c].closer = p

\* No picture comes after the source has been taken off.
Off ==
  \A c \in Clients :
    /\ ctl[c].pc \in {"off", "put"} => \A p \in Players : ~ Decodes(p)
    /\ ctl[c].pc = "put" => ~ registered
    /\ ctl[c].pc = "wait" /\ ctl[c].then = "idle" => closed

On ==
  /\ \A p \in Players : Outputs(p) => registered
  /\ (\A c \in Clients : ctl[c].pc = "idle") /\ ~ closed => (registered <=> slot.player # NoPlayer)

Orderly == patient => OneRequest /\ OutOfSlot /\ Starting /\ DecoderOpen /\ CloserKept /\ Off /\ On

Inv == TypeOK /\ HasPlayer /\ Closers /\ Orderly
-----------------------------------------------------------------------------
LEMMA Records ==
  /\ Empty = [loaded |-> FALSE, player |-> NoPlayer, closer |-> NoPlayer]
  /\ Loaded \in [loaded : BOOLEAN, player : {NoPlayer}, closer : {NoPlayer}] /\ Loaded.loaded
  /\ NewPlayer \in Goroutines /\ NewPlayer.st = "new"
  /\ NoRun \in Goroutines /\ NoRun.st = "done"
  /\ Idle \in Requests
  /\ Idle.pc = "idle" /\ Idle.player = NoPlayer /\ Idle.closer = NoPlayer /\ Idle.then = "idle"
<1>1. NewPlayer \in Goroutines /\ NewPlayer.st = "new"
  BY DEF NewPlayer, Goroutines
<1>2. NoRun \in Goroutines /\ NoRun.st = "done"
  BY <1>1 DEF NoRun, Goroutines
<1>3. Empty \in [loaded : BOOLEAN, player : {NoPlayer}, closer : {NoPlayer}]
  BY DEF Empty
<1>4. Loaded \in [loaded : BOOLEAN, player : {NoPlayer}, closer : {NoPlayer}] /\ Loaded.loaded
  BY <1>3 DEF Loaded
<1>. QED  BY <1>1, <1>2, <1>4 DEF Empty, Idle, Requests, Optional

LEMMA InitInv == Init => Inv
<1>. SUFFICES ASSUME Init PROVE Inv
  OBVIOUS
<1>1. TypeOK
  <2>1. plr \in [Players -> Goroutines] /\ ctl \in [Clients -> Requests]
    BY Records DEF Init
  <2>2. slot \in [loaded : BOOLEAN, player : Optional, closer : Optional] /\ slot.closer = NoPlayer
    BY Records DEF Init, Optional
  <2>. QED  BY <2>1, <2>2 DEF Init, TypeOK, Goroutines, Requests
<1>2. HasPlayer /\ Closers
  BY Records DEF Init, HasPlayer, Closers
<1>3. Orderly
  BY Records DEF Init, Orderly, OneRequest, OutOfSlot, Starting, DecoderOpen, Decodes, CloserKept, Off, On, Outputs
<1>. QED  BY <1>1, <1>2, <1>3 DEF Inv

\* A player is taken out of the slot, and its token with it.
LEMMA TakeOutInv ==
  ASSUME Inv, NEW c \in Clients, Begins(c), slot.player # NoPlayer,
         NEW rest \in {Empty, Loaded}, NEW then \in {"idle", "off", "put"},
         TakeOut(c, rest, then), UNCHANGED patient, closed' \in BOOLEAN,
         then = "idle" => closed', closed => closed'
  PROVE  Inv'
<1>. USE NoPlayerAssumption DEF Inv
<1>1. slot.player \in Players /\ slot.closer \in Optional /\ slot.closer \in {NoPlayer, slot.player}
  BY DEF TypeOK, Optional
<1>2. /\ ctl' \in [Clients -> Requests]
      /\ ctl'[c].pc = "wait" /\ ctl'[c].player = slot.player /\ ctl'[c].closer = slot.closer /\ ctl'[c].then = then
      /\ \A d \in Clients \ {c} : ctl'[d] = ctl[d]
  BY <1>1 DEF TakeOut, TypeOK, Requests, Optional
<1>3. /\ plr' \in [Players -> Goroutines]
      /\ \A p \in Players : plr'[p].st = plr[p].st
  <2>. DEFINE r == [plr[slot.player] EXCEPT !.cancelled = TRUE]
  <2>1. r \in Goroutines /\ r.st = plr[slot.player].st
    <3>1. plr[slot.player] \in Goroutines
      BY <1>1 DEF TypeOK, Goroutines
    <3>. QED  BY <3>1 DEF Goroutines
  <2>2. plr' = [plr EXCEPT ![slot.player] = r]
    BY Zenon DEF TakeOut
  <2>. HIDE DEF r
  <2>. QED  BY <1>1, <2>1, <2>2 DEF TypeOK, Goroutines
<1>4. /\ slot' \in [loaded : BOOLEAN, player : Optional, closer : Optional]
      /\ slot'.player = NoPlayer /\ slot'.closer = NoPlayer /\ (~ slot'.loaded => slot' = Empty)
  <2>1. slot' = rest
    BY DEF TakeOut
  <2>2. CASE rest = Empty   BY Records, <2>1, <2>2 DEF Optional
  <2>3. CASE rest = Loaded  BY Records, <2>1, <2>3 DEF Optional
  <2>. QED  BY <2>2, <2>3
<1>5. UNCHANGED <<decoder, registered>>
  BY DEF TakeOut
<1>6. TypeOK'
  BY <1>2, <1>3, <1>4, <1>5 DEF TypeOK, Goroutines, Requests, Optional
<1>7. HasPlayer' /\ Closers'
  BY <1>1, <1>2, <1>4, <1>5, SMTT(20) DEF HasPlayer, Closers, Begins, TypeOK, Optional
<1>8. Orderly'
  <2>. SUFFICES ASSUME patient PROVE (OneRequest /\ OutOfSlot /\ Starting /\ DecoderOpen /\ CloserKept /\ Off /\ On)'
    BY DEF Orderly
  <2>1. \A d \in Clients : ctl[d].pc = "idle"
    BY DEF Begins
  <2>2. OneRequest' /\ OutOfSlot' /\ Starting'
    BY <1>2, <1>4, <2>1 DEF OneRequest, OutOfSlot, Starting
  <2>3. DecoderOpen'
    <3>. SUFFICES ASSUME NEW p \in Players, Decodes(p)'
                  PROVE  decoder'[p] = "open" /\ ctl'[c].player = p /\ ctl'[c].closer = p
      BY <1>2 DEF DecoderOpen
    <3>1. Decodes(p)
      BY <1>3 DEF Decodes
    <3>. QED  BY <1>2, <1>5, <2>1, <3>1 DEF Orderly, DecoderOpen
  <2>4. CloserKept'
    <3>. SUFFICES ASSUME NEW p \in Players, decoder[p] = "open" PROVE ctl'[c].closer = p
      BY <1>5 DEF CloserKept
    <3>1. \A d \in Clients : ctl[d].closer # p
      BY <2>1 DEF Closers
    <3>. QED  BY <1>2, <3>1 DEF Orderly, CloserKept
  <2>5. Off' /\ On'
    BY <1>2, <1>3, <1>4, <1>5, <2>1 DEF Orderly, Off, On, Outputs
  <2>. QED  BY <2>2, <2>3, <2>4, <2>5
<1>. QED  BY <1>6, <1>7, <1>8

\* A slot without a player is filled or emptied: it has no token to lose.
LEMMA EmptySlotInv ==
  ASSUME Inv, slot.player = NoPlayer, slot' \in {Empty, Loaded},
         UNCHANGED <<patient, plr, decoder, registered, ctl>>, closed' \in BOOLEAN, closed => closed'
  PROVE  Inv'
<1>. USE NoPlayerAssumption DEF Inv
<1>1. /\ slot' \in [loaded : BOOLEAN, player : Optional, closer : Optional]
      /\ slot'.player = NoPlayer /\ slot'.closer = NoPlayer /\ (~ slot'.loaded => slot' = Empty)
  <2>1. CASE slot' = Empty   BY Records, <2>1 DEF Optional
  <2>2. CASE slot' = Loaded  BY Records, <2>2 DEF Optional
  <2>. QED  BY <2>1, <2>2
<1>2. slot.closer = NoPlayer
  BY DEF TypeOK
<1>3. TypeOK'
  BY <1>1 DEF TypeOK
<1>4. HasPlayer' /\ Closers'
  BY <1>1 DEF HasPlayer, Closers
<1>5. Orderly'
  <2>. SUFFICES ASSUME patient PROVE (OneRequest /\ OutOfSlot /\ Starting /\ DecoderOpen /\ CloserKept /\ Off /\ On)'
    BY DEF Orderly
  <2>1. OneRequest' /\ OutOfSlot' /\ Off'
    BY <1>1 DEF Orderly, OneRequest, OutOfSlot, Off, Decodes
  <2>2. Starting'
    BY <1>1 DEF Orderly, Starting, HasPlayer
  <2>3. DecoderOpen'
    BY DEF Orderly, DecoderOpen, Decodes
  <2>4. CloserKept'
    BY <1>2 DEF Orderly, CloserKept
  <2>5. On'
    BY <1>1 DEF Orderly, On, Outputs
  <2>. QED  BY <2>1, <2>2, <2>3, <2>4, <2>5
<1>. QED  BY <1>3, <1>4, <1>5

LEMMA StopInv ==
  ASSUME Inv, NEW c \in Clients, Stop(c) \/ Eject(c) \/ Load(c) \/ Close(c)
  PROVE  Inv'
<1>. closed \in BOOLEAN /\ Loaded \in {Empty, Loaded} /\ Empty \in {Empty, Loaded}
  BY DEF Inv, TypeOK
<1>1. CASE Stop(c)
  BY <1>1, TakeOutInv DEF Stop
<1>2. CASE Eject(c)
  <2>1. CASE slot.player # NoPlayer
    BY <1>2, <2>1, TakeOutInv DEF Eject
  <2>2. CASE slot.player = NoPlayer
    BY <1>2, <2>2, EmptySlotInv DEF Eject
  <2>. QED  BY <2>1, <2>2
<1>3. CASE Load(c)
  <2>1. CASE slot.player # NoPlayer
    BY <1>3, <2>1, TakeOutInv DEF Load
  <2>2. CASE slot.player = NoPlayer
    BY <1>3, <2>2, EmptySlotInv DEF Load
  <2>. QED  BY <2>1, <2>2
<1>4. CASE Close(c)
  <2>1. CASE slot.player # NoPlayer
    BY <1>4, <2>1, TakeOutInv DEF Close
  <2>2. CASE slot.player = NoPlayer
    BY <1>4, <2>2 DEF Close, Inv, TypeOK, HasPlayer, Closers, Orderly, OneRequest, OutOfSlot, Starting,
      DecoderOpen, CloserKept, Off, On, Outputs, Decodes
  <2>. QED  BY <2>1, <2>2
<1>. QED  BY <1>1, <1>2, <1>3, <1>4

\* The player has been waited for: its token is spent.
LEMMA WaitedInv ==
  ASSUME Inv, NEW c \in Clients, Waited(c)
  PROVE  Inv'
<1>. USE NoPlayerAssumption DEF Inv
<1>1. ctl[c].player \in Players /\ ctl[c].closer \in Optional
  BY DEF Waited, HasPlayer, TypeOK
<1>2. /\ ctl' \in [Clients -> Requests]
      /\ ctl'[c].pc = (IF ctl[c].then = "idle" THEN "idle" ELSE "off")
      /\ ctl'[c].player = NoPlayer /\ ctl'[c].closer = NoPlayer
      /\ \A d \in Clients \ {c} : ctl'[d] = ctl[d]
  <2>. DEFINE next == IF ctl[c].then = "idle" THEN Idle ELSE [Idle EXCEPT !.pc = "off", !.then = ctl[c].then]
  <2>1. /\ next \in Requests /\ next.pc = (IF ctl[c].then = "idle" THEN "idle" ELSE "off")
        /\ next.player = NoPlayer /\ next.closer = NoPlayer
    <3>1. ctl[c].then \in {"idle", "off", "put"}
      BY DEF TypeOK
    <3>. QED  BY <3>1, Records DEF Requests
  <2>2. ctl' = [ctl EXCEPT ![c] = next]
    BY Zenon DEF Waited
  <2>. HIDE DEF next
  <2>. QED  BY <2>1, <2>2 DEF TypeOK, Requests
<1>3. /\ decoder' \in [Players -> {"none", "open", "closed", "broken"}]
      /\ \A p \in Players : decoder'[p] = IF p = ctl[c].closer THEN "closed" ELSE decoder[p]
  BY <1>1 DEF Waited, CloseDecoder, Closers, TypeOK, Optional
<1>4. UNCHANGED <<patient, slot, plr, registered, closed>> /\ ctl[c].pc = "wait" /\ plr[ctl[c].player].st = "done"
  BY DEF Waited
<1>5. TypeOK'
  BY <1>2, <1>3, <1>4 DEF TypeOK, Requests
<1>6. HasPlayer'
  BY <1>2 DEF HasPlayer
<1>7. Closers'
  <2>1. \A p \in Players : decoder'[p] # "broken"
    BY <1>3 DEF Closers
  <2>2. slot.closer # NoPlayer => decoder'[slot.closer] = "open"
    BY <1>3, <1>4 DEF Closers, TypeOK, Optional
  <2>3. ASSUME NEW d \in Clients, ctl'[d].closer # NoPlayer
        PROVE  /\ ctl'[d].pc = "wait" /\ decoder'[ctl'[d].closer] = "open"
               /\ ctl'[d].closer # slot.closer
               /\ \A e \in Clients \ {d} : ctl'[e].closer # ctl'[d].closer
    <3>1. d # c /\ ctl'[d] = ctl[d]
      BY <1>2, <2>3
    <3>2. ctl[d].closer \in Players /\ ctl[d].closer # ctl[c].closer
      BY <2>3, <3>1 DEF Closers, TypeOK, Optional
    <3>. QED  BY <1>2, <1>3, <2>3, <3>1, <3>2 DEF Closers
  <2>. QED  BY <1>4, <2>1, <2>2, <2>3 DEF Closers
<1>8. Orderly'
  <2>. SUFFICES ASSUME patient PROVE (OneRequest /\ OutOfSlot /\ Starting /\ DecoderOpen /\ CloserKept /\ Off /\ On)'
    BY <1>4 DEF Orderly
  <2>1. \A d \in Clients \ {c} : ctl[d].pc = "idle" /\ ctl'[d].pc = "idle"
    BY <1>2, <1>4 DEF Orderly, OneRequest
  <2>2. slot.player = NoPlayer /\ slot.closer = NoPlayer
    BY <1>4 DEF Orderly, OutOfSlot, TypeOK
  <2>3. \A p \in Players : ~ Decodes(p)
    BY <1>4, <2>1, <2>2 DEF Orderly, DecoderOpen, Decodes
  <2>4. OneRequest' /\ OutOfSlot' /\ Starting'
    BY <1>2, <1>4, <2>1, <2>2 DEF OneRequest, OutOfSlot, Starting
  <2>5. DecoderOpen'
    BY <1>4, <2>3 DEF DecoderOpen, Decodes
  <2>6. CloserKept'
    BY <1>2, <1>3, <1>4, <2>1, <2>2 DEF Orderly, CloserKept, Closers
  <2>7. Off'
    BY <1>2, <1>4, <2>1, <2>3 DEF Off, Decodes
  <2>8. On'
    BY <1>2, <1>4, <2>1, <2>2 DEF Orderly, Off, On, Outputs
  <2>. QED  BY <2>4, <2>5, <2>6, <2>7, <2>8
<1>. QED  BY <1>5, <1>6, <1>7, <1>8

LEMMA SourceOffInv ==
  ASSUME Inv, NEW c \in Clients, SourceOff(c)
  PROVE  Inv'
<1>. USE NoPlayerAssumption DEF Inv
<1>1. /\ ctl' \in [Clients -> Requests]
      /\ ctl'[c].pc = (IF ctl[c].then = "put" THEN "put" ELSE "idle")
      /\ ctl'[c].player = NoPlayer /\ ctl'[c].closer = NoPlayer
      /\ \A d \in Clients \ {c} : ctl'[d] = ctl[d]
  <2>. DEFINE next == IF ctl[c].then = "put" THEN [Idle EXCEPT !.pc = "put"] ELSE Idle
  <2>1. /\ next \in Requests /\ next.pc = (IF ctl[c].then = "put" THEN "put" ELSE "idle")
        /\ next.player = NoPlayer /\ next.closer = NoPlayer
    BY Records DEF Requests
  <2>2. ctl' = [ctl EXCEPT ![c] = next]
    BY Zenon DEF SourceOff
  <2>. HIDE DEF next
  <2>. QED  BY <2>1, <2>2 DEF TypeOK, Requests
<1>2. UNCHANGED <<patient, slot, plr, decoder, closed>> /\ registered' = FALSE /\ ctl[c].pc = "off"
  BY DEF SourceOff
<1>3. TypeOK' /\ HasPlayer'
  BY <1>1, <1>2 DEF TypeOK, Requests, HasPlayer
<1>4. Closers'
  BY <1>1, <1>2 DEF Closers
<1>5. Orderly'
  <2>. SUFFICES ASSUME patient PROVE (OneRequest /\ OutOfSlot /\ Starting /\ DecoderOpen /\ CloserKept /\ Off /\ On)'
    BY <1>2 DEF Orderly
  <2>1. \A d \in Clients \ {c} : ctl[d].pc = "idle" /\ ctl'[d].pc = "idle"
    BY <1>1, <1>2 DEF Orderly, OneRequest
  <2>2. slot.player = NoPlayer /\ slot.closer = NoPlayer
    BY <1>2 DEF Orderly, OutOfSlot, TypeOK
  <2>3. \A p \in Players : ~ Decodes(p)
    BY <1>2 DEF Orderly, Off
  <2>4. OneRequest' /\ OutOfSlot' /\ Starting'
    BY <1>1, <1>2, <2>1, <2>2 DEF OneRequest, OutOfSlot, Starting
  <2>5. DecoderOpen' /\ Off'
    BY <1>1, <1>2, <2>1, <2>3 DEF DecoderOpen, Decodes, Off
  <2>6. CloserKept'
    BY <1>1, <1>2, <2>1, <2>2 DEF Orderly, CloserKept, Closers
  <2>7. On'
    BY <1>2, <2>2, <2>3 DEF On, Outputs, Decodes
  <2>. QED  BY <2>4, <2>5, <2>6, <2>7
<1>. QED  BY <1>3, <1>4, <1>5

\* Load puts its clip into the slot that it took the player out of.
LEMMA PutInv ==
  ASSUME Inv, NEW c \in Clients, Put(c)
  PROVE  Inv'
<1>. USE NoPlayerAssumption DEF Inv
<1>1. ctl' \in [Clients -> Requests] /\ ctl'[c] = Idle /\ \A d \in Clients \ {c} : ctl'[d] = ctl[d]
  BY Records DEF Put, TypeOK, Requests
<1>2. UNCHANGED <<patient, plr, decoder, registered, closed>> /\ ctl[c].pc = "put"
  BY DEF Put
<1>3. /\ slot' \in [loaded : BOOLEAN, player : Optional, closer : Optional]
      /\ slot'.loaded /\ slot'.player = NoPlayer /\ slot'.closer = NoPlayer
  BY Records DEF Put, Optional
<1>4. TypeOK' /\ HasPlayer'
  BY <1>1, <1>2, <1>3, Records DEF TypeOK, Requests, HasPlayer
<1>5. Closers'
  BY <1>1, <1>2, <1>3, Records DEF Closers
<1>6. Orderly'
  <2>. SUFFICES ASSUME patient PROVE (OneRequest /\ OutOfSlot /\ Starting /\ DecoderOpen /\ CloserKept /\ Off /\ On)'
    BY <1>2 DEF Orderly
  <2>1. \A d \in Clients : ctl'[d].pc = "idle"
    BY <1>1, <1>2, Records DEF Orderly, OneRequest
  <2>2. slot.player = NoPlayer /\ slot.closer = NoPlayer
    BY <1>2 DEF Orderly, OutOfSlot, TypeOK
  <2>3. (\A p \in Players : ~ Decodes(p)) /\ ~ registered
    BY <1>2 DEF Orderly, Off
  <2>4. OneRequest' /\ OutOfSlot' /\ Starting' /\ Off'
    BY <2>1 DEF OneRequest, OutOfSlot, Starting, Off
  <2>5. DecoderOpen'
    BY <1>2, <2>3 DEF DecoderOpen, Decodes
  <2>6. CloserKept'
    <3>. SUFFICES ASSUME NEW p \in Players, decoder[p] = "open" PROVE FALSE
      BY <1>2 DEF CloserKept
    <3>1. PICK d \in Clients : ctl[d].closer = p
      BY <2>2 DEF Orderly, CloserKept
    <3>2. ctl[d].pc = "wait"
      BY <3>1 DEF Closers
    <3>. QED  BY <1>2, <3>2 DEF Orderly, OneRequest
  <2>7. On'
    BY <1>2, <1>3, <2>3 DEF On, Outputs, Decodes
  <2>. QED  BY <2>4, <2>5, <2>6, <2>7
<1>. QED  BY <1>4, <1>5, <1>6
-----------------------------------------------------------------------------
(* A player is made and started                                            *)

LEMMA PlayInv ==
  ASSUME Inv, NEW c \in Clients, Play(c)
  PROVE  Inv'
<1>. USE NoPlayerAssumption DEF Inv
<1>. DEFINE p == CHOOSE q \in Fresh : TRUE
<1>1. p \in Fresh
  BY DEF Play
<1>. HIDE DEF p
<1>2. /\ p \in Players /\ plr[p].st = "done"
      /\ \A d \in Clients : ctl[d].player # p /\ ctl[d].closer # p
  BY <1>1 DEF Fresh
<1>3. /\ slot' = [slot EXCEPT !.player = p, !.closer = p]
      /\ plr' = [plr EXCEPT ![p] = NewPlayer]
      /\ decoder' = [decoder EXCEPT ![p] = "open"]
      /\ ctl' = [ctl EXCEPT ![c] = [Idle EXCEPT !.pc = "start", !.player = p]]
      /\ UNCHANGED <<patient, registered, closed>>
  BY DEF Play, p
<1>4. slot.player = NoPlayer /\ slot.closer = NoPlayer /\ slot.loaded
  BY DEF Play, TypeOK
<1>5. /\ slot' \in [loaded : BOOLEAN, player : Optional, closer : Optional]
      /\ slot'.loaded /\ slot'.player = p /\ slot'.closer = p
  BY <1>2, <1>3, <1>4 DEF TypeOK, Optional
<1>6. /\ plr' \in [Players -> Goroutines] /\ plr'[p].st = "new"
      /\ \A q \in Players \ {p} : plr'[q] = plr[q]
  BY <1>2, <1>3, Records DEF TypeOK, Goroutines
<1>7. /\ decoder' \in [Players -> {"none", "open", "closed", "broken"}] /\ decoder'[p] = "open"
      /\ \A q \in Players \ {p} : decoder'[q] = decoder[q]
  BY <1>2, <1>3 DEF TypeOK
<1>8. /\ ctl' \in [Clients -> Requests]
      /\ ctl'[c].pc = "start" /\ ctl'[c].player = p /\ ctl'[c].closer = NoPlayer
      /\ \A d \in Clients \ {c} : ctl'[d] = ctl[d]
  <2>. DEFINE new == [Idle EXCEPT !.pc = "start", !.player = p]
  <2>1. new \in Requests /\ new.pc = "start" /\ new.player = p /\ new.closer = NoPlayer
    BY <1>2, Records DEF Requests, Optional
  <2>. HIDE DEF new
  <2>2. ctl' = [ctl EXCEPT ![c] = new]
    BY <1>3 DEF new
  <2>. QED  BY <2>1, <2>2 DEF TypeOK, Requests
<1>9. TypeOK' /\ HasPlayer'
  BY <1>2, <1>3, <1>5, <1>6, <1>7, <1>8 DEF TypeOK, Requests, Goroutines, HasPlayer
<1>10. Closers'
  <2>1. \A q \in Players : decoder'[q] # "broken"
    BY <1>7 DEF Closers
  <2>2. ASSUME NEW d \in Clients, ctl'[d].closer # NoPlayer
        PROVE  /\ ctl'[d].pc = "wait" /\ decoder'[ctl'[d].closer] = "open"
               /\ ctl'[d].closer # slot'.closer
               /\ \A e \in Clients \ {d} : ctl'[e].closer # ctl'[d].closer
    <3>1. d # c /\ ctl'[d] = ctl[d]
      BY <1>8, <2>2
    <3>2. ctl[d].closer \in Players \ {p}
      BY <1>2, <2>2, <3>1 DEF TypeOK, Optional
    <3>. QED  BY <1>5, <1>7, <1>8, <2>2, <3>1, <3>2 DEF Closers
  <2>. QED  BY <1>5, <1>7, <2>1, <2>2 DEF Closers
<1>11. Orderly'
  <2>. SUFFICES ASSUME patient PROVE (OneRequest /\ OutOfSlot /\ Starting /\ DecoderOpen /\ CloserKept /\ Off /\ On)'
    BY <1>3 DEF Orderly
  <2>1. \A d \in Clients : ctl[d].pc = "idle"
    BY DEF Play, Begins
  <2>2. OneRequest' /\ OutOfSlot' /\ Starting'
    BY <1>5, <1>6, <1>8, <2>1 DEF OneRequest, OutOfSlot, Starting
  <2>3. \A q \in Players : ~ Decodes(q)
    BY <1>4, <2>1 DEF Orderly, DecoderOpen
  <2>4. DecoderOpen'
    BY <1>5, <1>6, <1>7, <2>3 DEF DecoderOpen, Decodes
  <2>5. \A d \in Clients : ctl[d].closer = NoPlayer
    BY <2>1 DEF Closers
  <2>6. \A q \in Players : decoder[q] # "open"
    BY <1>4, <2>5 DEF Orderly, CloserKept
  <2>7. CloserKept'
    BY <1>5, <1>7, <2>6 DEF CloserKept
  <2>8. Off' /\ On'
    BY <1>3, <1>6, <1>8, <2>1 DEF Orderly, Off, On, Outputs
  <2>. QED  BY <2>2, <2>4, <2>7, <2>8
<1>. QED  BY <1>9, <1>10, <1>11

\* onPlayerStart and p.Start
LEMMA StartInv ==
  ASSUME Inv, NEW c \in Clients, SourceOn(c) \/ Launch(c)
  PROVE  Inv'
<1>. USE NoPlayerAssumption DEF Inv
<1>. DEFINE p == ctl[c].player
<1>1. p \in Players
  BY DEF SourceOn, Launch, HasPlayer
<1>2. UNCHANGED <<patient, slot, decoder, closed>> /\ ctl[c].pc \in {"start", "launch"}
  BY DEF SourceOn, Launch
<1>3. CASE SourceOn(c)
  <2>1. /\ ctl' \in [Clients -> Requests]
        /\ ctl'[c].pc = "launch" /\ ctl'[c].player = p /\ ctl'[c].closer = ctl[c].closer
        /\ \A d \in Clients \ {c} : ctl'[d] = ctl[d]
    BY <1>3 DEF SourceOn, TypeOK, Requests, Optional
  <2>2. registered' = TRUE /\ plr' = plr /\ ctl[c].pc = "start"
    BY <1>3 DEF SourceOn
  <2>3. TypeOK' /\ HasPlayer'
    BY <1>1, <1>2, <2>1, <2>2 DEF TypeOK, Requests, Optional, HasPlayer
  <2>4. ctl[c].closer = NoPlayer
    BY <2>2 DEF Closers
  <2>5. Closers'
    BY <1>2, <2>1, <2>4 DEF Closers
  <2>6. Orderly'
    <3>. SUFFICES ASSUME patient PROVE (OneRequest /\ OutOfSlot /\ Starting /\ DecoderOpen /\ CloserKept /\ Off /\ On)'
      BY <1>2 DEF Orderly
    <3>1. OneRequest' /\ OutOfSlot' /\ Starting'
      BY <1>2, <2>1, <2>2 DEF Orderly, OneRequest, OutOfSlot, Starting
    <3>2. DecoderOpen' /\ CloserKept'
      BY <1>2, <2>1, <2>2, <2>4 DEF Orderly, DecoderOpen, Decodes, CloserKept
    <3>3. Off' /\ On'
      BY <1>2, <2>1, <2>2 DEF Orderly, OneRequest, Off, Decodes, On
    <3>. QED  BY <3>1, <3>2, <3>3
  <2>. QED  BY <2>3, <2>5, <2>6
<1>4. CASE Launch(c)
  <2>1. ctl' \in [Clients -> Requests] /\ ctl'[c] = Idle /\ \A d \in Clients \ {c} : ctl'[d] = ctl[d]
    BY <1>4, Records DEF Launch, TypeOK, Requests
  <2>2. /\ plr' \in [Players -> Goroutines] /\ plr'[p].st = "running"
        /\ \A q \in Players \ {p} : plr'[q] = plr[q]
    BY <1>1, <1>4 DEF Launch, TypeOK, Goroutines
  <2>3. registered' = registered /\ ctl[c].pc = "launch"
    BY <1>4 DEF Launch
  <2>4. TypeOK' /\ HasPlayer'
    <3>1. TypeOK'
      BY <1>2, <2>1, <2>2, <2>3 DEF TypeOK, Requests, Goroutines
    <3>2. HasPlayer'
      BY <2>1, Records DEF HasPlayer
    <3>. QED  BY <3>1, <3>2
  <2>5. ctl[c].closer = NoPlayer
    BY <2>3 DEF Closers
  <2>6. Closers'
    BY <1>2, <2>1, Records DEF Closers
  <2>7. Orderly'
    <3>. SUFFICES ASSUME patient PROVE (OneRequest /\ OutOfSlot /\ Starting /\ DecoderOpen /\ CloserKept /\ Off /\ On)'
      BY <1>2 DEF Orderly
    <3>1. \A d \in Clients : ctl'[d].pc = "idle"
      BY <2>1, <2>3, Records DEF Orderly, OneRequest
    <3>2. slot.player = p /\ slot.closer = p /\ registered /\ plr[p].st = "new"
      BY <2>3 DEF Orderly, Starting
    <3>3. OneRequest' /\ OutOfSlot' /\ Starting' /\ Off'
      BY <3>1 DEF OneRequest, OutOfSlot, Starting, Off
    <3>4. ASSUME NEW q \in Players \ {p} PROVE ~ Decodes(q)
      BY <2>3, <3>2 DEF Orderly, DecoderOpen, OneRequest
    <3>5. decoder[p] = "open"
      BY <1>1, <3>2 DEF Orderly, DecoderOpen, Decodes
    <3>6. DecoderOpen'
      BY <1>2, <2>2, <3>2, <3>4, <3>5 DEF DecoderOpen, Decodes
    <3>7. CloserKept'
      <4>. SUFFICES ASSUME NEW q \in Players, decoder[q] = "open", slot.closer # q PROVE FALSE
        BY <1>2 DEF CloserKept
      <4>1. PICK d \in Clients : ctl[d].closer = q
        BY DEF Orderly, CloserKept
      <4>2. ctl[d].pc = "wait"
        BY <4>1 DEF Closers
      <4>. QED  BY <2>3, <4>2 DEF Orderly, OneRequest
    <3>8. On'
      BY <1>1, <1>2, <2>3, <3>2 DEF On
    <3>. QED  BY <3>3, <3>6, <3>7, <3>8
  <2>. QED  BY <2>4, <2>6, <2>7
<1>. QED  BY <1>3, <1>4
-----------------------------------------------------------------------------
(* Player.run                                                              *)

\* A step that neither starts a player nor closes a decoder.
LEMMA GoroutineInv ==
  ASSUME Inv, NEW p \in Players, NEW r \in Goroutines, plr' = [plr EXCEPT ![p] = r],
         plr[p].st # "new" /\ r.st # "new",
         r.st \in {"running", "held"} => plr[p].st \in {"running", "held"},
         r.st = "over" => plr[p].st = "running",
         UNCHANGED <<patient, slot, decoder, registered, ctl, closed>>
  PROVE  Inv'
<1>. USE NoPlayerAssumption DEF Inv
<1>1. /\ plr' \in [Players -> Goroutines] /\ plr'[p] = r
      /\ \A q \in Players \ {p} : plr'[q] = plr[q]
  BY DEF TypeOK, Goroutines
<1>2. TypeOK' /\ HasPlayer' /\ Closers'
  BY <1>1 DEF TypeOK, Goroutines, HasPlayer, Closers
<1>3. \A q \in Players : (Decodes(q)' => Decodes(q)) /\ (Outputs(q)' => Outputs(q))
                         /\ (plr[q].st = "new" => plr'[q].st = "new")
  BY <1>1 DEF Decodes, Outputs
<1>4. Orderly'
  <2>. SUFFICES ASSUME patient PROVE (OneRequest /\ OutOfSlot /\ Starting /\ DecoderOpen /\ CloserKept /\ Off /\ On)'
    BY DEF Orderly
  <2>1. OneRequest' /\ OutOfSlot' /\ CloserKept'
    BY DEF Orderly, OneRequest, OutOfSlot, CloserKept
  <2>2. Starting'
    BY <1>3 DEF Orderly, Starting, HasPlayer
  <2>3. DecoderOpen' /\ Off' /\ On'
    BY <1>3 DEF Orderly, DecoderOpen, Off, On
  <2>. QED  BY <2>1, <2>2, <2>3
<1>. QED  BY <1>2, <1>4

\* The end of the clip closes with the token of the slot, whoever's it is: one request at a
\* time, it is the player's own or none.
LEMMA OnDoneInv ==
  ASSUME Inv, NEW p \in Players, OnDone(p)
  PROVE  Inv'
<1>. USE NoPlayerAssumption DEF Inv
<1>1. /\ plr' \in [Players -> Goroutines] /\ plr'[p].st = "holding"
      /\ \A q \in Players \ {p} : plr'[q] = plr[q]
  BY DEF OnDone, TypeOK, Goroutines
<1>2. /\ slot' \in [loaded : BOOLEAN, player : Optional, closer : Optional]
      /\ slot'.player = slot.player /\ slot'.closer = NoPlayer /\ slot'.loaded = slot.loaded
      /\ ~ slot'.loaded => slot' = Empty
  <2>1. slot' = [slot EXCEPT !.closer = NoPlayer] /\ slot \in [loaded : BOOLEAN, player : Optional, closer : Optional]
    BY DEF OnDone, TypeOK
  <2>2. ~ slot.loaded => slot.closer = NoPlayer
    BY Records DEF TypeOK
  <2>3. slot.closer = NoPlayer => slot' = slot
    BY <2>1
  <2>. QED  BY <2>1, <2>2, <2>3 DEF TypeOK, Optional
<1>3. /\ decoder' \in [Players -> {"none", "open", "closed", "broken"}]
      /\ \A q \in Players : decoder'[q] = IF q = slot.closer THEN "closed" ELSE decoder[q]
  BY DEF OnDone, CloseDecoder, Closers, TypeOK, Optional
<1>4. UNCHANGED <<patient, registered, ctl, closed>> /\ plr[p].st = "over"
  BY DEF OnDone
<1>5. TypeOK' /\ HasPlayer'
  BY <1>1, <1>2, <1>3, <1>4 DEF TypeOK, Goroutines, HasPlayer
<1>6. Closers'
  BY <1>2, <1>3, <1>4 DEF Closers, TypeOK, Optional
<1>7. Orderly'
  <2>. SUFFICES ASSUME patient PROVE (OneRequest /\ OutOfSlot /\ Starting /\ DecoderOpen /\ CloserKept /\ Off /\ On)'
    BY <1>4 DEF Orderly
  <2>1. slot.player \in {p, NoPlayer} /\ slot.closer \in {p, NoPlayer}
    BY <1>4 DEF Orderly, DecoderOpen, Decodes, OutOfSlot, TypeOK
  <2>2. OneRequest' /\ OutOfSlot' /\ Off'
    BY <1>1, <1>2, <1>4 DEF Orderly, OneRequest, OutOfSlot, Off, Decodes
  <2>3. Starting'
    <3>. SUFFICES ASSUME NEW c \in Clients, ctl[c].pc \in {"start", "launch"} PROVE FALSE
      BY <1>4 DEF Starting
    <3>1. ctl[c].player \in Players /\ slot.player = ctl[c].player /\ plr[ctl[c].player].st = "new"
      BY DEF Orderly, Starting, HasPlayer
    <3>. QED  BY <1>4, <2>1, <3>1
  <2>4. DecoderOpen'
    <3>. SUFFICES ASSUME NEW q \in Players, Decodes(q)'
                  PROVE  decoder'[q] = "open" /\ \E c \in Clients : ctl[c].pc = "wait" /\ ctl[c].player = q /\ ctl[c].closer = q
      BY <1>4 DEF DecoderOpen
    <3>1. q # p /\ Decodes(q)
      BY <1>1 DEF Decodes
    <3>. QED  BY <1>3, <2>1, <3>1 DEF Orderly, DecoderOpen
  <2>5. CloserKept'
    BY <1>3, <1>4 DEF Orderly, CloserKept
  <2>6. On'
    BY <1>1, <1>2, <1>4 DEF Orderly, On, Outputs
  <2>. QED  BY <2>2, <2>3, <2>4, <2>5, <2>6
<1>. QED  BY <1>5, <1>6, <1>7

LEMMA RunInv ==
  ASSUME Inv, NEW p \in Players, Run(p) \/ Finish(p) \/ NothingToHold(p)
  PROVE  Inv'
<1>1. plr[p] \in Goroutines
  BY DEF Inv, TypeOK, Goroutines
<1>2. CASE Hold(p)
  <2>. DEFINE r == [plr[p] EXCEPT !.st = "held"]
  <2>1. r \in Goroutines /\ r.st = "held"
    BY <1>1 DEF Goroutines
  <2>2. plr' = [plr EXCEPT ![p] = r] /\ plr[p].st = "running" /\ UNCHANGED <<patient, slot, decoder, registered, ctl, closed>>
    BY <1>2 DEF Hold
  <2>. HIDE DEF r
  <2>. QED  BY <2>1, <2>2, GoroutineInv
<1>3. CASE Finish(p)
  <2>. DEFINE r == [plr[p] EXCEPT !.st = "over", !.paused = FALSE]
  <2>1. r \in Goroutines /\ r.st = "over"
    BY <1>1 DEF Goroutines
  <2>2. plr' = [plr EXCEPT ![p] = r] /\ plr[p].st = "running" /\ UNCHANGED <<patient, slot, decoder, registered, ctl, closed>>
    BY <1>3, Zenon DEF Finish
  <2>. HIDE DEF r
  <2>. QED  BY <2>1, <2>2, GoroutineInv
<1>4. CASE Leave(p)
  BY <1>4, GoroutineInv, Records DEF Leave
<1>5. CASE NothingToHold(p)
  BY <1>5, GoroutineInv, Records DEF NothingToHold
<1>. QED  BY <1>2, <1>3, <1>4, <1>5, OnDoneInv DEF Run

LEMMA PauseInv ==
  ASSUME Inv, NEW c \in Clients, Pause(c) \/ Resume(c)
  PROVE  Inv'
<1>. DEFINE p == slot.player
<1>1. p \in Players /\ plr[p] \in Goroutines
  BY DEF Pause, Resume, Inv, TypeOK, Goroutines, Optional
<1>2. CASE Pause(c)
  <2>. DEFINE r == [plr[p] EXCEPT !.paused = TRUE]
  <2>1. r \in Goroutines /\ r.st = plr[p].st
    BY <1>1 DEF Goroutines
  <2>2. plr' = [plr EXCEPT ![p] = r] /\ plr[p].st = "running" /\ UNCHANGED <<patient, slot, decoder, registered, ctl, closed>>
    BY <1>2, Zenon DEF Pause
  <2>. HIDE DEF r
  <2>. QED  BY <1>1, <2>1, <2>2, GoroutineInv
<1>3. CASE Resume(c)
  <2>. DEFINE r == [plr[p] EXCEPT !.paused = FALSE, !.st = "running"]
  <2>1. r \in Goroutines /\ r.st = "running"
    BY <1>1 DEF Goroutines
  <2>2. plr' = [plr EXCEPT ![p] = r] /\ plr[p].st \in {"running", "held"} /\ UNCHANGED <<patient, slot, decoder, registered, ctl, closed>>
    BY <1>3, Zenon DEF Resume
  <2>. HIDE DEF r
  <2>. QED  BY <1>1, <2>1, <2>2, GoroutineInv
<1>. QED  BY <1>2, <1>3

LEMMA NextInv == Inv /\ [Next]_vars => Inv'
<1>. SUFFICES ASSUME Inv, [Next]_vars PROVE Inv'
  OBVIOUS
<1>1. CASE UNCHANGED vars
  BY <1>1 DEF vars, Inv, TypeOK, HasPlayer, Closers, Orderly, OneRequest, OutOfSlot, Starting, DecoderOpen,
    Decodes, CloserKept, Off, On, Outputs
<1>2. ASSUME NEW c \in Clients, Request(c) PROVE Inv'
  BY <1>2, StopInv, PlayInv, PauseInv DEF Request
<1>3. ASSUME NEW c \in Clients, Continue(c) PROVE Inv'
  BY <1>3, WaitedInv, SourceOffInv, PutInv, StartInv DEF Continue
<1>. QED  BY <1>1, <1>2, <1>3, RunInv DEF Next
-----------------------------------------------------------------------------
\* Every variable of the slot keeps its type; in particular the closer kept is that of the
\* player kept.
THEOREM Typing == Spec => []TypeOK
<1>1. Inv => TypeOK
  BY DEF Inv
<1>. QED  BY <1>1, InitInv, NextInv, PTL DEF Spec

\* Whatever Stop, Eject, Load and the end of the clip do beside each other (manager.go), no
\* decoder is closed twice; one request at a time, none is closed under its player or lost.
THEOREM DecodersSafe == Spec => []DecoderSafe
<1>1. Inv => DecoderSafe
  BY DEF Inv, Closers, Orderly, DecoderOpen, Decodes, CloserKept, DecoderSafe, Outputs
<1>. QED  BY <1>1, InitInv, NextInv, PTL DEF Spec

\* One request at a time, a player outputs to a registered source and somebody knows it,
\* and between requests a source is registered exactly for a slot with a player (app_clips.go).
THEOREM SourcesFollow == Spec => []SourceFollows
<1>1. Inv => SourceFollows
  BY DEF Inv, Orderly, DecoderOpen, Decodes, On, SourceFollows, Outputs
<1>. QED  BY <1>1, InitInv, NextInv, PTL DEF Spec
=============================================================================
