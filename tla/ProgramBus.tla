----------------------------- MODULE ProgramBus -----------------------------
(***************************************************************************)
(* What the switching engine promises its operator, without threads,       *)
(* engines or callbacks: one source is on air, and at most one move of the *)
(* bus is under way, a mix towards a source or a fade to or from black.    *)
(***************************************************************************)
CONSTANTS Sources, NoSource

VARIABLES
  onAir,   \* the program
  next,    \* the source a mix is moving to
  light    \* lit, dimming, dark, rising

busView == <<onAir, next, light>>

Moving == next # NoSource \/ light \in {"dimming", "rising"}

BusTypeOK ==
  /\ onAir \in Sources \cup {NoSource} /\ next \in Sources \cup {NoSource}
  /\ light \in {"lit", "dimming", "dark", "rising"}
  /\ next # NoSource => light = "lit"

BusInit == onAir = NoSource /\ next = NoSource /\ light = "lit"

\* A cut puts a source on air at once and ends a move; black stays black.
Take(s) ==
  /\ s # onAir
  /\ onAir' = s /\ next' = NoSource
  /\ light' = IF light = "dark" THEN "dark" ELSE "lit"

\* A mix, or a fade, begins only while nothing else moves.
Begin(s) ==
  /\ ~ Moving /\ light = "lit" /\ s # onAir /\ onAir # NoSource
  /\ next' = s
  /\ UNCHANGED <<onAir, light>>

Dim == ~ Moving /\ light = "lit" /\ light' = "dimming" /\ UNCHANGED <<onAir, next>>

Rise == light = "dark" /\ light' = "rising" /\ UNCHANGED <<onAir, next>>

\* A move arrives, at the very source it set out for ...
Arrive ==
  \/ next # NoSource /\ onAir' = next /\ next' = NoSource /\ UNCHANGED light
  \/ light = "dimming" /\ light' = "dark" /\ UNCHANGED <<onAir, next>>
  \/ light = "rising" /\ light' = "lit" /\ UNCHANGED <<onAir, next>>

\* ... or is given up, and the bus is as it was before.
GiveUp ==
  \/ next # NoSource /\ next' = NoSource /\ UNCHANGED <<onAir, light>>
  \/ light = "dimming" /\ light' = "lit" /\ UNCHANGED <<onAir, next>>
  \/ light = "rising" /\ light' = "dark" /\ UNCHANGED <<onAir, next>>

\* The source on air goes away.
Lose == onAir # NoSource /\ onAir' = NoSource /\ UNCHANGED <<next, light>>

BusNext == \/ \E s \in Sources : Take(s) \/ Begin(s)
           \/ Dim \/ Rise \/ Arrive \/ GiveUp \/ Lose

BusSpec == BusInit /\ [][BusNext]_busView

\* A move does not go on for ever.
BusFairSpec == BusSpec /\ WF_busView(Arrive \/ GiveUp)
=============================================================================
