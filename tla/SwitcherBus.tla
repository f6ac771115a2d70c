---------------------------- MODULE SwitcherBus ----------------------------
(* The switching engine implements the program bus. *)
EXTENDS SwitcherProps

\* The target of the mix under way: of its engine, or of the request starting it.
MixTarget ==
  IF state # "transitioning" THEN NoSource
  ELSE IF transEngine # NoEngine THEN engine[transEngine].to
  ELSE LET starters == {d \in Controllers : Starting(d) /\ ctl[d].kind = "mix"}
       IN IF starters = {} THEN NoSource ELSE ctl[CHOOSE d \in starters : TRUE].to

Light == CASE state = "ftb_transitioning" -> "dimming"
           [] state = "ftb" -> "dark"
           [] state = "ftb_reversing" -> "rising"
           [] OTHER -> "lit"

Bus == INSTANCE ProgramBus WITH onAir <- program, next <- MixTarget, light <- Light

\* Every step of the engine is a step of the bus or none of its business: however
\* requests, frames and callbacks interleave, a mix arrives at the source it was
\* started for or is given up, and no second move begins before.
ImplementsBus == Bus!BusSpec

\* ... and, with frames arriving and nobody holding the T-bar, every move ends.
ImplementsFairBus == Bus!BusFairSpec
=============================================================================
