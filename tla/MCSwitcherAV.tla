--------------------------- MODULE MCSwitcherAV ---------------------------
(* Instances of SwitcherAV for TLC. *)
EXTENDS SwitcherAV, TLC

Symmetry == Permutations(Sources) \cup Permutations(Controllers) \cup Permutations(Engines)

\* What no step and no property reads again is left out.
AVLive ==
  <<state, program, registered, transEngine, gate, frame, mix, syncProgram, wiring,
    [e \in Engines |-> IF Fresh(e) THEN NewEngine ELSE [engine[e] EXCEPT !.fed = @ /\ ~ GPU]],
    [e \in Engines |-> IF comp[e].pc \in {"none", "lock"} THEN comp[e] ELSE [comp[e] EXCEPT !.aborted = FALSE]],
    ctl>>
=============================================================================
