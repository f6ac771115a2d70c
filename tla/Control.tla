------------------------------ MODULE Control ------------------------------
(***************************************************************************)
(* The control plane: requests pass the middleware of Operators, and those *)
(* under /api/macros/, which belong to the subsystem switching, act on     *)
(* Macros.  Other commands change nothing here.                            *)
(***************************************************************************)
EXTENDS Operators, Macros

vars == <<opVars, macroVars>>

TypeOK == OpTypeOK /\ MacroTypeOK

Init == OpInit /\ MacroInit

\* The handler behind the middleware.
Handle(c) ==
  /\ Effect(c)
  /\ \/ req[c].sub = "switching" /\ (RunMacro \/ Dismiss \/ CancelMacro)
     \/ UNCHANGED macroVars

\* A crash ends everything at once.
Restart == OpRestart /\ MacroRestart

Next ==
  \/ OpNext /\ UNCHANGED macroVars
  \/ \E c \in Clients : Handle(c)
  \/ \E r \in Runs : (Proceed(r) \/ StepDone(r) \/ CancelRun(r)) /\ UNCHANGED opVars
  \/ Restart

Spec == Init /\ [][Next]_vars

FairSpec == Spec /\ OpFairness /\ MacroFairness
=============================================================================
