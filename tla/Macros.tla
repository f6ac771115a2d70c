------------------------------- MODULE Macros -------------------------------
(***************************************************************************)
(* Macros: the handlers that run, cancel and dismiss one                   *)
(* (control/api_macro.go), the goroutine of each run and the runner        *)
(* (macro/runner.go).  A step is only seen to succeed or to fail.          *)
(*                                                                         *)
(* The API's state says whether a macro runs.  The runner reports after    *)
(* every step and each report overwrites that state, whoever's it is.      *)
(***************************************************************************)
EXTENDS Integers

CONSTANTS
  Runs,      \* executions: a context, its cancel function and a generation
  NoRun,     \* nil
  MaxSteps   \* steps of a macro

ASSUME RunAssumption == NoRun \notin Runs /\ MaxSteps \in Nat \ {0}

VARIABLES
  macroState,   \* a.macroState: nil, or its Running
  macroCancel,  \* a.macroCancel: the run it cancels
  macroGen,     \* a.macroGen: the run that was started last
  run,          \* per run: its goroutine
  cancelling,   \* runs whose cancel function a handler is about to call
  dismissed     \* history: a dismissal has come while a macro ran

macroVars == <<macroState, macroCancel, macroGen, run, cancelling, dismissed>>

NotRunning == [pc |-> "none", step |-> 1, cancelled |-> FALSE]

MacroTypeOK ==
  /\ macroState \in {"nil", "running", "stopped"}
  /\ macroCancel \in Runs \cup {NoRun} /\ macroGen \in Runs \cup {NoRun}
  /\ run \in [Runs -> [pc : {"none", "started", "ready", "acting", "waiting", "returned"},
                       step : 1 .. MaxSteps + 1, cancelled : BOOLEAN]]
  /\ cancelling \subseteq Runs /\ dismissed \in BOOLEAN

MacroInit ==
  /\ macroState = "nil" /\ macroCancel = NoRun /\ macroGen = NoRun
  /\ run = [r \in Runs |-> NotRunning]
  /\ cancelling = {} /\ dismissed = FALSE

Executing == {r \in Runs : run[r].pc # "none"}
-----------------------------------------------------------------------------
(* The handlers                                                            *)

\* handleRunMacro
RunMacro ==
  /\ macroState # "running"
  /\ \E r \in Runs \ (Executing \cup cancelling \cup {macroCancel, macroGen}) :
       /\ macroState' = "running" /\ macroCancel' = r /\ macroGen' = r
       /\ run' = [run EXCEPT ![r] = [NotRunning EXCEPT !.pc = "started"]]
       /\ UNCHANGED <<cancelling, dismissed>>

\* handleDismissMacro; the cancel function is called after the unlock.
Dismiss ==
  /\ macroState' = "nil" /\ macroCancel' = NoRun
  /\ cancelling' = cancelling \cup ({macroCancel} \ {NoRun})
  /\ dismissed' = (dismissed \/ Executing # {})
  /\ UNCHANGED <<macroGen, run>>

\* handleCancelMacro
CancelMacro ==
  /\ macroCancel # NoRun
  /\ cancelling' = cancelling \cup {macroCancel}
  /\ UNCHANGED <<macroState, macroCancel, macroGen, run, dismissed>>

\* context.CancelFunc
CancelRun(r) ==
  /\ r \in cancelling
  /\ cancelling' = cancelling \ {r}
  /\ run' = [run EXCEPT ![r].cancelled = run[r].pc # "none"]
  /\ UNCHANGED <<macroState, macroCancel, macroGen, dismissed>>
-----------------------------------------------------------------------------
(* runner.Run and the goroutine around it                                  *)

\* The run goes to pc and notifies: onProgress stores its state over the API's.
Notify(r, pc, state) ==
  /\ run' = [run EXCEPT ![r].pc = pc]
  /\ macroState' = state
  /\ UNCHANGED <<macroCancel, macroGen, cancelling, dismissed>>

Begin(r) == run[r].pc = "started" /\ Notify(r, "ready", "running")

\* Before each step the context is checked.  A step acts on the switcher or waits.
StepBegin(r) ==
  /\ run[r].pc = "ready" /\ run[r].step <= MaxSteps
  /\ \E pc \in IF run[r].cancelled THEN {"returned"} ELSE {"acting", "waiting"} : Notify(r, pc, "running")

StepDone(r) ==
  /\ run[r].pc \in {"acting", "waiting"}
  /\ run' = [run EXCEPT ![r].pc = "ready", ![r].step = @ + 1]
  /\ macroState' = "running"
  /\ UNCHANGED <<macroCancel, macroGen, cancelling, dismissed>>

\* The state still says running.
StepFailed(r) == run[r].pc = "acting" /\ Notify(r, "returned", "running")

\* Mutant: the wait does not listen to the context.
WaitCut_Deaf(r) == run[r].pc = "waiting" /\ run[r].step > MaxSteps /\ Notify(r, "returned", "running")

\* A wait is cut short by the context.
WaitCut(r) == run[r].pc = "waiting" /\ run[r].cancelled /\ Notify(r, "returned", "running")

Finish(r) == run[r].pc = "ready" /\ run[r].step > MaxSteps /\ Notify(r, "returned", "stopped")

\* Mutant: the completion leaves Running to the runner.
Complete_LeavesRunning(r) ==
  /\ run[r].pc = "returned"
  /\ run' = [run EXCEPT ![r] = NotRunning]
  /\ macroCancel' = IF macroGen = r THEN NoRun ELSE macroCancel
  /\ UNCHANGED <<macroState, macroGen, cancelling, dismissed>>

\* The goroutine clears Running, of whatever state is there, if no other run was started.
Complete(r) ==
  /\ run[r].pc = "returned"
  /\ run' = [run EXCEPT ![r] = NotRunning]
  /\ IF macroGen = r
       THEN macroCancel' = NoRun /\ macroState' = IF macroState = "nil" THEN "nil" ELSE "stopped"
       ELSE UNCHANGED <<macroCancel, macroState>>
  /\ UNCHANGED <<macroGen, cancelling, dismissed>>

Proceed(r) ==
  \/ Begin(r) \/ StepBegin(r) \/ WaitCut(r) \/ Finish(r) \/ Complete(r)
  \/ run[r].pc = "acting" /\ (StepDone(r) \/ StepFailed(r))

\* The program starts anew.
MacroRestart ==
  /\ macroState' = "nil" /\ macroCancel' = NoRun /\ macroGen' = NoRun
  /\ run' = [r \in Runs |-> NotRunning]
  /\ cancelling' = {} /\ dismissed' = FALSE

\* Goroutines and handlers run; a step that acts ends, a wait may be as long as it likes.
MacroFairness == \A r \in Runs : WF_macroVars(Proceed(r)) /\ WF_macroVars(CancelRun(r))
-----------------------------------------------------------------------------
\* Runs that may still act; one that has returned only has its completion to do.
Active == {r \in Runs : run[r].pc \notin {"none", "returned"}}

\* As long as no running macro is dismissed, one runs at a time, the API refuses others
\* and can cancel it for as long as it runs, and "running" is taken back in the end:
\* a macro whose step fails leaves that to the completion of its goroutine, which may
\* come when the next macro has already been started.
MacroAlone ==
  ~ dismissed =>
    /\ \A r \in Active : macroCancel = r /\ macroState = "running"
    /\ macroState = "running" => \E r \in Executing : macroGen = r

\* A macro that is cancelled or dismissed ends, however long its wait.
CancelledEnds == \A r \in Runs : r \in cancelling ~> run[r].pc = "none"

\* api_macro.go: "Concurrency guard: only one macro at a time."  Of two that run, one at
\* least is on its way out, cancelled or dismissed.
OneMacro ==
  \A r, q \in Active : r # q => \E x \in {r, q} : run[x].cancelled \/ x \in cancelling
=============================================================================
