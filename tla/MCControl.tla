----------------------------- MODULE MCControl -----------------------------
(* Instances of Control for TLC. *)
EXTENDS Control

NoOperators == registered = {} /\ \A o \in Ops : session[o] = "none" /\ \A c \in Clients : req[c].op # o

(* The product of both parts is out of TLC's reach: macros are run while   *)
(* nobody is registered, when everybody may command, and operators come    *)
(* before the first macro since the program was started.  No action with a *)
(* fairness condition is cut off.                                          *)
Bound == NoOperators \/ (macroState = "nil" /\ macroGen = NoRun /\ cancelling = {})

MCSpec == Init /\ [][Next /\ Bound']_vars /\ OpFairness /\ MacroFairness
=============================================================================
