--------------------------- MODULE ControlProofs ---------------------------
(***************************************************************************)
(* Proofs about the control plane.  Operators and macros share no variable *)
(* and are proved one by one.                                              *)
(*                                                                         *)
(* Locks: whoever holds one has a session (LockHeld), so that an operator  *)
(* who has just registered, and has none yet, holds no lock that could     *)
(* bind a command past its check (LockExcludes).                           *)
(*                                                                         *)
(* Macros: the cancel function kept is that of the run started last        *)
(* (CancelIsLast), which makes the run that clears "running" the one that  *)
(* set it.  StepsBounded is what keeps the step within its type.           *)
(***************************************************************************)
EXTENDS Control, TLAPS

OpInv == OpTypeOK /\ LockHeld /\ LockExcludes

CancelIsLast == macroCancel # NoRun => macroCancel = macroGen

StepsBounded == \A r \in Runs : run[r].pc \in {"acting", "waiting"} => run[r].step <= MaxSteps

MacroInv == MacroTypeOK /\ MacroAlone /\ CancelIsLast /\ StepsBounded
-----------------------------------------------------------------------------
(* Operators                                                               *)

LEMMA ServedType == Served \in [pc : {"idle"}, op : {NoOne}, sub : Subsystems, early : {FALSE}]
<1>1. \E s \in Subsystems : TRUE
  BY OperatorAssumption
<1>2. (CHOOSE s \in Subsystems : TRUE) \in Subsystems
  BY <1>1
<1>. QED  BY <1>2 DEF Served

LEMMA OpInitInv == OpInit => OpInv
<1>. SUFFICES ASSUME OpInit PROVE OpInv
  OBVIOUS
<1>1. OpTypeOK
  BY ServedType DEF OpInit, OpTypeOK
<1>2. LockHeld
  BY DEF OpInit, LockHeld
<1>3. LockExcludes
  BY ServedType DEF OpInit, LockExcludes, At
<1>. QED  BY <1>1, <1>2, <1>3 DEF OpInv

\* The request that a handler moves on to is well-formed.
LEMMA GotoType ==
  ASSUME OpTypeOK, NEW c \in Clients, NEW o \in Ops \cup {NoOne}, NEW s \in Subsystems,
         NEW pc \in {"connect", "heartbeat", "acquire", "release", "force", "delete", "disconnect",
                     "check", "effect"},
         Goto(c, pc, o, s)
  PROVE  /\ req' \in [Clients -> [pc : {"idle", "connect", "heartbeat", "acquire", "release", "force",
                                        "delete", "disconnect", "check", "effect"},
                                  op : Ops \cup {NoOne}, sub : Subsystems, early : BOOLEAN]]
         /\ \A d \in Clients \ {c} : req'[d] = req[d]
         /\ req'[c].pc = pc /\ req'[c].op = o /\ req'[c].sub = s
BY ServedType DEF Goto, OpTypeOK

LEMMA AnswerType ==
  ASSUME OpTypeOK, NEW c \in Clients, Answer(c)
  PROVE  /\ req' \in [Clients -> [pc : {"idle", "connect", "heartbeat", "acquire", "release", "force",
                                        "delete", "disconnect", "check", "effect"},
                                  op : Ops \cup {NoOne}, sub : Subsystems, early : BOOLEAN]]
         /\ \A d \in Clients \ {c} : req'[d] = req[d]
         /\ req'[c].pc = "idle"
BY ServedType DEF Answer, OpTypeOK

\* A step after which no lock is newly held and nobody has newly registered keeps a
\* command out, if it neither starts nor marks one.
LEMMA KeepsOut ==
  ASSUME OpInv, OpTypeOK', NEW c \in Clients,
         \A d \in Clients \ {c} : req'[d] = req[d],
         req'[c].pc # "effect",
         \A s \in Subsystems : lock'[s] \in {lock[s], NoOne},
         registered' \subseteq registered
  PROVE  LockExcludes'
<1>. SUFFICES ASSUME NEW d \in Clients, req'[d].pc = "effect", lock'[req'[d].sub] \in registered' \ {req'[d].op}
              PROVE  req'[d].early
  BY DEF LockExcludes, At
<1>1. req'[d] = req[d] /\ req[d].sub \in Subsystems
  BY DEF OpInv, OpTypeOK
<1>2. lock'[req[d].sub] \in Ops /\ lock'[req[d].sub] # NoOne
  BY <1>1, OperatorAssumption DEF OpInv, OpTypeOK
<1>3. lock[req[d].sub] = lock'[req[d].sub]
  BY <1>1, <1>2
<1>4. lock[req[d].sub] \in registered \ {req[d].op}
  BY <1>1, <1>3
<1>. QED  BY <1>1, <1>4 DEF OpInv, LockExcludes, At

\* ... and likewise if it takes no lock from nobody and leaves no session that is held.
LEMMA StaysHeld ==
  ASSUME LockHeld, \A s \in Subsystems : lock'[s] \in {lock[s], NoOne},
         \A s \in Subsystems : lock'[s] # NoOne => session'[lock'[s]] # "none"
  PROVE  LockHeld'
BY DEF LockHeld, Allowed

\* The first steps of the handlers, and those that only mark time.
LEMMA AsksInv ==
  ASSUME OpInv, NEW c \in Clients, NEW o \in Ops, NEW s \in Subsystems
  PROVE  /\ Register(c, o) => OpInv'
         /\ \A pc \in {"connect", "heartbeat", "acquire", "release", "force"} : Identify(c, o, s, pc) => OpInv'
         /\ \A target \in Ops : AskDelete(c, o, target) => OpInv'
         /\ Command(c, o, s) => OpInv'
<1>. OpTypeOK /\ LockHeld /\ LockExcludes
  BY DEF OpInv
<1>0. Served.sub \in Subsystems
  BY ServedType
<1>1. ASSUME Register(c, o) PROVE OpInv'
  <2>1. OpTypeOK'
    BY <1>0, <1>1, GotoType DEF Register, OpTypeOK
  <2>2. LockHeld'
    BY <1>1 DEF Register, LockHeld, Allowed
  <2>3. LockExcludes'
    <3>. SUFFICES ASSUME NEW d \in Clients, req'[d].pc = "effect",
                         lock'[req'[d].sub] \in registered' \ {req'[d].op}
                  PROVE  req'[d].early
      BY DEF LockExcludes, At
    <3>1. req'[d] = req[d] /\ req[d].sub \in Subsystems
      BY <1>0, <1>1, GotoType DEF Register, OpTypeOK
    <3>2. lock[req[d].sub] # o
      BY <1>1, <3>1, OperatorAssumption DEF Register, LockHeld
    <3>3. lock[req[d].sub] \in registered \ {req[d].op}
      BY <1>1, <3>1, <3>2 DEF Register
    <3>. QED  BY <3>1, <3>3 DEF LockExcludes, At
  <2>. QED  BY <2>1, <2>2, <2>3 DEF OpInv
<1>2. ASSUME NEW pc \in {"connect", "heartbeat", "acquire", "release", "force"}, Identify(c, o, s, pc) PROVE OpInv'
  <2>1. OpTypeOK'
    BY <1>2, GotoType DEF Identify, OpTypeOK
  <2>2. LockHeld'
    BY <1>2 DEF Identify, LockHeld, Allowed
  <2>3. LockExcludes'
    BY <1>2, <2>1, GotoType, KeepsOut DEF Identify
  <2>. QED  BY <2>1, <2>2, <2>3 DEF OpInv
<1>3. ASSUME NEW target \in Ops, AskDelete(c, o, target) PROVE OpInv'
  <2>1. OpTypeOK'
    BY <1>0, <1>3, GotoType DEF AskDelete, OpTypeOK
  <2>2. LockHeld'
    BY <1>3 DEF AskDelete, LockHeld, Allowed
  <2>3. LockExcludes'
    BY <1>0, <1>3, <2>1, GotoType, KeepsOut DEF AskDelete
  <2>. QED  BY <2>1, <2>2, <2>3 DEF OpInv
<1>4. ASSUME Command(c, o, s) PROVE OpInv'
  <2>1. OpTypeOK'
    BY <1>4, GotoType DEF Command, OpTypeOK
  <2>2. LockHeld'
    BY <1>4 DEF Command, LockHeld, Allowed
  <2>3. ASSUME registered = {} PROVE LockExcludes'
    BY <1>4, <2>3 DEF Command, LockExcludes
  <2>4. ASSUME registered # {} PROVE LockExcludes'
    BY <1>4, <2>1, <2>4, GotoType, KeepsOut DEF Command
  <2>. QED  BY <2>1, <2>2, <2>3, <2>4 DEF OpInv
<1>. QED  BY <1>1, <1>2, <1>3, <1>4

\* The second steps, which act on the session manager.
LEMMA ActsInv ==
  ASSUME OpInv, NEW c \in Clients
  PROVE  /\ Connect(c) => OpInv'
         /\ Heartbeat(c) => OpInv'
         /\ AcquireLock(c) => OpInv'
         /\ ReleaseLock(c) => OpInv'
         /\ ForceReleaseLock(c) => OpInv'
         /\ Delete(c) => OpInv'
         /\ Disconnect(c) => OpInv'
         /\ CheckLock(c) => OpInv'
         /\ Effect(c) => OpInv'
<1>. OpTypeOK /\ LockHeld /\ LockExcludes
  BY DEF OpInv
<1>0. /\ req[c].op \in Ops \cup {NoOne} /\ req[c].sub \in Subsystems
      /\ Served.sub \in Subsystems
  BY ServedType DEF OpTypeOK
<1>1. ASSUME Connect(c) PROVE OpInv'
  <2>1. OpTypeOK'
    BY <1>1, AnswerType DEF Connect, OpTypeOK
  <2>2. \A s \in Subsystems : lock'[s] # NoOne => session'[lock'[s]] # "none"
    BY <1>1 DEF Connect, LockHeld, OpTypeOK
  <2>3. LockHeld'
    BY <1>1, <2>2, StaysHeld DEF Connect
  <2>4. LockExcludes'
    BY <1>1, <2>1, AnswerType, KeepsOut DEF Connect
  <2>. QED  BY <2>1, <2>3, <2>4 DEF OpInv
<1>2. ASSUME Heartbeat(c) PROVE OpInv'
  <2>1. OpTypeOK'
    BY <1>2, AnswerType DEF Heartbeat, OpTypeOK
  <2>2. \A s \in Subsystems : lock'[s] # NoOne => session'[lock'[s]] # "none"
    BY <1>2 DEF Heartbeat, LockHeld, OpTypeOK
  <2>3. LockHeld'
    BY <1>2, <2>2, StaysHeld DEF Heartbeat
  <2>4. LockExcludes'
    BY <1>2, <2>1, AnswerType, KeepsOut DEF Heartbeat
  <2>. QED  BY <2>1, <2>3, <2>4 DEF OpInv
<1>3. ASSUME AcquireLock(c) PROVE OpInv'
  <2>. DEFINE o == req[c].op
              s == req[c].sub
  <2>1. ASSUME session[o] # "none", Allowed(o, s), lock[s] = NoOne PROVE OpInv'
    <3>1. lock' = [lock EXCEPT ![s] = o] /\ Granted(c, o, s) /\ UNCHANGED <<registered, session>>
      BY <1>3, <2>1 DEF AcquireLock
    <3>2. OpTypeOK'
      BY <1>0, <3>1, ServedType DEF Granted, OpTypeOK
    <3>3. LockHeld'
      BY <1>0, <2>1, <3>1 DEF LockHeld, Allowed, OpTypeOK
    <3>4. ASSUME NEW d \in Clients, req'[d].pc = "effect",
                 lock'[req'[d].sub] \in registered' \ {req'[d].op}
          PROVE  req'[d].early
      <4>1. d # c
        BY <3>1, <3>4, ServedType DEF Granted
      <4>2. /\ req'[d].pc = req[d].pc /\ req'[d].op = req[d].op /\ req'[d].sub = req[d].sub
            /\ req'[d].early = (req[d].early \/ (req[d].pc = "effect" /\ req[d].sub = s /\ req[d].op # o))
            /\ req[d].sub \in Subsystems /\ req[d].early \in BOOLEAN
        BY <3>1, <4>1 DEF Granted, At, OpTypeOK
      <4>3. CASE req[d].sub = s
        BY <1>0, <3>1, <3>4, <4>2, <4>3 DEF OpTypeOK
      <4>4. CASE req[d].sub # s
        <5>1. lock[req[d].sub] \in registered \ {req[d].op}
          BY <3>1, <3>4, <4>2, <4>4 DEF OpTypeOK
        <5>. QED  BY <3>4, <4>2, <5>1 DEF LockExcludes, At
      <4>. QED  BY <4>3, <4>4
    <3>5. LockExcludes'
      BY <3>4 DEF LockExcludes, At
    <3>. QED  BY <3>2, <3>3, <3>5 DEF OpInv
  <2>2. ASSUME ~ (session[o] # "none" /\ Allowed(o, s) /\ lock[s] = NoOne) PROVE OpInv'
    <3>1. UNCHANGED <<registered, session, lock>> /\ Answer(c)
      BY <1>3, <2>2 DEF AcquireLock
    <3>2. OpTypeOK'
      BY <3>1, AnswerType DEF OpTypeOK
    <3>3. LockHeld'
      BY <3>1 DEF LockHeld, Allowed
    <3>4. LockExcludes'
      BY <3>1, <3>2, AnswerType, KeepsOut
    <3>. QED  BY <3>2, <3>3, <3>4 DEF OpInv
  <2>. QED  BY <2>1, <2>2
<1>4. ASSUME ReleaseLock(c) PROVE OpInv'
  <2>1. OpTypeOK'
    BY <1>0, <1>4, AnswerType DEF ReleaseLock, OpTypeOK
  <2>2. \A s \in Subsystems : lock'[s] \in {lock[s], NoOne}
    BY <1>0, <1>4 DEF ReleaseLock, OpTypeOK
  <2>3. LockHeld'
    BY <1>4, <2>2, StaysHeld DEF ReleaseLock, LockHeld
  <2>4. LockExcludes'
    BY <1>4, <2>1, <2>2, AnswerType, KeepsOut DEF ReleaseLock
  <2>. QED  BY <2>1, <2>3, <2>4 DEF OpInv
<1>5. ASSUME ForceReleaseLock(c) PROVE OpInv'
  <2>1. OpTypeOK'
    BY <1>0, <1>5, AnswerType DEF ForceReleaseLock, OpTypeOK
  <2>2. \A s \in Subsystems : lock'[s] \in {lock[s], NoOne}
    BY <1>0, <1>5 DEF ForceReleaseLock, OpTypeOK
  <2>3. LockHeld'
    BY <1>5, <2>2, StaysHeld DEF ForceReleaseLock, LockHeld
  <2>4. LockExcludes'
    BY <1>5, <2>1, <2>2, AnswerType, KeepsOut DEF ForceReleaseLock
  <2>. QED  BY <2>1, <2>3, <2>4 DEF OpInv
<1>6. ASSUME Delete(c) PROVE OpInv'
  <2>1. OpTypeOK' /\ registered' \subseteq registered /\ req'[c].pc # "effect"
        /\ \A d \in Clients \ {c} : req'[d] = req[d]
    BY <1>0, <1>6, GotoType, AnswerType DEF Delete, OpTypeOK
  <2>2. LockHeld'
    BY <1>6 DEF Delete, LockHeld, Allowed
  <2>3. LockExcludes'
    BY <1>6, <2>1, KeepsOut DEF Delete
  <2>. QED  BY <2>1, <2>2, <2>3 DEF OpInv
<1>7. ASSUME Disconnect(c) PROVE OpInv'
  <2>1. OpTypeOK'
    BY <1>7, AnswerType DEF Disconnect, Forget, OpTypeOK
  <2>2. \A s \in Subsystems : lock'[s] \in {lock[s], NoOne}
    BY <1>7 DEF Disconnect, Forget
  <2>3. \A s \in Subsystems : lock'[s] # NoOne => session'[lock'[s]] # "none"
    BY <1>7 DEF Disconnect, Forget, LockHeld, OpTypeOK
  <2>4. LockHeld'
    BY <2>2, <2>3, StaysHeld
  <2>5. LockExcludes'
    BY <1>7, <2>1, <2>2, AnswerType, KeepsOut DEF Disconnect
  <2>. QED  BY <2>1, <2>4, <2>5 DEF OpInv
<1>8. ASSUME CheckLock(c) PROVE OpInv'
  <2>1. OpTypeOK'
    BY <1>0, <1>8, GotoType, AnswerType DEF CheckLock, OpTypeOK
  <2>2. LockHeld'
    BY <1>8 DEF CheckLock, LockHeld, Allowed
  <2>3. ASSUME lock[req[c].sub] \in {NoOne, req[c].op} PROVE LockExcludes'
    <3>1. /\ \A d \in Clients \ {c} : req'[d] = req[d]
          /\ req'[c].op = req[c].op /\ req'[c].sub = req[c].sub
          /\ UNCHANGED <<registered, lock>>
      BY <1>0, <1>8, <2>3, GotoType DEF CheckLock
    <3>. SUFFICES ASSUME NEW d \in Clients, req'[d].pc = "effect",
                         lock'[req'[d].sub] \in registered' \ {req'[d].op}
                  PROVE  req'[d].early
      BY DEF LockExcludes, At
    <3>2. d # c
      BY <2>3, <3>1, OperatorAssumption DEF OpTypeOK
    <3>. QED  BY <3>1, <3>2 DEF LockExcludes, At
  <2>4. ASSUME lock[req[c].sub] \notin {NoOne, req[c].op} PROVE LockExcludes'
    BY <1>8, <2>1, <2>4, AnswerType, KeepsOut DEF CheckLock
  <2>. QED  BY <2>1, <2>2, <2>3, <2>4 DEF OpInv
<1>9. ASSUME Effect(c) PROVE OpInv'
  <2>1. OpTypeOK'
    BY <1>9, AnswerType DEF Effect, OpTypeOK
  <2>2. LockHeld'
    BY <1>9 DEF Effect, LockHeld, Allowed
  <2>3. LockExcludes'
    BY <1>9, <2>1, AnswerType, KeepsOut DEF Effect
  <2>. QED  BY <2>1, <2>2, <2>3 DEF OpInv
<1>. QED  BY <1>1, <1>2, <1>3, <1>4, <1>5, <1>6, <1>7, <1>8, <1>9

\* Time, the cleanup loop and a crash.
LEMMA TimeInv ==
  ASSUME OpInv
  PROVE  /\ \A o \in Ops : Age(o) => OpInv'
         /\ Cleanup => OpInv'
         /\ OpRestart => OpInv'
         /\ UNCHANGED opVars => OpInv'
<1>. OpTypeOK /\ LockHeld /\ LockExcludes
  BY DEF OpInv
<1>1. ASSUME NEW o \in Ops, Age(o) PROVE OpInv'
  <2>1. OpTypeOK'
    BY <1>1 DEF Age, OpTypeOK
  <2>2. LockHeld'
    BY <1>1 DEF Age, LockHeld, Allowed, OpTypeOK
  <2>3. LockExcludes'
    BY <1>1 DEF Age, LockExcludes, At
  <2>. QED  BY <2>1, <2>2, <2>3 DEF OpInv
<1>2. ASSUME Cleanup PROVE OpInv'
  <2>1. OpTypeOK'
    BY <1>2 DEF Cleanup, Forget, OpTypeOK
  <2>2. \A s \in Subsystems : lock'[s] \in {lock[s], NoOne}
    BY <1>2 DEF Cleanup, Forget
  <2>3. \A s \in Subsystems : lock'[s] # NoOne => session'[lock'[s]] # "none"
    BY <1>2 DEF Cleanup, Forget, LockHeld, OpTypeOK
  <2>4. LockHeld'
    BY <2>2, <2>3, StaysHeld
  <2>5. LockExcludes'
    <3>1. registered' = registered /\ req' = req
      BY <1>2 DEF Cleanup
    <3>2. ASSUME NEW d \in Clients, At(d, "effect"), lock'[req[d].sub] \in registered \ {req[d].op}
          PROVE  req[d].early
      <4>1. req[d].sub \in Subsystems /\ lock'[req[d].sub] # NoOne
        BY <3>2, OperatorAssumption DEF OpTypeOK
      <4>. QED  BY <2>2, <3>2, <4>1 DEF LockExcludes
    <3>. QED  BY <3>1, <3>2 DEF LockExcludes, At
  <2>. QED  BY <2>1, <2>4, <2>5 DEF OpInv
<1>3. ASSUME OpRestart PROVE OpInv'
  <2>1. OpTypeOK'
    BY <1>3, ServedType DEF OpRestart, OpTypeOK
  <2>2. LockHeld'
    BY <1>3 DEF OpRestart, LockHeld
  <2>3. LockExcludes'
    BY <1>3, ServedType DEF OpRestart, LockExcludes, At
  <2>. QED  BY <2>1, <2>2, <2>3 DEF OpInv
<1>4. ASSUME UNCHANGED opVars PROVE OpInv'
  BY <1>4 DEF opVars, OpInv, OpTypeOK, LockHeld, LockExcludes, Allowed, At
<1>. QED  BY <1>1, <1>2, <1>3, <1>4

LEMMA OpStep == OpInv /\ OpNext => OpInv'
<1>. SUFFICES ASSUME OpInv, OpNext PROVE OpInv'
  OBVIOUS
<1>1. ASSUME NEW c \in Clients, NEW o \in Ops,
             \/ Register(c, o)
             \/ \E target \in Ops : AskDelete(c, o, target)
             \/ \E s \in Subsystems :
                  \/ Command(c, o, s)
                  \/ \E pc \in {"connect", "heartbeat", "acquire", "release", "force"} : Identify(c, o, s, pc)
      PROVE  OpInv'
  <2>1. CASE Register(c, o) \/ \E target \in Ops : AskDelete(c, o, target)
    <3>. PICK s \in Subsystems : TRUE
      BY ServedType
    <3>. QED  BY <2>1, AsksInv
  <2>2. CASE \E s \in Subsystems :
               \/ Command(c, o, s)
               \/ \E pc \in {"connect", "heartbeat", "acquire", "release", "force"} : Identify(c, o, s, pc)
    BY <2>2, AsksInv
  <2>. QED  BY <1>1, <2>1, <2>2
<1>2. ASSUME NEW c \in Clients,
             \/ Connect(c) \/ Heartbeat(c) \/ AcquireLock(c) \/ ReleaseLock(c) \/ ForceReleaseLock(c)
             \/ Delete(c) \/ Disconnect(c) \/ CheckLock(c)
      PROVE  OpInv'
  BY <1>2, ActsInv
<1>3. CASE (\E o \in Ops : Age(o)) \/ Cleanup
  BY <1>3, TimeInv
<1>. QED  BY <1>1, <1>2, <1>3 DEF OpNext
-----------------------------------------------------------------------------
(* Macros                                                                  *)

LEMMA FirstStep == 1 \in 1 .. MaxSteps + 1
BY RunAssumption

LEMMA NotRunningType ==
  /\ NotRunning \in [pc : {"none"}, step : 1 .. MaxSteps + 1, cancelled : {FALSE}]
  /\ [NotRunning EXCEPT !.pc = "started"] \in [pc : {"started"}, step : 1 .. MaxSteps + 1, cancelled : {FALSE}]
BY FirstStep DEF NotRunning

LEMMA MacroInitInv == MacroInit => MacroInv
<1>. SUFFICES ASSUME MacroInit PROVE MacroInv
  OBVIOUS
<1>1. MacroTypeOK
  BY NotRunningType DEF MacroInit, MacroTypeOK
<1>2. MacroAlone /\ CancelIsLast /\ StepsBounded
  BY DEF MacroInit, MacroAlone, CancelIsLast, StepsBounded, Active, NotRunning
<1>. QED  BY <1>1, <1>2 DEF MacroInv

LEMMA HandlersInv ==
  ASSUME MacroInv
  PROVE  /\ RunMacro => MacroInv'
         /\ Dismiss => MacroInv'
         /\ CancelMacro => MacroInv'
         /\ MacroRestart => MacroInv'
         /\ UNCHANGED macroVars => MacroInv'
<1>. MacroTypeOK /\ MacroAlone /\ CancelIsLast /\ StepsBounded
  BY DEF MacroInv
<1>1. ASSUME RunMacro PROVE MacroInv'
  <2>1. PICK r \in Runs \ (Executing \cup cancelling \cup {macroCancel, macroGen}) :
          /\ macroState' = "running" /\ macroCancel' = r /\ macroGen' = r
          /\ run' = [run EXCEPT ![r] = [NotRunning EXCEPT !.pc = "started"]]
          /\ UNCHANGED <<cancelling, dismissed>>
    BY <1>1 DEF RunMacro
  <2>2. MacroTypeOK'
    BY <2>1, NotRunningType DEF MacroTypeOK
  <2>3. MacroAlone'
    <3>. SUFFICES ASSUME ~ dismissed PROVE MacroAlone'
      BY <2>1 DEF MacroAlone
    <3>1. Active = {}
      BY <1>1 DEF RunMacro, MacroAlone
    <3>2. \A q \in Active' : q = r
      BY <2>1, <3>1 DEF Active, MacroTypeOK
    <3>3. r \in Executing'
      BY <2>1 DEF Executing, MacroTypeOK, NotRunning
    <3>. QED  BY <2>1, <3>2, <3>3 DEF MacroAlone
  <2>4. StepsBounded'
    BY <2>1, NotRunningType DEF StepsBounded, MacroTypeOK
  <2>. QED  BY <2>1, <2>2, <2>3, <2>4 DEF MacroInv, CancelIsLast
<1>2. ASSUME Dismiss PROVE MacroInv'
  <2>1. MacroTypeOK'
    BY <1>2 DEF Dismiss, MacroTypeOK, Executing
  <2>2. MacroAlone'
    BY <1>2 DEF Dismiss, MacroAlone, Active, Executing
  <2>. QED  BY <1>2, <2>1, <2>2 DEF MacroInv, CancelIsLast, StepsBounded, Dismiss
<1>3. ASSUME CancelMacro PROVE MacroInv'
  BY <1>3 DEF CancelMacro, MacroInv, MacroTypeOK, MacroAlone, CancelIsLast, StepsBounded, Active, Executing
<1>4. ASSUME MacroRestart PROVE MacroInv'
  <2>1. MacroTypeOK'
    BY <1>4, NotRunningType DEF MacroRestart, MacroTypeOK
  <2>2. MacroAlone' /\ CancelIsLast' /\ StepsBounded'
    BY <1>4 DEF MacroRestart, MacroAlone, CancelIsLast, StepsBounded, Active, NotRunning
  <2>. QED  BY <2>1, <2>2 DEF MacroInv
<1>5. ASSUME UNCHANGED macroVars PROVE MacroInv'
  BY <1>5 DEF macroVars, MacroInv, MacroTypeOK, MacroAlone, CancelIsLast, StepsBounded, Active, Executing
<1>. QED  BY <1>1, <1>2, <1>3, <1>4, <1>5

\* A run that moves on with the state as the running one's leaves things as they are:
\* it could act before the step, and it was the one that is running.
LEMMA KeepsAlone ==
  ASSUME MacroInv, NEW r \in Runs, r \in Active, UNCHANGED <<macroCancel, macroGen, dismissed>>,
         \A q \in Runs \ {r} : run'[q] = run[q],
         \/ macroState' = "running" /\ run'[r].pc # "none"
         \/ macroState' = "stopped" /\ run'[r].pc = "returned"
  PROVE  MacroAlone'
<1>. SUFFICES ASSUME ~ dismissed PROVE MacroAlone'
  BY DEF MacroAlone
<1>1. macroCancel = r /\ macroGen = r
  BY RunAssumption DEF MacroInv, MacroAlone, CancelIsLast, MacroTypeOK
<1>2. \A q \in Active : q = r
  BY <1>1 DEF MacroInv, MacroAlone
<1>3. \A q \in Active' : q = r
  BY <1>2 DEF Active
<1>4. CASE macroState' = "running" /\ run'[r].pc # "none"
  BY <1>1, <1>3, <1>4 DEF MacroAlone, Executing
<1>5. CASE macroState' = "stopped" /\ run'[r].pc = "returned"
  <2>1. Active' = {}
    BY <1>3, <1>5 DEF Active
  <2>. QED  BY <1>5, <2>1 DEF MacroAlone
<1>. QED  BY <1>4, <1>5

\* A run changes its own record alone, and neither is another's cancel function kept.
LEMMA RunsInv ==
  ASSUME MacroInv, NEW r \in Runs
  PROVE  /\ CancelRun(r) => MacroInv'
         /\ Proceed(r) => MacroInv'
         /\ StepDone(r) => MacroInv'
<1>. MacroTypeOK /\ MacroAlone /\ CancelIsLast /\ StepsBounded
  BY DEF MacroInv
<1>1. ASSUME CancelRun(r) PROVE MacroInv'
  <2>1. MacroTypeOK'
    BY <1>1 DEF CancelRun, MacroTypeOK
  <2>2. \A q \in Runs : run'[q].pc = run[q].pc
    BY <1>1 DEF CancelRun, MacroTypeOK
  <2>3. MacroAlone'
    BY <1>1, <2>2 DEF CancelRun, MacroAlone, Active, Executing
  <2>. QED  BY <1>1, <2>1, <2>3 DEF MacroInv, CancelIsLast, StepsBounded, CancelRun, MacroTypeOK
<1>2. ASSUME NEW pc \in {"ready", "acting", "waiting", "returned"},
             NEW state \in {"running", "stopped"}, state = "stopped" => pc = "returned",
             pc \in {"acting", "waiting"} => run[r].step <= MaxSteps, r \in Active, Notify(r, pc, state)
      PROVE  MacroInv'
  <2>1. MacroTypeOK'
    BY <1>2 DEF Notify, MacroTypeOK
  <2>2. MacroAlone'
    BY <1>2, KeepsAlone DEF Notify, MacroTypeOK
  <2>. QED  BY <1>2, <2>1, <2>2 DEF MacroInv, CancelIsLast, StepsBounded, Notify, MacroTypeOK
<1>3. ASSUME Begin(r) \/ StepBegin(r) \/ WaitCut(r) \/ Finish(r) \/ StepFailed(r) PROVE MacroInv'
  <2>1. r \in Active
    BY <1>3 DEF Begin, StepBegin, WaitCut, Finish, StepFailed, Active
  <2>. QED  BY <1>2, <1>3, <2>1 DEF Begin, StepBegin, WaitCut, Finish, StepFailed
<1>4. ASSUME StepDone(r) PROVE MacroInv'
  <2>1. r \in Active
    BY <1>4 DEF StepDone, Active
  <2>2. run[r].step \in 1 .. MaxSteps
    BY <1>4, RunAssumption DEF StepDone, StepsBounded, MacroTypeOK
  <2>3. MacroTypeOK'
    BY <1>4, <2>2, RunAssumption DEF StepDone, MacroTypeOK
  <2>4. MacroAlone'
    BY <1>4, <2>1, KeepsAlone DEF StepDone, MacroTypeOK
  <2>. QED  BY <1>4, <2>3, <2>4 DEF MacroInv, CancelIsLast, StepsBounded, StepDone, MacroTypeOK
<1>5. ASSUME Complete(r) PROVE MacroInv'
  <2>1. MacroTypeOK'
    BY <1>5, NotRunningType DEF Complete, MacroTypeOK
  <2>2. MacroAlone'
    <3>. SUFFICES ASSUME ~ dismissed PROVE MacroAlone'
      BY <1>5 DEF Complete, MacroAlone
    <3>1. Active' = Active
      BY <1>5 DEF Complete, Active, MacroTypeOK, NotRunning
    <3>2. ASSUME macroGen = r PROVE MacroAlone'
      <4>1. \A q \in Active : q = r
        BY <3>2, RunAssumption DEF MacroAlone, CancelIsLast, MacroTypeOK, Active
      <4>2. Active = {}
        BY <1>5, <4>1 DEF Complete, Active
      <4>. QED  BY <1>5, <3>1, <3>2, <4>2 DEF Complete, MacroAlone
    <3>3. ASSUME macroGen # r PROVE MacroAlone'
      <4>1. Executing' = Executing \ {r}
        BY <1>5 DEF Complete, Executing, MacroTypeOK, NotRunning
      <4>. QED  BY <1>5, <3>1, <3>3, <4>1 DEF Complete, MacroAlone
    <3>. QED  BY <3>2, <3>3
  <2>3. CancelIsLast' /\ StepsBounded'
    BY <1>5 DEF Complete, CancelIsLast, StepsBounded, MacroTypeOK, NotRunning
  <2>. QED  BY <2>1, <2>2, <2>3 DEF MacroInv
<1>. QED  BY <1>1, <1>3, <1>4, <1>5 DEF Proceed

LEMMA InitInv == Init => OpInv /\ MacroInv
BY OpInitInv, MacroInitInv DEF Init

LEMMA StepInv == OpInv /\ MacroInv /\ [Next]_vars => (OpInv /\ MacroInv)'
<1>. SUFFICES ASSUME OpInv, MacroInv, [Next]_vars PROVE OpInv' /\ MacroInv'
  OBVIOUS
<1>1. CASE OpNext /\ UNCHANGED macroVars
  BY <1>1, OpStep, HandlersInv
<1>2. ASSUME NEW c \in Clients, Handle(c) PROVE OpInv' /\ MacroInv'
  BY <1>2, ActsInv, HandlersInv DEF Handle
<1>3. ASSUME NEW r \in Runs, (Proceed(r) \/ StepDone(r) \/ CancelRun(r)) /\ UNCHANGED opVars
      PROVE  OpInv' /\ MacroInv'
  BY <1>3, TimeInv, RunsInv
<1>4. CASE Restart
  BY <1>4, TimeInv, HandlersInv DEF Restart
<1>5. CASE UNCHANGED vars
  BY <1>5, TimeInv, HandlersInv DEF vars
<1>. QED  BY <1>1, <1>2, <1>3, <1>4, <1>5 DEF Next

LEMMA Invariance == Spec => [](OpInv /\ MacroInv)
BY InitInv, StepInv, PTL DEF Spec
-----------------------------------------------------------------------------
(* The properties                                                          *)

\* Every variable of the control plane keeps its type, over crashes too.
THEOREM Typing == Spec => []TypeOK
<1>1. OpInv /\ MacroInv => TypeOK
  BY DEF OpInv, MacroInv, TypeOK
<1>. QED  BY <1>1, Invariance, PTL

\* A lock is always held by an operator with a session and a role that may hold it,
\* however registrations, deletions, cleanups and reconnections fall between the two
\* steps of other requests.
THEOREM LocksAreHeld == Spec => []LockHeld
<1>1. OpInv /\ MacroInv => LockHeld
  BY DEF OpInv
<1>. QED  BY <1>1, Invariance, PTL

\* No command takes effect on a subsystem that another registered operator has locked,
\* unless the command was past its check when the lock was granted.
THEOREM LocksExclude == Spec => []LockExcludes
<1>1. OpInv /\ MacroInv => LockExcludes
  BY DEF OpInv
<1>. QED  BY <1>1, Invariance, PTL

\* Macros that are not dismissed while they run exclude one another, and the state
\* of the API and its cancel function are those of the one that runs.
THEOREM MacrosAlone == Spec => []MacroAlone
<1>1. OpInv /\ MacroInv => MacroAlone
  BY DEF MacroInv
<1>. QED  BY <1>1, Invariance, PTL
=============================================================================
