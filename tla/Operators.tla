----------------------------- MODULE Operators -----------------------------
(***************************************************************************)
(* Operators, their sessions and the locks on subsystems (server/operator):*)
(* the store of registered operators, the session manager with its cleanup *)
(* loop, the handlers of the API that use both (control/api_operator.go)   *)
(* and the middleware every command passes (middleware.go).                *)
(*                                                                         *)
(* A handler identifies its operator by token in one critical section of   *)
(* the store and acts in another of the session manager; whatever else     *)
(* happens in between, it acts on the copy of the operator that it has.    *)
(* The program may crash at any time: the store is on disk, the sessions   *)
(* and the locks are not.                                                  *)
(***************************************************************************)
EXTENDS Integers, FiniteSets

CONSTANTS
  Clients,         \* goroutines serving requests
  Ops,             \* operator ids; generateID never returns one that is in use
  Directors,       \* those registered with the role director,
  AudioOperators,  \* ... and with the role audio; the others only view
  Subsystems,      \* what may be locked
  NoOne            \* no operator

ASSUME OperatorAssumption ==
  /\ NoOne \notin Ops /\ Directors \subseteq Ops /\ AudioOperators \subseteq Ops \ Directors
  /\ Subsystems \subseteq {"switching", "audio"} /\ Subsystems # {}

VARIABLES
  registered,  \* Store.operators, the same in memory as in its file
  session,     \* SessionManager.sessions, and whether LastSeen is older than staleTimeout
  lock,        \* SessionManager.locks: the holder
  req          \* per client: the request under way

opVars == <<registered, session, lock, req>>

\* early is history: the lock on sub was granted to another after this command's check.
Served == [pc |-> "idle", op |-> NoOne, sub |-> CHOOSE s \in Subsystems : TRUE, early |-> FALSE]

OpTypeOK ==
  /\ registered \subseteq Ops
  /\ session \in [Ops -> {"none", "fresh", "stale"}]
  /\ lock \in [Subsystems -> Ops \cup {NoOne}]
  /\ req \in [Clients -> [pc : {"idle", "connect", "heartbeat", "acquire", "release", "force",
                                "delete", "disconnect", "check", "effect"},
                          op : Ops \cup {NoOne}, sub : Subsystems, early : BOOLEAN]]

OpInit ==
  /\ registered = {}
  /\ session = [o \in Ops |-> "none"]
  /\ lock = [s \in Subsystems |-> NoOne]
  /\ req = [c \in Clients |-> Served]

\* rolePermissions and roleLockable are the same table.
Allowed(o, s) == o \in Directors \/ (o \in AudioOperators /\ s = "audio")

Goto(c, pc, o, s) == req' = [req EXCEPT ![c] = [Served EXCEPT !.pc = pc, !.op = o, !.sub = s]]
Answer(c) == req' = [req EXCEPT ![c] = Served]
At(c, pc) == req[c].pc = pc
-----------------------------------------------------------------------------
(* The first step of each handler: the store                               *)

\* handleOperatorRegister; a failed write of the file changes nothing.
Register(c, o) ==
  /\ At(c, "idle") /\ o \notin registered /\ session[o] = "none" /\ \A d \in Clients : req[d].op # o
  /\ registered' = registered \cup {o}
  /\ Goto(c, "connect", o, Served.sub)
  /\ UNCHANGED <<session, lock>>

\* GetByToken, for a handler that goes on with the session manager.
Identify(c, o, s, pc) ==
  /\ At(c, "idle") /\ o \in registered
  /\ pc \in {"connect", "heartbeat"} => s = Served.sub
  /\ Goto(c, pc, o, s)
  /\ UNCHANGED <<registered, session, lock>>

\* handleOperatorDelete: oneself, or as a director anybody.
AskDelete(c, o, target) ==
  /\ At(c, "idle") /\ o \in registered /\ (o = target \/ o \in Directors)
  /\ Goto(c, "delete", target, Served.sub)
  /\ UNCHANGED <<registered, session, lock>>

\* NewMiddleware: anybody may command while no operator is registered.
Command(c, o, s) ==
  /\ At(c, "idle")
  /\ IF registered = {} THEN Goto(c, "effect", NoOne, s)
                        ELSE o \in registered /\ Allowed(o, s) /\ Goto(c, "check", o, s)
  /\ UNCHANGED <<registered, session, lock>>
-----------------------------------------------------------------------------
(* The second step: the session manager                                    *)

Connect(c) ==
  /\ At(c, "connect")
  /\ session' = [session EXCEPT ![req[c].op] = "fresh"]
  /\ Answer(c)
  /\ UNCHANGED <<registered, lock>>

Heartbeat(c) ==
  /\ At(c, "heartbeat")
  /\ session' = [session EXCEPT ![req[c].op] = IF @ = "none" THEN @ ELSE "fresh"]
  /\ Answer(c)
  /\ UNCHANGED <<registered, lock>>

\* Who has passed the check by now will take effect in spite of the lock.
Granted(c, o, s) ==
  req' = [d \in Clients |->
            IF d = c THEN Served
            ELSE [req[d] EXCEPT !.early = @ \/ (At(d, "effect") /\ req[d].sub = s /\ req[d].op # o)]]

\* Mutant: the session is not asked for.
AcquireLock_NoSession(c) ==
  /\ At(c, "acquire")
  /\ LET o == req[c].op
         s == req[c].sub
     IN IF Allowed(o, s) /\ lock[s] = NoOne
          THEN lock' = [lock EXCEPT ![s] = o] /\ Granted(c, o, s)
          ELSE UNCHANGED lock /\ Answer(c)
  /\ UNCHANGED <<registered, session>>

\* An answer other than success changes nothing; neither does locking again.
AcquireLock(c) ==
  /\ At(c, "acquire")
  /\ LET o == req[c].op
         s == req[c].sub
     IN IF session[o] # "none" /\ Allowed(o, s) /\ lock[s] = NoOne
          THEN lock' = [lock EXCEPT ![s] = o] /\ Granted(c, o, s)
          ELSE UNCHANGED lock /\ Answer(c)
  /\ UNCHANGED <<registered, session>>

ReleaseLock(c) ==
  /\ At(c, "release")
  /\ lock' = [lock EXCEPT ![req[c].sub] = IF @ = req[c].op THEN NoOne ELSE @]
  /\ Answer(c)
  /\ UNCHANGED <<registered, session>>

ForceReleaseLock(c) ==
  /\ At(c, "force")
  /\ lock' = IF session[req[c].op] # "none" /\ req[c].op \in Directors
               THEN [lock EXCEPT ![req[c].sub] = NoOne] ELSE lock
  /\ Answer(c)
  /\ UNCHANGED <<registered, session>>

\* releaseAllLocks and the sessions of the operators gone.
Forget(gone) ==
  /\ session' = [o \in Ops |-> IF o \in gone THEN "none" ELSE session[o]]
  /\ lock' = [s \in Subsystems |-> IF lock[s] \in gone THEN NoOne ELSE lock[s]]

\* Store.Delete; it fails when the operator is gone already or the file cannot be written.
Delete(c) ==
  /\ At(c, "delete")
  /\ \/ /\ req[c].op \in registered
        /\ registered' = registered \ {req[c].op}
        /\ Goto(c, "disconnect", req[c].op, Served.sub)
     \/ UNCHANGED registered /\ Answer(c)
  /\ UNCHANGED <<session, lock>>

Disconnect(c) ==
  /\ At(c, "disconnect")
  /\ Forget({req[c].op})
  /\ Answer(c)
  /\ UNCHANGED registered

\* Mutant: the middleware forgets the lock.
CheckLock_Forgotten(c) ==
  /\ At(c, "check")
  /\ Goto(c, "effect", req[c].op, req[c].sub)
  /\ UNCHANGED <<registered, session, lock>>

CheckLock(c) ==
  /\ At(c, "check")
  /\ IF lock[req[c].sub] \in {NoOne, req[c].op} THEN Goto(c, "effect", req[c].op, req[c].sub) ELSE Answer(c)
  /\ UNCHANGED <<registered, session, lock>>

\* The handler of the command runs.
Effect(c) == At(c, "effect") /\ Answer(c) /\ UNCHANGED <<registered, session, lock>>
-----------------------------------------------------------------------------
\* staleTimeout passes without a heartbeat.
Age(o) ==
  /\ session[o] = "fresh"
  /\ session' = [session EXCEPT ![o] = "stale"]
  /\ UNCHANGED <<registered, lock, req>>

\* Mutant: the locks of a stale session stay.
Cleanup_KeepsLocks ==
  /\ \E o \in Ops : session[o] = "stale"
  /\ session' = [o \in Ops |-> IF session[o] = "stale" THEN "none" ELSE session[o]]
  /\ UNCHANGED <<registered, lock, req>>

\* cleanupStaleSessions
Cleanup ==
  /\ \E o \in Ops : session[o] = "stale"
  /\ Forget({o \in Ops : session[o] = "stale"})
  /\ UNCHANGED <<registered, req>>

\* A crash and a new start: NewStore reads the file, everything else begins anew.
OpRestart ==
  /\ session' = [o \in Ops |-> "none"]
  /\ lock' = [s \in Subsystems |-> NoOne]
  /\ req' = [c \in Clients |-> Served]
  /\ UNCHANGED registered

\* Every step of operators but the effect of a command and a crash.
OpNext ==
  \/ \E c \in Clients :
       \/ \E o \in Ops :
            \/ Register(c, o)
            \/ \E target \in Ops : AskDelete(c, o, target)
            \/ \E s \in Subsystems :
                 \/ Command(c, o, s)
                 \/ \E pc \in {"connect", "heartbeat", "acquire", "release", "force"} : Identify(c, o, s, pc)
       \/ Connect(c) \/ Heartbeat(c) \/ AcquireLock(c) \/ ReleaseLock(c) \/ ForceReleaseLock(c)
       \/ Delete(c) \/ Disconnect(c) \/ CheckLock(c)
  \/ \E o \in Ops : Age(o)
  \/ Cleanup

\* Time passes and the ticker of the cleanup loop fires; requests may hang.
OpFairness == (\A o \in Ops : WF_opVars(Age(o))) /\ WF_opVars(Cleanup)
-----------------------------------------------------------------------------
\* A lock is held by an operator with a session, which the cleanup loop watches, and
\* with a role that may lock; deleting, going stale and reconnecting keep it so.
LockHeld ==
  \A s \in Subsystems : lock[s] # NoOne => session[lock[s]] # "none" /\ Allowed(lock[s], s)

\* While an operator holds a lock no command of another takes effect on the subsystem,
\* but one that was past its check when the lock was granted (CheckLock and the command
\* are two steps).  The lock of a deleted operator binds nobody when none is left.
LockExcludes ==
  \A c \in Clients :
    At(c, "effect") /\ lock[req[c].sub] \in registered \ {req[c].op} => req[c].early

\* A lock that an operator got while being deleted (its request had been identified
\* before) does not stay: its session gets no more heartbeats and goes stale.
DeletedUnlocked ==
  \A s \in Subsystems, o \in Ops : (lock[s] = o /\ o \notin registered) ~> lock[s] # o
=============================================================================
