----------------------------- MODULE SRTCaller -----------------------------
(***************************************************************************)
(* An SRT output in caller mode (server/output/srt_caller.go): the writer  *)
(* that pushes transport stream packets to a remote receiver, the loop     *)
(* that reconnects in the background, and Close.                           *)
(*                                                                         *)
(* Threads: one writer (the drain goroutine of the adapter's AsyncAdapter, *)
(* or the CBR pacer), the reconnect loops, and the manager's Start and     *)
(* Close.  c.mu guards conn; the state and the flags are atomics, read and *)
(* written one at a time.  The ring buffer is left out: a reconnection     *)
(* throws its contents away.                                               *)
(***************************************************************************)
EXTENDS FiniteSets

CONSTANTS
  Conns,        \* connections; one is reused when nothing refers to it
  NoConn,       \* the nil connection
  Loops,        \* goroutines that may run reconnectLoop
  CallerPaced   \* TRUE: the CBR pacer writes, and Close does not wait for it

ASSUME ConnAssumption == NoConn \notin Conns
ASSUME CallerPacedAssumption == CallerPaced \in BOOLEAN

VARIABLES
  state,         \* c.state
  conn,          \* c.conn
  open,          \* the connections that have not been closed
  fresh,         \* connections of a reconnection over which nothing was sent yet
  cancelled,     \* c.ctx is done
  reconnecting,  \* c.reconnecting
  pendingIDR,    \* c.pendingIDR
  removed,       \* the manager no longer hands packets to this adapter
  sender,        \* the writer: the Write under way
  loop           \* per goroutine: reconnectLoop

callerVars == <<state, conn, open, fresh, cancelled, reconnecting, pendingIDR, removed, sender, loop>>

NoWrite == [pc |-> "idle", packet |-> "delta", conn |-> NoConn, late |-> FALSE]
Gone == [pc |-> "gone", conn |-> NoConn]

CallerTypeOK ==
  /\ state \in {"new", "active", "reconnecting", "stopped"}
  /\ conn \in Conns \cup {NoConn} /\ open \in SUBSET Conns /\ fresh \in SUBSET Conns
  /\ cancelled \in BOOLEAN /\ reconnecting \in BOOLEAN
  /\ pendingIDR \in BOOLEAN /\ removed \in BOOLEAN
  /\ sender \in [pc : {"idle", "call", "gate", "conn", "send", "failed", "spawn"},
                 packet : {"key", "delta"}, conn : Conns \cup {NoConn}, late : BOOLEAN]
  /\ loop \in [Loops -> [pc : {"gone", "check", "wait", "dial", "install", "gate", "announce",
                               "notify", "leave"}, conn : Conns \cup {NoConn}]]
  /\ sender.pc = "send" => sender.conn # NoConn
  /\ \A l \in Loops : loop[l].conn # NoConn <=> loop[l].pc = "install"

CallerInit ==
  /\ state = "new" /\ conn = NoConn /\ open = {} /\ fresh = {}
  /\ cancelled = FALSE /\ reconnecting = FALSE /\ pendingIDR = FALSE /\ removed = FALSE
  /\ sender = NoWrite
  /\ loop = [l \in Loops |-> Gone]
-----------------------------------------------------------------------------
\* A new connection is one that nobody refers to.
Unused(n) == n \notin open /\ n # conn /\ n # sender.conn /\ \A l \in Loops : loop[l].conn # n

\* go c.reconnectLoop()
Spawned ==
  {[loop EXCEPT ![l] = [pc |-> "check", conn |-> NoConn]] : l \in {k \in Loops : loop[k].pc = "gone"}}

\* Start dials with c.mu held; a failure is left to the reconnect loop.
StartCaller ==
  /\ state = "new"
  /\ \/ /\ \E n \in Conns : Unused(n) /\ conn' = n /\ open' = open \cup {n}
        /\ state' = "active"
        /\ UNCHANGED <<reconnecting, loop>>
     \/ /\ state' = "reconnecting" /\ reconnecting' = TRUE
        /\ loop' \in Spawned
        /\ UNCHANGED <<conn, open>>
  /\ UNCHANGED <<fresh, cancelled, pendingIDR, removed, sender>>

\* The manager takes the adapter off the list and, unless the pacer writes, waits for
\* the drain goroutine to finish.
Remove ==
  /\ state # "new" /\ ~ removed
  /\ removed' = TRUE
  /\ UNCHANGED <<state, conn, open, fresh, cancelled, reconnecting, pendingIDR, sender, loop>>

CloseCaller ==
  /\ removed /\ ~ cancelled
  /\ CallerPaced \/ sender.pc = "idle"
  /\ cancelled' = TRUE
  /\ open' = open \ {conn} /\ conn' = NoConn
  /\ state' = "stopped"
  /\ UNCHANGED <<fresh, reconnecting, pendingIDR, removed, sender, loop>>
-----------------------------------------------------------------------------
(* Write *)

WriteCall(packet) ==
  /\ sender.pc = "idle" /\ state # "new" /\ ~ removed
  /\ sender' = [NoWrite EXCEPT !.pc = "call", !.packet = packet]
  /\ UNCHANGED <<state, conn, open, fresh, cancelled, reconnecting, pendingIDR, removed, loop>>

\* The state is read; while reconnecting the packet goes to the ring buffer.
WriteState ==
  /\ sender.pc = "call"
  /\ sender' = IF state = "active" THEN [sender EXCEPT !.pc = "gate"] ELSE NoWrite
  /\ UNCHANGED <<state, conn, open, fresh, cancelled, reconnecting, pendingIDR, removed, loop>>

\* Mutant: the first packet opens the gate, whatever it is.
WriteGate_AnyPacket ==
  /\ sender.pc = "gate"
  /\ sender' = [sender EXCEPT !.pc = "conn"] /\ pendingIDR' = FALSE
  /\ UNCHANGED <<state, conn, open, fresh, cancelled, reconnecting, removed, loop>>

\* After a reconnection only a key frame, or the lapse of idrGateTimeout, opens the gate.
WriteGate ==
  /\ sender.pc = "gate"
  /\ \/ pendingIDR /\ sender.packet = "delta" /\ sender' = NoWrite /\ UNCHANGED pendingIDR
     \/ /\ pendingIDR /\ sender.packet = "delta" /\ pendingIDR' = FALSE
        /\ sender' = [sender EXCEPT !.pc = "conn", !.late = TRUE]
     \/ /\ pendingIDR /\ sender.packet = "key" /\ pendingIDR' = FALSE
        /\ sender' = [sender EXCEPT !.pc = "conn"]
     \/ ~ pendingIDR /\ sender' = [sender EXCEPT !.pc = "conn"] /\ UNCHANGED pendingIDR
  /\ UNCHANGED <<state, conn, open, fresh, cancelled, reconnecting, removed, loop>>

WriteConn ==
  /\ sender.pc = "conn"
  /\ sender' = IF conn = NoConn THEN NoWrite ELSE [sender EXCEPT !.pc = "send", !.conn = conn]
  /\ UNCHANGED <<state, conn, open, fresh, cancelled, reconnecting, pendingIDR, removed, loop>>

WriteSent ==
  /\ sender.pc = "send" /\ sender.conn \in open
  /\ fresh' = fresh \ {sender.conn}
  /\ sender' = NoWrite
  /\ UNCHANGED <<state, conn, open, cancelled, reconnecting, pendingIDR, removed, loop>>

\* The remote end is gone, or the connection was closed meanwhile.
WriteFailed ==
  /\ sender.pc = "send"
  /\ state' = "reconnecting"
  /\ sender' = [sender EXCEPT !.pc = "spawn", !.conn = NoConn]
  /\ UNCHANGED <<conn, open, fresh, cancelled, reconnecting, pendingIDR, removed, loop>>

\* Mutant: the flag is set without a look at it.
WriteSpawn_Always ==
  /\ sender.pc = "spawn"
  /\ sender' = NoWrite
  /\ reconnecting' = TRUE /\ loop' \in Spawned
  /\ UNCHANGED <<state, conn, open, fresh, cancelled, pendingIDR, removed>>

\* CompareAndSwap: a loop that is still on its way out counts as a running one.
WriteSpawn ==
  /\ sender.pc = "spawn"
  /\ sender' = NoWrite
  /\ IF reconnecting THEN UNCHANGED <<reconnecting, loop>>
                     ELSE reconnecting' = TRUE /\ loop' \in Spawned
  /\ UNCHANGED <<state, conn, open, fresh, cancelled, pendingIDR, removed>>
-----------------------------------------------------------------------------
(* reconnectLoop *)

At(l, pc) == loop[l].pc = pc
Goto(l, pc) == loop' = [loop EXCEPT ![l].pc = pc]

\* Mutant: the context is not looked at.
LoopWait_Deaf(l) ==
  /\ \/ At(l, "check") /\ Goto(l, "wait")
     \/ At(l, "wait") /\ Goto(l, "dial")
  /\ UNCHANGED <<state, conn, open, fresh, cancelled, reconnecting, pendingIDR, removed, sender>>

\* The context is looked at before the backoff and during it.
LoopWait(l) ==
  /\ At(l, "check") \/ At(l, "wait")
  /\ \/ cancelled /\ Goto(l, "leave")
     \/ At(l, "check") /\ ~ cancelled /\ Goto(l, "wait")
     \/ At(l, "wait") /\ Goto(l, "dial")     \* select may take either when both are ready
  /\ UNCHANGED <<state, conn, open, fresh, cancelled, reconnecting, pendingIDR, removed, sender>>

\* connectFn gets the context: once that is done it fails, unless it had succeeded.
LoopDialFailed(l) ==
  /\ At(l, "dial") /\ Goto(l, "check")
  /\ UNCHANGED <<state, conn, open, fresh, cancelled, reconnecting, pendingIDR, removed, sender>>

LoopDialed(l) ==
  /\ At(l, "dial") /\ ~ cancelled
  /\ \E n \in Conns :
       /\ Unused(n)
       /\ loop' = [loop EXCEPT ![l] = [pc |-> "install", conn |-> n]]
       /\ open' = open \cup {n} /\ fresh' = fresh \cup {n}
  /\ UNCHANGED <<state, conn, cancelled, reconnecting, pendingIDR, removed, sender>>

\* Mutant: the old connection is not closed.
LoopInstall_KeepsOld(l) ==
  /\ At(l, "install")
  /\ conn' = loop[l].conn /\ loop' = [loop EXCEPT ![l] = [pc |-> "gate", conn |-> NoConn]]
  /\ UNCHANGED <<state, open, fresh, cancelled, reconnecting, pendingIDR, removed, sender>>

\* Mutant: the old connection is closed but stays the current one.
LoopInstall_NotTaken(l) ==
  /\ At(l, "install")
  /\ open' = open \ {conn} /\ loop' = [loop EXCEPT ![l] = [pc |-> "gate", conn |-> NoConn]]
  /\ UNCHANGED <<state, conn, fresh, cancelled, reconnecting, pendingIDR, removed, sender>>

LoopInstall(l) ==
  /\ At(l, "install")
  /\ open' = open \ {conn}
  /\ conn' = loop[l].conn
  /\ loop' = [loop EXCEPT ![l] = [pc |-> "gate", conn |-> NoConn]]
  /\ UNCHANGED <<state, fresh, cancelled, reconnecting, pendingIDR, removed, sender>>

LoopGate(l) ==
  /\ At(l, "gate") /\ Goto(l, "announce")
  /\ pendingIDR' = TRUE
  /\ UNCHANGED <<state, conn, open, fresh, cancelled, reconnecting, removed, sender>>

LoopAnnounce(l) ==
  /\ At(l, "announce") /\ Goto(l, "notify")
  /\ state' = "active"
  /\ UNCHANGED <<conn, open, fresh, cancelled, reconnecting, pendingIDR, removed, sender>>

\* onReconnect waits for the manager's mutex; only then does the deferred store run.
LoopNotify(l) ==
  /\ At(l, "notify") /\ Goto(l, "leave")
  /\ UNCHANGED <<state, conn, open, fresh, cancelled, reconnecting, pendingIDR, removed, sender>>

LoopLeave(l) ==
  /\ At(l, "leave") /\ loop' = [loop EXCEPT ![l] = Gone]
  /\ reconnecting' = FALSE
  /\ UNCHANGED <<state, conn, open, fresh, cancelled, pendingIDR, removed, sender>>

Loop(l) == \/ LoopWait(l) \/ LoopDialFailed(l) \/ LoopDialed(l) \/ LoopInstall(l)
           \/ LoopGate(l) \/ LoopAnnounce(l) \/ LoopNotify(l) \/ LoopLeave(l)

CallerWrite ==
  \/ \E packet \in {"key", "delta"} : WriteCall(packet)
  \/ WriteState \/ WriteGate \/ WriteConn \/ WriteSent \/ WriteFailed \/ WriteSpawn

CallerNext == StartCaller \/ Remove \/ CloseCaller \/ CallerWrite \/ \E l \in Loops : Loop(l)

CallerSpec == CallerInit /\ [][CallerNext]_callerVars

\* A loop runs on, and the manager, once it has taken the adapter off, closes it.  The
\* network is no worse than this: of dials tried again and again one succeeds.
CallerFairSpec ==
  /\ CallerSpec
  /\ WF_callerVars(CloseCaller) /\ WF_callerVars(CallerWrite)
  /\ \A l \in Loops : WF_callerVars(Loop(l)) /\ SF_callerVars(LoopDialed(l))
-----------------------------------------------------------------------------
Running(l) == loop[l].pc # "gone"

\* At most one reconnect loop runs, and the flag says whether one does (the
\* compare-and-swap that guards against duplicate reconnect goroutines).
OneLoop ==
  /\ \A k, l \in Loops : Running(k) /\ Running(l) => k = l
  /\ reconnecting = \E l \in Loops : Running(l)

\* No connection is left open that neither the adapter nor the loop holds.
ConnectionsHeld == open \subseteq {conn} \cup {loop[l].conn : l \in Loops}

\* Until it is closed, an adapter that says it is active has an open connection, so
\* that no packet is dropped for want of one.
ActiveConnected == state = "active" /\ ~ cancelled => conn \in open

\* The first packet over a new connection is a key frame, or the wait for one was
\* given up: the remote decoder is never fed the rest of an old picture group.
KeyframeFirst ==
  [][sender.pc = "send" /\ fresh' # fresh => sender.packet = "key" \/ sender.late]_callerVars

\* Close ends the reconnect loop.
LoopStops == cancelled ~> \A l \in Loops : ~ Running(l)

\* A lost connection is made again, or the adapter is closed.
Recovers == state = "reconnecting" ~> (state = "active" \/ cancelled)

\* A closed adapter is stopped and holds no connection.
CloseReleases == cancelled => state = "stopped" /\ open = {}
=============================================================================
