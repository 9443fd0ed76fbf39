-------------------------- MODULE LifecycleProofs --------------------------
(***************************************************************************)
(* Proofs about Lifecycle, for every number of connections and signals.    *)
(***************************************************************************)
EXTENDS Lifecycle, TLAPS

\* The loops run over four providers; which one is where.
LEMMA Places ==
    /\ Len(Providers) = 4 /\ DOMAIN Providers = 1..4 /\ Len(Closing) = 4
    /\ \A i \in 1..4 : (Providers[i] = "Cache" <=> i = 2) /\ (Providers[i] = "TypeORM" <=> i = 3)
                       /\ (Providers[i] = "Http" <=> i = 4)
    /\ \A i \in 1..4 : (Closing[i] = "Cache" <=> i = 3) /\ (Closing[i] = "Http" <=> i = 1)
<1>1. /\ Len(Providers) = 4 /\ DOMAIN Providers = 1..4
      /\ Providers[1] = "Bootstrap" /\ Providers[2] = "Cache" /\ Providers[3] = "TypeORM" /\ Providers[4] = "Http"
  BY DEF Providers
<1>2. /\ Closing = [i \in 1..4 |-> Providers[5 - i]]
      /\ Len(Closing) = 4
  BY <1>1 DEF Closing
<1>. QED  BY <1>1, <1>2

\* The invariant holds when the process starts.
LEMMA InitInv == Init => IInv
<1>. SUFFICES ASSUME Init PROVE IInv
  OBVIOUS
<1>1. TypeOK
  <2>1. at \in DOMAIN Providers
    BY Places DEF Init
  <2>. QED  BY <2>1 DEF Init, TypeOK
<1>2. Opened
  BY DEF Init, Opened
<1>3. Served
  BY DEF Init, Served, Before, Quiet
<1>4. Told
  BY DEF Init, Told, Before
<1>. QED  BY <1>1, <1>2, <1>3, <1>4 DEF IInv

(***************************************************************************)
(* The loops of bootstrap.                                                 *)
(***************************************************************************)

\* Where the loop stands after one more provider.
LEMMA LoopMoves ==
    ASSUME at \in 1..4, NEW phaseAfter, NextProvider(phaseAfter)
    PROVE  (at < 4 /\ phase' = phase /\ at' = at + 1) \/ (at = 4 /\ phase' = phaseAfter /\ at' = 1)
BY Places DEF NextProvider

\* Registering the next provider keeps the invariant.
LEMMA RegisterInv == ASSUME IInv, Register PROVE IInv'
<1>1. TypeOK /\ Opened /\ Served /\ Told /\ at \in 1..4
  BY Places DEF IInv, TypeOK
<1>2. (at < 4 /\ phase' = "register" /\ at' = at + 1) \/ (at = 4 /\ phase' = "boot" /\ at' = 1)
  BY <1>1, LoopMoves DEF Register
<1>3. phase = "register" /\ redis' \in BOOLEAN /\ (redis' <=> redis \/ at = 2)
  BY <1>1, Places DEF Register, ConnectCache, TypeOK
<1>4. UNCHANGED <<producer, armed, shuttingDown, timer, db, listening, conn, behind, exit>>
  BY DEF Register, traffic
<1>5. TypeOK'
  BY <1>1, <1>2, <1>3, <1>4, Places DEF TypeOK
<1>6. Opened'
  BY <1>1, <1>2, <1>3, <1>4 DEF Opened
<1>7. Served'
  BY <1>1, <1>2, <1>3, <1>4 DEF Served, Before, Quiet
<1>8. Told'
  BY <1>1, <1>2, <1>3, <1>4 DEF Told, Before
<1>. QED  BY <1>5, <1>6, <1>7, <1>8 DEF IInv

\* Booting the next provider keeps the invariant, the port taken or not.
LEMMA BootInv == ASSUME IInv, Boot PROVE IInv'
<1>1. TypeOK /\ Opened /\ Served /\ Told /\ at \in 1..4
  BY Places DEF IInv, TypeOK
<1>2. (at < 4 /\ phase' = "boot" /\ at' = at + 1) \/ (at = 4 /\ phase' = "serve" /\ at' = 1)
  BY <1>1, LoopMoves DEF Boot
<1>3. phase = "boot" /\ db' \in BOOLEAN /\ (db' <=> db \/ at = 3)
  BY <1>1, Places DEF Boot, InitializeDataSource, TypeOK
<1>4. listening' \in BOOLEAN /\ (listening' => producer /\ at = 4)
  BY <1>1, Places DEF Boot, Listen, TypeOK
<1>5. UNCHANGED <<producer, shuttingDown, timer, redis, conn, behind, exit>>
  BY DEF Boot, traffic
<1>6. armed' \subseteq Signals /\ (phase' # "serve" => armed' = {})
  BY DEF Boot
<1>7. TypeOK'
  BY <1>1, <1>2, <1>3, <1>4, <1>5, <1>6, Places DEF TypeOK
<1>8. Opened'
  BY <1>1, <1>2, <1>3, <1>5 DEF Opened
<1>9. Served'
  BY <1>1, <1>2, <1>3, <1>4, <1>5 DEF Served, Before, Quiet
<1>10. Told'
  BY <1>1, <1>2, <1>3, <1>5, <1>6 DEF Told, Before
<1>. QED  BY <1>7, <1>8, <1>9, <1>10 DEF IInv

(***************************************************************************)
(* Signals, closing and the end of the process.                            *)
(***************************************************************************)

\* What calling a close leaves: only HttpProvider's stops the server, and it drops the idle
\* connections; only CacheProvider's disconnects Redis.
LEMMA CloseCalled ==
    ASSUME TypeOK, NEW i \in 1..4, CallClose(Closing[i])
    PROVE  /\ listening' \in BOOLEAN /\ (listening' <=> listening /\ i # 1)
           /\ redis' \in BOOLEAN /\ (redis' <=> redis /\ i # 3)
           /\ db' = db
           /\ conn' \in [Connections -> {"none", "idle", "busy"}]
           /\ \A c \in Connections : conn'[c] = IF i = 1 /\ conn[c] = "idle" THEN "none" ELSE conn[c]
<1>1. Closing[i] = "Cache" <=> i = 3
  BY Places
<1>2. Closing[i] = "Http" <=> i = 1
  BY Places
<1>3. listening' \in BOOLEAN /\ (listening' <=> listening /\ i # 1)
  BY <1>2 DEF CallClose, StopListening
<1>4. redis' \in BOOLEAN /\ (redis' <=> redis /\ i # 3)
  BY <1>1 DEF CallClose, DisconnectCache
<1>5. conn' = [c \in Connections |-> IF i = 1 /\ conn[c] = "idle" THEN "none" ELSE conn[c]]
  BY <1>2 DEF CallClose, StopListening
<1>6. conn' \in [Connections -> {"none", "idle", "busy"}]
  BY <1>5 DEF TypeOK
<1>. QED  BY <1>3, <1>4, <1>5, <1>6 DEF CallClose

\* A signal keeps the invariant, whichever of its three meanings it has.
LEMMA SignalInv == ASSUME IInv, NEW s \in Signals, Signal(s) PROVE IInv'
<1>1. TypeOK /\ Opened /\ Served /\ Told
  BY DEF IInv
<1>2. UNCHANGED <<producer, behind>>
  BY DEF Signal
<1>3. CASE Unhandled(s)
  <2>1. UNCHANGED <<phase, at, armed, shuttingDown, timer, redis, db, listening, conn>> /\ exit' = "killed"
    BY <1>3 DEF Unhandled, control, resources
  <2>2. TypeOK'
    BY <1>1, <1>2, <2>1 DEF TypeOK
  <2>3. Opened'
    BY <1>1, <2>1 DEF Opened
  <2>4. Served'
    BY <1>1, <1>2, <2>1 DEF Served, Before, Quiet
  <2>5. Told'
    BY <1>1, <2>1 DEF Told, Before
  <2>. QED  BY <2>2, <2>3, <2>4, <2>5 DEF IInv
<1>4. CASE StartClosing(s)
  <2>1. phase = "serve" /\ redis /\ db
    BY <1>1, <1>4 DEF StartClosing, Told, TypeOK, Before, Opened
  <2>2. /\ phase' = "closing" /\ at' = 1
        /\ armed' = armed \ {s} /\ shuttingDown' = TRUE /\ timer' = TRUE /\ exit' = exit
    BY <1>4 DEF StartClosing
  <2>3. /\ listening' \in BOOLEAN /\ ~listening'
        /\ redis' \in BOOLEAN /\ redis'
        /\ db' = db
        /\ conn' \in [Connections -> {"none", "idle", "busy"}]
        /\ \A c \in Connections : conn'[c] = IF conn[c] = "idle" THEN "none" ELSE conn[c]
    BY <1>1, <1>4, <2>1, CloseCalled DEF StartClosing
  <2>4. TypeOK'
    BY <1>1, <1>2, <2>2, <2>3, Places DEF TypeOK
  <2>5. Opened'
    BY <2>1, <2>2, <2>3 DEF Opened
  <2>6. Served'
    BY <1>1, <1>2, <2>1, <2>2, <2>3 DEF Served, Before, Quiet
  <2>7. Told'
    BY <2>2 DEF Told, Before
  <2>. QED  BY <2>4, <2>5, <2>6, <2>7 DEF IInv
<1>5. CASE AlreadyClosing(s)
  <2>1. /\ UNCHANGED <<phase, at, shuttingDown, timer, redis, db, listening, conn, exit>>
        /\ armed' \subseteq armed
    BY <1>5 DEF AlreadyClosing, resources
  <2>2. TypeOK'
    BY <1>1, <1>2, <2>1 DEF TypeOK
  <2>3. Opened'
    BY <1>1, <2>1 DEF Opened
  <2>4. Served'
    BY <1>1, <1>2, <2>1 DEF Served, Before, Quiet
  <2>5. Told'
    BY <1>1, <2>1 DEF Told, Before
  <2>. QED  BY <2>2, <2>3, <2>4, <2>5 DEF IInv
<1>. QED  BY <1>3, <1>4, <1>5 DEF Signal

\* The close that was awaited returns: the next one is called with nobody connected, or
\* the loop is over.
LEMMA CloseReturnsInv == ASSUME IInv, CloseReturns PROVE IInv'
<1>1. TypeOK /\ Opened /\ Served /\ Told /\ at \in 1..4
  BY Places DEF IInv, TypeOK
<1>2. phase = "closing" /\ exit = "alive" /\ UNCHANGED <<producer, armed, shuttingDown, behind, exit>>
  BY DEF CloseReturns, Alive
<1>3. Quiet /\ ~listening
  BY <1>1, <1>2, Places DEF CloseReturns, Served, Quiet, TypeOK
<1>4. CASE at < 4
  <2>1. at' = at + 1 /\ phase' = "closing" /\ timer' = timer /\ CallClose(Closing[at + 1])
    BY <1>2, <1>4, Places DEF CloseReturns
  <2>2. /\ listening' \in BOOLEAN /\ ~listening'
        /\ redis' \in BOOLEAN /\ (redis' <=> redis /\ at + 1 # 3)
        /\ db' = db
        /\ conn' \in [Connections -> {"none", "idle", "busy"}] /\ Quiet'
    <3>1. at + 1 \in 1..4
      BY <1>1, <1>4
    <3>. QED  BY <1>1, <1>3, <2>1, <3>1, CloseCalled DEF Quiet
  <2>3. TypeOK'
    BY <1>1, <1>2, <1>4, <2>1, <2>2, Places DEF TypeOK
  <2>4. Opened'
    BY <1>1, <1>2, <1>4, <2>1, <2>2 DEF Opened
  <2>5. Served'
    BY <1>1, <1>2, <2>1, <2>2 DEF Served, Before
  <2>6. Told'
    BY <1>1, <1>2, <2>1 DEF Told, Before
  <2>. QED  BY <1>2, <2>3, <2>4, <2>5, <2>6 DEF IInv
<1>5. CASE at = 4
  <2>1. phase' = "closed" /\ timer' = FALSE /\ UNCHANGED <<at, redis, db, listening, conn>>
    BY <1>5, Places DEF CloseReturns, resources
  <2>2. TypeOK'
    BY <1>1, <1>2, <2>1 DEF TypeOK
  <2>3. Opened'
    BY <1>1, <1>2, <1>5, <2>1 DEF Opened
  <2>4. Served'
    BY <1>1, <1>2, <1>3, <2>1 DEF Served, Before, Quiet
  <2>5. Told'
    BY <1>1, <1>2, <2>1 DEF Told, Before
  <2>. QED  BY <1>2, <2>2, <2>3, <2>4, <2>5 DEF IInv
<1>. QED  BY <1>1, <1>4, <1>5

\* The three ways to end that only change exit.
LEMMA EndInv == ASSUME IInv, BootstrapFails \/ ForceExit \/ Drain PROVE IInv'
<1>1. TypeOK /\ Opened /\ Served /\ Told
  BY DEF IInv
<1>2. UNCHANGED <<producer, phase, at, armed, shuttingDown, timer, redis, db, listening, conn, behind>>
  BY DEF BootstrapFails, ForceExit, Drain, control, resources, traffic
<1>3. exit' \in {"failed", "forced", "drained"}
  BY DEF BootstrapFails, ForceExit, Drain
<1>4. TypeOK'
  BY <1>1, <1>2, <1>3 DEF TypeOK
<1>5. Opened'
  BY <1>1, <1>2 DEF Opened
<1>6. Served'
  BY <1>1, <1>2 DEF Served, Before, Quiet
<1>7. Told'
  BY <1>1, <1>2 DEF Told, Before
<1>. QED  BY <1>4, <1>5, <1>6, <1>7 DEF IInv

(***************************************************************************)
(* Traffic.                                                                *)
(***************************************************************************)

\* What clients, and the work left running, do.
Traffic(c) == Connect(c) \/ Reuse(c) \/ Respond(c) \/ HangUp(c) \/ Settle(c) \/ Disconnect(c)

\* Traffic keeps the invariant: a connection begins only while the server listens, and work
\* is left behind only by a connection that was there.
LEMMA TrafficInv == ASSUME IInv, NEW c \in Connections, Traffic(c) PROVE IInv'
<1>1. TypeOK /\ Opened /\ Served /\ Told
  BY DEF IInv
<1>2. /\ UNCHANGED <<producer, phase, at, armed, shuttingDown, timer, redis, db, listening, exit>>
      /\ exit = "alive"
  BY DEF Traffic, Connect, Reuse, Respond, HangUp, Settle, Disconnect, control, resources, Alive
<1>3. behind' \subseteq Connections /\ conn' \in [Connections -> {"none", "idle", "busy"}]
  BY <1>1 DEF TypeOK, Traffic, Connect, Reuse, Respond, HangUp, Settle, Disconnect
<1>4. listening \/ conn[c] # "none" \/ (conn' = conn /\ behind' \subseteq behind)
  BY DEF Traffic, Connect, Reuse, Respond, HangUp, Settle, Disconnect
<1>5. conn[c] # "none" \/ behind' \subseteq behind
  BY DEF Traffic, Connect, Reuse, Respond, HangUp, Settle, Disconnect
<1>6. TypeOK'
  BY <1>1, <1>2, <1>3 DEF TypeOK
<1>7. Opened'
  BY <1>1, <1>2 DEF Opened
<1>8. Served'
  <2>1. CASE listening
    BY <1>1, <1>2, <2>1 DEF Served, Before
  <2>2. CASE conn[c] # "none"
    BY <1>1, <1>2, <2>2 DEF Served, Before, Quiet
  <2>3. CASE conn' = conn /\ behind' \subseteq behind
    BY <1>1, <1>2, <2>3 DEF Served, Before, Quiet
  <2>. QED  BY <1>4, <2>1, <2>2, <2>3
<1>9. Told'
  BY <1>1, <1>2 DEF Told, Before
<1>. QED  BY <1>2, <1>6, <1>7, <1>8, <1>9 DEF IInv

\* Every step keeps the invariant.
LEMMA StepInv == ASSUME IInv, [Next]_vars PROVE IInv'
<1>1. CASE UNCHANGED vars
  <2>1. TypeOK'
    BY <1>1 DEF IInv, vars, TypeOK
  <2>2. Opened'
    BY <1>1 DEF IInv, vars, Opened
  <2>3. Served'
    BY <1>1 DEF IInv, vars, Served, Before, Quiet
  <2>4. Told'
    BY <1>1 DEF IInv, vars, Told, Before
  <2>. QED  BY <2>1, <2>2, <2>3, <2>4 DEF IInv
<1>. QED  BY <1>1, RegisterInv, BootInv, SignalInv, CloseReturnsInv, EndInv, TrafficInv DEF Next, Traffic

\* At every moment of a process's life the resources that are open and the traffic there can
\* be are the ones its place in the loops allows.
THEOREM Invariant == Spec => []IInv
<1>. QED  BY InitInv, StepInv, PTL DEF Spec

-----------------------------------------------------------------------------
\* No request whose client waits runs without its database or its Redis client, and no work
\* left running without the database, for any number of connections and any signals.
THEOREM RequestsSafe == Spec => []RequestsHaveResources
<1>1. ASSUME IInv PROVE RequestsHaveResources
  <2>. SUFFICES ASSUME NEW c \in Connections, conn[c] = "busy" \/ c \in behind
                PROVE  db /\ (conn[c] = "busy" => redis)
    BY DEF RequestsHaveResources
  <2>1. TypeOK /\ Opened /\ Served /\ at \in 1..4
    BY <1>1, Places DEF IInv, TypeOK
  <2>2. CASE conn[c] = "busy"
    <3>1. phase = "serve" \/ (phase = "closing" /\ at = 1)
      BY <2>1, <2>2 DEF TypeOK, Served, Before, Quiet
    <3>. QED  BY <2>1, <3>1 DEF Opened
  <2>3. CASE c \in behind /\ conn[c] # "busy"
    <3>1. phase \in {"serve", "closing", "closed"}
      BY <2>1, <2>3 DEF TypeOK, Served, Before
    <3>. QED  BY <2>1, <2>3, <3>1 DEF Opened
  <2>. QED  BY <2>2, <2>3
<1>. QED  BY <1>1, Invariant, PTL

\* Closing, once begun, only goes on: no signal starts the loop over.
THEOREM ClosedOnce == Spec => ClosesOnce
<1>1. ASSUME IInv, [Next]_vars, phase \in {"closing", "closed"} PROVE StillOrDoneClosing
  <2>1. at \in 1..4 /\ shuttingDown
    BY <1>1, Places DEF IInv, TypeOK, Told
  <2>2. ~Register /\ ~Boot
    BY <1>1 DEF Register, Boot
  <2>3. ASSUME NEW s \in Signals, Signal(s) PROVE UNCHANGED <<phase, at>>
    BY <2>1, <2>3 DEF Signal, Unhandled, StartClosing, AlreadyClosing, control
  <2>4. CASE CloseReturns
    BY <2>1, <2>4 DEF CloseReturns, StillOrDoneClosing
  <2>5. ASSUME BootstrapFails \/ ForceExit \/ Drain PROVE UNCHANGED <<phase, at>>
    BY <2>5 DEF BootstrapFails, ForceExit, Drain, control
  <2>6. ASSUME NEW c \in Connections, Traffic(c) PROVE UNCHANGED <<phase, at>>
    BY <2>6 DEF Traffic, Connect, Reuse, Respond, HangUp, Settle, Disconnect, control
  <2>7. CASE UNCHANGED vars
    BY <2>1, <2>7 DEF vars, StillOrDoneClosing
  <2>8. UNCHANGED <<phase, at>> => StillOrDoneClosing
    BY <2>1 DEF StillOrDoneClosing
  <2>. QED  BY <1>1, <2>2, <2>3, <2>4, <2>5, <2>6, <2>7, <2>8 DEF Next, Traffic
<1>. QED  BY <1>1, Invariant, PTL DEF Spec, ClosesOnce
=============================================================================
