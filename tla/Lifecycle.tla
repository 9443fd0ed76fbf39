----------------------------- MODULE Lifecycle -----------------------------
(***************************************************************************)
(* One process of the service from start to end: MainApplication registers *)
(* and boots the providers of the Kernel in order, serves HTTP requests,   *)
(* and on a signal closes the providers in reverse order while a timer     *)
(* stands by to force the exit.  Nobody calls process.exit after an        *)
(* orderly shutdown: the process ends when nothing is left to wait for.    *)
(***************************************************************************)
EXTENDS Naturals, Sequences

CONSTANTS Connections, Signals

\* Kernel.providers, and closingProviders.reverse().
Providers == <<"Bootstrap", "Cache", "TypeORM", "Http">>
\* Mutant of Closing: the copy is not reversed.
ClosingForward == Providers
Closing == [i \in DOMAIN Providers |-> Providers[Len(Providers) + 1 - i]]

VARIABLES
    producer,   \* SERVER_TYPE allows the HTTP server
    phase,      \* "register", "boot", "serve", "closing" or "closed"
    at,         \* how far the phase has come in Providers, or in Closing
    armed,      \* signals whose process.once handler is installed and unused
    shuttingDown,
    timer,      \* the force-exit timer is set
    redis,      \* the Redis client is connected or connecting
    db,         \* the DataSource is initialized
    listening,  \* the HTTP server accepts connections
    conn,       \* each connection: "none", "idle" (kept alive) or "busy" with a request
    behind,     \* connections with work left running that no client waits for
    exit        \* "alive", or how the process ended

control == <<phase, at, armed, shuttingDown, timer>>
resources == <<redis, db, listening>>
traffic == <<conn, behind>>
vars == <<producer, phase, at, armed, shuttingDown, timer, redis, db, listening, conn, behind, exit>>

Alive == exit = "alive"

Init ==
    /\ producer \in BOOLEAN
    /\ phase = "register" /\ at = 1
    /\ armed = {} /\ shuttingDown = FALSE /\ timer = FALSE
    /\ redis = FALSE /\ db = FALSE /\ listening = FALSE
    /\ conn = [c \in Connections |-> "none"] /\ behind = {}
    /\ exit = "alive"

-----------------------------------------------------------------------------
(* bootstrap *)

\* Mutant of NextProvider: the loop runs one provider too far.
NextProviderTooFar(phaseAfter) ==
    IF at <= Len(Providers) THEN phase' = phase /\ at' = at + 1 ELSE phase' = phaseAfter /\ at' = 1
NextProvider(phaseAfter) ==
    IF at < Len(Providers) THEN phase' = phase /\ at' = at + 1 ELSE phase' = phaseAfter /\ at' = 1

\* The register and the boot that do more than create objects: CacheProvider.register
\* connects, TypeORMProvider.boot waits for the database, HttpProvider.boot starts to
\* listen. A port it cannot have is an uncaught exception, which is only logged.
ConnectCache         == redis' = (redis \/ Providers[at] = "Cache")
InitializeDataSource == db' = (db \/ Providers[at] = "TypeORM")
Listen               == listening' \in {FALSE, producer /\ Providers[at] = "Http"}

Register ==
    /\ Alive /\ phase = "register"
    /\ ConnectCache
    /\ NextProvider("boot")
    /\ UNCHANGED <<producer, armed, shuttingDown, timer, db, listening, traffic, exit>>

\* The signal handlers are installed when the last provider has booted.
Boot ==
    /\ Alive /\ phase = "boot"
    /\ InitializeDataSource /\ Listen
    /\ NextProvider("serve")
    /\ armed' = IF phase' = "serve" THEN Signals ELSE {}
    /\ UNCHANGED <<producer, shuttingDown, timer, redis, traffic, exit>>

\* Whatever register or boot throws ends the process.
BootstrapFails ==
    /\ Alive /\ phase \in {"register", "boot"}
    /\ exit' = "failed"
    /\ UNCHANGED <<producer, control, resources, traffic>>

-----------------------------------------------------------------------------
(* Signals and handleClose *)

\* What calling close of provider p does before it first waits: HttpProvider stops listening
\* and server.close() drops the connections that carry no request, CacheProvider disconnects,
\* and the others have no close of their own.
StopListening(p) ==
    /\ listening' = (listening /\ p # "Http")
    /\ conn' = [c \in Connections |-> IF p = "Http" /\ conn[c] = "idle" THEN "none" ELSE conn[c]]
DisconnectCache(p) == redis' = (redis /\ p # "Cache")
CallClose(p) == StopListening(p) /\ DisconnectCache(p) /\ UNCHANGED db

\* process.once: the handler of a signal runs at most once, and without one the signal
\* ends the process.
Unhandled(s) == s \notin armed /\ exit' = "killed" /\ UNCHANGED <<control, resources, conn>>

\* Mutants: closing starts over on every signal; no timer stands by.
CloseAgain(s) ==
    /\ s \in armed
    /\ armed' = armed \ {s} /\ shuttingDown' = TRUE /\ timer' = TRUE
    /\ phase' = "closing" /\ at' = 1
    /\ CallClose(Closing[1])
    /\ UNCHANGED exit
StartWithoutTimer(s) ==
    /\ s \in armed /\ ~shuttingDown
    /\ armed' = armed \ {s} /\ shuttingDown' = TRUE
    /\ phase' = "closing" /\ at' = 1
    /\ CallClose(Closing[1])
    /\ UNCHANGED <<timer, exit>>

StartClosing(s) ==
    /\ s \in armed /\ ~shuttingDown
    /\ armed' = armed \ {s} /\ shuttingDown' = TRUE /\ timer' = TRUE
    /\ phase' = "closing" /\ at' = 1
    /\ CallClose(Closing[1])
    /\ UNCHANGED exit

AlreadyClosing(s) ==
    /\ s \in armed /\ shuttingDown
    /\ armed' = armed \ {s}
    /\ UNCHANGED <<phase, at, shuttingDown, timer, resources, conn, exit>>

Signal(s) ==
    /\ Alive
    /\ Unhandled(s) \/ StartClosing(s) \/ AlreadyClosing(s)
    /\ UNCHANGED <<producer, behind>>

\* The close that handleClose awaits returns, HttpProvider's when the last connection is
\* gone, and the next one is called; after the last one the timer is cleared.
CloseReturns ==
    /\ Alive /\ phase = "closing"
    /\ Closing[at] = "Http" /\ producer => \A c \in Connections : conn[c] = "none"
    /\ \/ /\ at < Len(Closing)
          /\ at' = at + 1 /\ CallClose(Closing[at + 1])
          /\ UNCHANGED <<phase, timer>>
       \/ /\ at = Len(Closing)
          /\ phase' = "closed" /\ timer' = FALSE
          /\ UNCHANGED <<at, resources, conn>>
    /\ UNCHANGED <<producer, armed, shuttingDown, behind, exit>>

ForceExit ==
    /\ Alive /\ timer
    /\ exit' = "forced"
    /\ UNCHANGED <<producer, control, resources, traffic>>

\* Nothing is open and nothing runs, so the event loop ends: the pool drops its idle
\* connections by itself, although nobody destroys the DataSource.
Drain ==
    /\ Alive /\ phase = "closed" /\ ~redis /\ ~listening
    /\ behind = {} /\ \A c \in Connections : conn[c] = "none"
    /\ exit' = "drained"
    /\ UNCHANGED <<producer, control, resources, traffic>>

-----------------------------------------------------------------------------
(* Traffic *)
Connect(c) ==
    /\ Alive /\ listening /\ conn[c] = "none"
    /\ conn' = [conn EXCEPT ![c] = "busy"]
    /\ UNCHANGED <<producer, control, resources, behind, exit>>

\* A connection kept alive carries another request, also after the server stopped listening
\* while it was busy.
Reuse(c) ==
    /\ Alive /\ conn[c] = "idle"
    /\ conn' = [conn EXCEPT ![c] = "busy"]
    /\ UNCHANGED <<producer, control, resources, behind, exit>>

\* A request is answered; AuthService.issueTokenPair leaves an INSERT behind.
Respond(c) ==
    /\ Alive /\ conn[c] = "busy"
    /\ conn' = [conn EXCEPT ![c] = "idle"]
    /\ behind' \in {behind, behind \cup {c}}
    /\ UNCHANGED <<producer, control, resources, exit>>

\* The client gives up on a request whose handler runs on.
HangUp(c) ==
    /\ Alive /\ conn[c] = "busy"
    /\ conn' = [conn EXCEPT ![c] = "none"] /\ behind' = behind \cup {c}
    /\ UNCHANGED <<producer, control, resources, exit>>

\* The INSERT, or the handler nobody waits for, comes to its end.
Settle(c) ==
    /\ Alive /\ c \in behind
    /\ behind' = behind \ {c}
    /\ UNCHANGED <<producer, control, resources, conn, exit>>

\* The client, or the server's keep-alive timeout, ends an idle connection.
Disconnect(c) ==
    /\ Alive /\ conn[c] = "idle"
    /\ conn' = [conn EXCEPT ![c] = "none"]
    /\ UNCHANGED <<producer, control, resources, behind, exit>>

Next ==
    \/ Register \/ Boot \/ BootstrapFails
    \/ \E s \in Signals : Signal(s)
    \/ CloseReturns \/ ForceExit \/ Drain
    \/ \E c \in Connections : Connect(c) \/ Reuse(c) \/ Respond(c) \/ HangUp(c) \/ Settle(c) \/ Disconnect(c)

Spec == Init /\ [][Next]_vars

\* Timers fire, awaited promises continue, statements are answered and an event loop with
\* nothing to wait for ends; clients and the sender of signals owe nothing.
FairSpec ==
    /\ Spec
    /\ WF_vars(CloseReturns) /\ WF_vars(ForceExit) /\ WF_vars(Drain)
    /\ \A c \in Connections : WF_vars(Settle(c))

-----------------------------------------------------------------------------
\* Every part of the process has its type.
TypeOK ==
    /\ phase \in {"register", "boot", "serve", "closing", "closed"} /\ at \in DOMAIN Providers
    /\ armed \subseteq Signals
    /\ producer \in BOOLEAN /\ shuttingDown \in BOOLEAN /\ timer \in BOOLEAN
    /\ redis \in BOOLEAN /\ db \in BOOLEAN /\ listening \in BOOLEAN
    /\ conn \in [Connections -> {"none", "idle", "busy"}] /\ behind \subseteq Connections
    /\ exit \in {"alive", "drained", "failed", "forced", "killed"}

\* No request whose client waits, at whatever moment of a start or a shutdown it arrives,
\* runs without its database or its Redis client: they are opened before the server and
\* closed after it. Work that no client waits for may outlive Redis, never the database
\* (Kernel.providers, the loops of bootstrap, HttpProvider.close).
RequestsHaveResources ==
    \A c \in Connections : Alive /\ (conn[c] = "busy" \/ c \in behind) => db /\ (conn[c] = "busy" => redis)

\* What each phase has opened and has not closed yet. In the closing loop, place 1 is
\* HttpProvider's and place 3 CacheProvider's.
Before == {"register", "boot"}
Quiet == \A c \in Connections : conn[c] = "none"
Opened ==
    /\ phase = "register" => ~db /\ (at > 2 => redis)
    /\ phase = "boot" => redis /\ (at > 3 => db)
    /\ phase \in {"serve", "closing", "closed"} => db
    /\ phase = "serve" => redis
    /\ phase = "closing" => (redis <=> at < 3)
    /\ phase = "closed" => ~redis
Served ==
    /\ listening => producer /\ phase = "serve"
    /\ phase \in Before \cup {"closed"} \/ (phase = "closing" /\ at > 1) \/ ~producer => Quiet
    /\ phase \in Before \/ ~producer => behind = {}
Told ==
    /\ shuttingDown <=> phase \in {"closing", "closed"}
    /\ phase \in Before => armed = {}
    /\ timer <=> phase = "closing"

\* The inductive invariant: at every place of the three loops, which resources are open and
\* which traffic there can be, so that a request implies its resources, and closing, once
\* begun, is never begun again.
IInv == TypeOK /\ Opened /\ Served /\ Told

\* However many signals arrive, each provider is closed once: the loop never starts over.
StillOrDoneClosing ==
    \/ phase' = phase /\ at' >= at
    \/ phase = "closing" /\ phase' = "closed"
ClosesOnce == [][(phase \in {"closing", "closed"}) => StillOrDoneClosing]_vars

\* A process that was told to stop stops, even if its clients never let go.
ShutdownEnds == shuttingDown ~> ~Alive

\* "Shutdown already in progress. Ignoring ${signal}." (MainApplication.bootstrap)
FurtherSignalsIgnored == [][shuttingDown /\ Alive => exit' # "killed"]_vars
=============================================================================
