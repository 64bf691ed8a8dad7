------------------------------- MODULE Tunnel -------------------------------
(***************************************************************************)
(* One tunnel (tunnel.go) and the handlers that serve its clients (the     *)
(* first and last parts of proxy.go): the goroutines of maintain, serve    *)
(* and handle, the thread that calls Start and Stop, and the thread that   *)
(* calls Reconnect.  A step is what one goroutine does between two points  *)
(* where another one can see it: a critical section of t.mu, a channel     *)
(* operation, a blocking call.                                             *)
(*                                                                         *)
(* A chain of SSH clients is one Client here (module Chain opens it up),   *)
(* an error is only there or not, and timers carry no durations: a timer   *)
(* that is running may fire at any moment.                                 *)
(***************************************************************************)
EXTENDS Naturals

CONSTANTS
    Requests,   \* the connections of local programs; an id is used again
    Users,      \* the callers of Reconnect
    Clients,    \* identities of SSH chains; an unreferenced id is used again
    None        \* no client

ASSUME TunnelAssumption ==
    /\ None \notin Clients
    /\ Requests \cap {"maintain", "serve"} = {}

VARIABLES
    ctxDone,    \* t.ctx is cancelled
    wg,         \* the goroutines that t.wg counts
    ln,         \* the listener: "none", "open" or "closed"
    listenFail, \* t.listenFail
    state,      \* t.state
    err,        \* t.err is not nil
    client,     \* t.client
    listening,  \* the requests whose copy of t.changed is the current channel
    conns,      \* t.conns
    retry,      \* there is a token in t.retry
    reconnect,  \* there is a token in t.reconnect
    broken,     \* the client waiting in t.broken
    opc,        \* where the caller of Start and Stop is
    upc,        \* where the caller of Reconnect is
    mpc,        \* where maintain is
    spc,        \* where serve is
    hpc,        \* hpc[r]: where the handler of r is
    exit,       \* maintain's clients
    health,     \* health[c]: the SSH connection of c
    held,       \* held[r]: the client waitClient gave to r
    attempted,  \* the requests whose waitClient has set attempted
    shut,       \* the connections that Stop closed
    tried,      \* history: the requests that waited while a dial's failure came in
    blamed      \* history: exit, when a request could not use it and blames it

tunnelVars == <<state, err, client, listening>>
chanVars   == <<retry, reconnect, broken>>
ownerVars  == <<ctxDone, ln, listenFail, opc>>
linkVars   == <<exit, health, blamed>>
handleVars == <<held, attempted, tried>>
connVars   == <<conns, shut>>

vars == <<tunnelVars, chanVars, ownerVars, linkVars, handleVars, connVars,
          wg, upc, mpc, spc, hpc>>

\* What each thread never writes.
notOwner    == <<chanVars, linkVars, handleVars, conns, upc, hpc>>
notUser     == <<tunnelVars, broken, ownerVars, linkVars, handleVars, connVars,
                 wg, mpc, spc, hpc>>
notMaintain == <<ownerVars, connVars, held, attempted, upc, spc, hpc>>
notServe    == <<tunnelVars, chanVars, ownerVars, linkVars, handleVars,
                 connVars, upc, mpc>>
notHandle   == <<state, err, client, reconnect, ownerVars, exit, health, upc,
                 mpc, spc>>

Dead == {"down", "closed"}

TypeOK ==
    /\ ctxDone \in BOOLEAN
    /\ wg \subseteq Requests \cup {"maintain", "serve"}
    /\ ln \in {"none", "open", "closed"}
    /\ listenFail \in BOOLEAN
    /\ state \in {"Connecting", "Connected", "Failed", "Stopped"}
    /\ err \in BOOLEAN
    /\ client \in Clients \cup {None}
    /\ listening \subseteq Requests
    /\ conns \subseteq Requests
    /\ retry \in BOOLEAN
    /\ reconnect \in BOOLEAN
    /\ broken \in Clients \cup {None}
    /\ opc \in {"new", "listenFailed", "running", "cancelled", "lnClosed",
                "waiting", "stopped"}
    /\ upc \in [Users -> {"idle", "reconnect", "retry", "ignored"}]
    /\ mpc \in {"off", "loop", "dialing", "dialed", "publish", "watch",
                "keepAlive", "ended", "closing", "wait", "done"}
    /\ spc \in {"off", "accept", "spawn", "sleep", "done"}
    /\ hpc \in [Requests -> {"idle", "accepted", "track", "handshake", "snapshot",
                             "notify", "sleep", "open", "report", "relay",
                             "closing"}]
    /\ exit \in Clients \cup {None}
    /\ health \in [Clients -> {"up", "hung", "down", "closed"}]
    /\ held \in [Requests -> Clients \cup {None}]
    /\ attempted \subseteq Requests
    /\ shut \subseteq Requests
    /\ tried \subseteq Requests
    /\ blamed \in Clients \cup {None}

Init ==
    /\ ctxDone = FALSE
    /\ wg = {}
    /\ ln = "none"
    /\ listenFail = FALSE
    /\ state = "Connecting"
    /\ err = FALSE
    /\ client = None
    /\ listening = {}
    /\ conns = {}
    /\ retry = FALSE
    /\ reconnect = FALSE
    /\ broken = None
    /\ opc = "new"
    /\ upc = [u \in Users |-> "idle"]
    /\ mpc = "off"
    /\ spc = "off"
    /\ hpc = [r \in Requests |-> "idle"]
    /\ exit = None
    /\ health = [c \in Clients |-> "closed"]
    /\ held = [r \in Requests |-> None]
    /\ attempted = {}
    /\ shut = {}
    /\ tried = {}
    /\ blamed = None

-----------------------------------------------------------------------------
(* What several goroutines use. *)

\* Broken variant: a retry forgets why the last attempt failed.
SetStateForgets(st, e, c) ==
    state' = st /\ err' = e /\ client' = c /\ listening' = {}

\* setState: one critical section.  Closing t.changed wakes every request
\* that holds it.
SetState(st, e, c) ==
    /\ state' = st
    /\ err' = (e \/ (st = "Connecting" /\ state = "Failed" /\ err))
    /\ client' = c
    /\ listening' = {}

-----------------------------------------------------------------------------
(* The owner: Start once, then Stop. *)

StartListenFails ==
    /\ opc = "new"
    /\ listenFail' = TRUE
    /\ opc' = "listenFailed"
    /\ UNCHANGED <<notOwner, ctxDone, ln, tunnelVars, shut, wg, mpc, spc>>

StartReportsFailure ==
    /\ opc = "listenFailed"
    /\ opc' = "running"
    /\ SetState("Failed", TRUE, None)
    /\ UNCHANGED <<notOwner, ctxDone, ln, listenFail, shut, wg, mpc, spc>>

Start ==
    /\ opc = "new"
    /\ opc' = "running"
    /\ ln' = "open"
    /\ wg' = wg \cup {"maintain", "serve"}
    /\ mpc' = "loop"
    /\ spc' = "accept"
    /\ UNCHANGED <<notOwner, ctxDone, listenFail, tunnelVars, shut>>

StopCancels ==
    /\ opc = "running"
    /\ opc' = "cancelled"
    /\ ctxDone' = TRUE
    /\ UNCHANGED <<notOwner, ln, listenFail, tunnelVars, shut, wg, mpc, spc>>

StopClosesListener ==
    /\ opc = "cancelled"
    /\ opc' = "lnClosed"
    /\ ln' = IF ln = "none" THEN "none" ELSE "closed"
    /\ UNCHANGED <<notOwner, ctxDone, listenFail, tunnelVars, shut, wg, mpc,
                   spc>>

StopClosesConns ==
    /\ opc = "lnClosed"
    /\ opc' = "waiting"
    /\ shut' = shut \cup conns
    /\ UNCHANGED <<notOwner, ctxDone, ln, listenFail, tunnelVars, wg, mpc, spc>>

StopWaits ==
    /\ opc = "waiting"
    /\ wg = {}
    /\ opc' = "stopped"
    /\ SetState("Stopped", FALSE, None)
    /\ UNCHANGED <<notOwner, ctxDone, ln, listenFail, shut, wg, mpc, spc>>

Stop == StopCancels \/ StopClosesListener \/ StopClosesConns \/ StopWaits

Owner == StartListenFails \/ StartReportsFailure \/ Start \/ Stop

-----------------------------------------------------------------------------
(* Reconnect, called from the tray menu: it reads the status, unlocks, and  *)
(* only then drops a token.                                                 *)

ReconnectReadsStatus(u) ==
    /\ upc[u] = "idle"
    /\ upc' = [upc EXCEPT ![u] = CASE state = "Connected" -> "reconnect"
                                   [] state = "Failed"    -> "retry"
                                   [] OTHER               -> "ignored"]
    /\ UNCHANGED <<notUser, retry, reconnect>>

ReconnectNotifies(u) ==
    /\ upc[u] # "idle"
    /\ reconnect' = (reconnect \/ upc[u] = "reconnect")
    /\ retry' = (retry \/ upc[u] = "retry")
    /\ upc' = [upc EXCEPT ![u] = "idle"]
    /\ UNCHANGED notUser

Reconnect(u) == ReconnectReadsStatus(u) \/ ReconnectNotifies(u)

-----------------------------------------------------------------------------
(* maintain *)

MaintainGoes(from, to) ==
    /\ mpc = from
    /\ mpc' = to
    /\ UNCHANGED <<notMaintain, wg>>

\* A step that touches nothing another goroutine sees.
MaintainMoves(from, to) ==
    /\ MaintainGoes(from, to)
    /\ UNCHANGED <<tunnelVars, chanVars, linkVars, tried>>

\* maintain returns; its deferred wg.Done runs.
MaintainReturns(from) ==
    /\ ctxDone
    /\ mpc = from
    /\ mpc' = "done"
    /\ wg' = wg \ {"maintain"}
    /\ UNCHANGED <<notMaintain, tunnelVars, chanVars, tried>>

\* closeClients(clients)
CloseClients ==
    /\ health' = [c \in Clients |-> IF c = exit THEN "closed" ELSE health[c]]
    /\ exit' = None
    /\ blamed' = None

\* The head of the loop: t.ctx.Err(), then setState(StateConnecting).
BeginDial ==
    /\ ~ctxDone
    /\ MaintainGoes("loop", "dialing")
    /\ SetState("Connecting", FALSE, None)
    /\ UNCHANGED <<chanVars, linkVars, tried>>

LoopEnds == MaintainReturns("loop") /\ UNCHANGED linkVars

\* An identity nothing refers to stands for a client that is new.
Fresh(c) ==
    /\ c \notin {exit, broken}
    /\ \A r \in Requests : held[r] # c

\* dialChain succeeds, perhaps just as the context ends.
DialSucceeds(c) ==
    /\ Fresh(c)
    /\ MaintainGoes("dialing", "dialed")
    /\ exit' = c
    /\ health' = [health EXCEPT ![c] = "up"]
    /\ UNCHANGED <<tunnelVars, chanVars, tried, blamed>>

DialFails == MaintainMoves("dialing", "dialed")

DialCancelled == MaintainReturns("dialed") /\ CloseClients

\* r is inside waitClient.
Waiting(r) == hpc[r] \in {"snapshot", "notify", "sleep"}

DialFailed ==
    /\ ~ctxDone
    /\ exit = None
    /\ MaintainGoes("dialed", "wait")
    /\ SetState("Failed", TRUE, None)
    /\ tried' = tried \cup {r \in Requests : Waiting(r)}
    /\ UNCHANGED <<chanVars, linkVars>>

\* drain(t.reconnect): a click that is older than this connection is dropped.
DrainReconnect ==
    /\ ~ctxDone
    /\ exit # None
    /\ MaintainGoes("dialed", "publish")
    /\ reconnect' = FALSE
    /\ UNCHANGED <<tunnelVars, retry, broken, linkVars, tried>>

\* Broken variant: the drain comes after the status.
PublishThenDrain ==
    /\ \/ /\ MaintainGoes("publish", "drain")
          /\ SetState("Connected", FALSE, exit)
          /\ reconnect' = reconnect
       \/ /\ MaintainGoes("drain", "watch")
          /\ reconnect' = FALSE
          /\ UNCHANGED tunnelVars
    /\ UNCHANGED <<retry, broken, linkVars, tried>>

Publish ==
    /\ MaintainGoes("publish", "watch")
    /\ SetState("Connected", FALSE, exit)
    /\ UNCHANGED <<chanVars, linkVars, tried>>

\* The cases of watch's select.
WatchCancelled == ctxDone /\ MaintainMoves("watch", "ended")

WatchClosed == MaintainMoves("watch", "ended") /\ health[exit] = "down"

WatchReconnect ==
    /\ reconnect
    /\ MaintainGoes("watch", "ended")
    /\ reconnect' = FALSE
    /\ UNCHANGED <<tunnelVars, retry, broken, linkVars, tried>>

\* Broken variant: any report ends the connection.
WatchBrokenAny ==
    /\ broken # None
    /\ MaintainGoes("watch", "ended")
    /\ broken' = None
    /\ UNCHANGED <<tunnelVars, retry, reconnect, linkVars, tried>>

WatchBroken ==
    /\ broken # None
    /\ MaintainGoes("watch", IF broken = exit THEN "ended" ELSE "watch")
    /\ broken' = None
    /\ UNCHANGED <<tunnelVars, retry, reconnect, linkVars, tried>>

WatchTick == MaintainMoves("watch", "keepAlive")

\* The cases of keepAlive's select: a reply, or an error, a timeout or the
\* end of the context.
KeepAliveReplies ==
    MaintainMoves("keepAlive", "watch") /\ health[exit] = "up"

\* Broken variant: keepAlive has no timeout.
KeepAliveNoTimeout ==
    /\ MaintainMoves("keepAlive", "ended")
    /\ ctxDone \/ health[exit] = "down"

KeepAliveFails ==
    /\ MaintainMoves("keepAlive", "ended")
    /\ ctxDone \/ health[exit] \in {"hung", "down"}

\* Broken variant: the client is closed while requests can still get it.
UnpublishLate ==
    /\ MaintainGoes("ended", "closing")
    /\ health' = [health EXCEPT ![exit] = "closed"]
    /\ UNCHANGED <<tunnelVars, chanVars, exit, tried, blamed>>

\* The status no longer offers the client before the client is closed.
Unpublish ==
    /\ MaintainGoes("ended", "closing")
    /\ SetState("Connecting", FALSE, None)
    /\ UNCHANGED <<chanVars, linkVars, tried>>

\* closeClients, then dial again at once if the connection was stable and
\* after a pause if it was not.
LinkClosed ==
    /\ CloseClients
    /\ \/ MaintainReturns("closing")
       \/ /\ ~ctxDone
          /\ \/ MaintainGoes("closing", "loop")
             \/ MaintainGoes("closing", "wait")
          /\ UNCHANGED <<tunnelVars, chanVars, tried>>

\* The cases of wait's select.
WaitCancelled == MaintainReturns("wait") /\ UNCHANGED linkVars

WaitRetried ==
    /\ retry
    /\ MaintainGoes("wait", "loop")
    /\ retry' = FALSE
    /\ UNCHANGED <<tunnelVars, reconnect, broken, linkVars, tried>>

\* Broken variant: wait has no timer.
WaitForRetry == retry /\ MaintainMoves("wait", "loop")

WaitElapsed == MaintainMoves("wait", "loop")

Dial == DialFails \/ \E c \in Clients : DialSucceeds(c)

Watch ==
    \/ WatchCancelled \/ WatchClosed \/ WatchReconnect \/ WatchBroken
    \/ WatchTick \/ KeepAliveReplies \/ KeepAliveFails

Wait == WaitCancelled \/ WaitRetried \/ WaitElapsed

Maintain ==
    \/ BeginDial \/ LoopEnds \/ Dial \/ DialCancelled \/ DialFailed
    \/ DrainReconnect \/ Publish \/ Watch \/ Unpublish \/ LinkClosed \/ Wait

-----------------------------------------------------------------------------
(* serve *)

Accept(r) ==
    /\ spc = "accept"
    /\ ln = "open"
    /\ hpc[r] = "idle"
    /\ spc' = "spawn"
    /\ hpc' = [hpc EXCEPT ![r] = "accepted"]
    /\ UNCHANGED <<notServe, wg>>

\* Broken variant: the handler is not counted when it starts.
SpawnUncounted(r) ==
    /\ spc = "spawn"
    /\ hpc[r] = "accepted"
    /\ spc' = "accept"
    /\ hpc' = [hpc EXCEPT ![r] = "track"]
    /\ UNCHANGED <<notServe, wg>>

\* t.wg.Add(1), then go
Spawn(r) ==
    /\ spc = "spawn"
    /\ hpc[r] = "accepted"
    /\ spc' = "accept"
    /\ hpc' = [hpc EXCEPT ![r] = "track"]
    /\ wg' = wg \cup {r}
    /\ UNCHANGED notServe

\* Accept fails: the listener is closed, or the fault is a passing one.
AcceptFails ==
    /\ spc = "accept"
    /\ \/ /\ ctxDone \/ ln = "closed"
          /\ spc' = "done"
          /\ wg' = wg \ {"serve"}
       \/ /\ ~ctxDone /\ ln = "open"
          /\ spc' = "sleep"
          /\ wg' = wg
    /\ UNCHANGED <<notServe, hpc>>

AcceptAgain ==
    /\ spc = "sleep"
    /\ spc' = "accept"
    /\ UNCHANGED <<notServe, wg, hpc>>

Serve ==
    \/ AcceptFails \/ AcceptAgain
    \/ \E r \in Requests : Accept(r) \/ Spawn(r)

-----------------------------------------------------------------------------
(* handle, dial and waitClient for the connection r *)

HandlerGoes(r, from, to) ==
    /\ hpc[r] = from
    /\ hpc' = [hpc EXCEPT ![r] = to]
    /\ UNCHANGED notHandle

\* A step that touches nothing another goroutine sees.
HandlerMoves(r, from, to) ==
    /\ HandlerGoes(r, from, to)
    /\ UNCHANGED <<listening, retry, broken, handleVars, blamed, connVars, wg>>

\* Broken variant: track does not look at the context.
TrackUnchecked(r) ==
    /\ HandlerGoes(r, "track", "handshake")
    /\ conns' = conns \cup {r}
    /\ UNCHANGED <<listening, retry, broken, handleVars, blamed, shut, wg>>

\* track(c, true): a connection that comes after the cancellation is closed
\* at once, or Stop would never see it.
Track(r) ==
    /\ \/ /\ ctxDone
          /\ HandlerGoes(r, "track", "idle")
          /\ wg' = wg \ {r}
          /\ conns' = conns
       \/ /\ ~ctxDone
          /\ HandlerGoes(r, "track", "handshake")
          /\ wg' = wg
          /\ conns' = conns \cup {r}
    /\ UNCHANGED <<listening, retry, broken, handleVars, blamed, shut>>

\* The SOCKS or HTTP handshake ends with a target to dial (what was read
\* before Stop closed the connection may be enough for that), or without:
\* refused, malformed, the status page, the deadline, a closed connection.
Handshake(r) ==
    \/ HandlerMoves(r, "handshake", "snapshot")
    \/ HandlerMoves(r, "handshake", "closing")

\* waitClient, or the whole of dial, returns: the locals are gone.
DialLeaves(r, from, to) ==
    /\ HandlerGoes(r, from, to)
    /\ attempted' = attempted \ {r}
    /\ listening' = listening \ {r}
    /\ tried' = tried \ {r}
    /\ UNCHANGED <<retry, broken, blamed, connVars, wg>>

\* The critical section of waitClient and the cases of the switch after it.
SnapshotClient(r) ==
    /\ client # None
    /\ DialLeaves(r, "snapshot", "open")
    /\ held' = [held EXCEPT ![r] = client]

\* Broken variant: the last failure is answer enough.
SnapshotGivesUpEarly(r) ==
    /\ client = None
    /\ state \in {"Stopped", "Failed"}
    /\ DialLeaves(r, "snapshot", "closing")
    /\ held' = held

SnapshotGivesUp(r) ==
    /\ client = None
    /\ state = "Stopped" \/ (state = "Failed" /\ r \in attempted)
    /\ DialLeaves(r, "snapshot", "closing")
    /\ held' = held

\* Broken variant: the request goes to sleep without a token in t.retry.
SnapshotWaitsMute(r) ==
    /\ client = None
    /\ state \in {"Failed", "Connecting"}
    /\ HandlerGoes(r, "snapshot", "sleep")
    /\ attempted' = attempted \cup {r}
    /\ listening' = listening \cup {r}
    /\ UNCHANGED <<held, tried, retry, broken, blamed, connVars, wg>>

\* Broken variant: t.changed is read after t.client, in a second critical
\* section, when maintain may have connected in between.
SnapshotWaitsTorn(r) ==
    /\ state \in {"Connecting", "Connected"}
    /\ HandlerGoes(r, "snapshot", "sleep")
    /\ attempted' = attempted \cup {r}
    /\ listening' = listening \cup {r}
    /\ UNCHANGED <<held, tried, retry, broken, blamed, connVars, wg>>

SnapshotWaits(r) ==
    /\ client = None
    /\ \/ /\ state = "Failed"
          /\ r \notin attempted
          /\ HandlerGoes(r, "snapshot", "notify")
          /\ attempted' = attempted
       \/ /\ state = "Connecting"
          /\ HandlerGoes(r, "snapshot", "sleep")
          /\ attempted' = attempted \cup {r}
    /\ listening' = listening \cup {r}
    /\ UNCHANGED <<held, tried, retry, broken, blamed, connVars, wg>>

\* notify(t.retry): nobody has to sit out the retry delay.
NotifyRetry(r) ==
    /\ HandlerGoes(r, "notify", "sleep")
    /\ retry' = TRUE
    /\ UNCHANGED <<listening, broken, handleVars, blamed, connVars, wg>>

Wake(r) == r \notin listening /\ HandlerMoves(r, "sleep", "snapshot")

\* c.DialContext: the far side opens the channel or refuses it ...
OpenAnswered(r) ==
    /\ \/ HandlerMoves(r, "open", "relay")
       \/ HandlerMoves(r, "open", "closing")
    /\ health[held[r]] = "up"

\* ... or it returns another error, which dial puts down to the SSH connection
\* and reports.
OpenFails(r) ==
    /\ HandlerGoes(r, "open", IF ctxDone THEN "closing" ELSE "report")
    /\ blamed' = IF held[r] = exit THEN exit ELSE blamed
    /\ UNCHANGED <<listening, retry, broken, handleVars, connVars, wg>>

\* The connection is gone.
OpenBroken(r) == OpenFails(r) /\ health[held[r]] \in Dead

\* The target is no address, as in CONNECT host:99999, which nobody checks
\* before ssh.Client.Dial does: the connection may be all right.
OpenMalformed(r) == OpenFails(r)

\* The select that sends to t.broken; its buffer of one may be taken.
Report(r) ==
    /\ HandlerGoes(r, "report", "closing")
    /\ broken' = IF broken = None THEN held[r] ELSE broken
    /\ UNCHANGED <<listening, retry, handleVars, blamed, connVars, wg>>

\* The context of dial ends while waitClient or DialContext waits: the
\* requestTimeout has passed, or the tunnel stops.
DialTimesOut(r) ==
    /\ \/ DialLeaves(r, "sleep", "closing")
       \/ DialLeaves(r, "open", "closing")
    /\ held' = held

DialAborted(r) == ctxDone /\ DialTimesOut(r)

\* relay returns: either end has closed or failed, or the reply could not
\* be written.
RelayEnds(r) == HandlerMoves(r, "relay", "closing")

\* The deferred calls: track(c, false), c.Close, wg.Done.
HandlerReturns(r) ==
    /\ HandlerGoes(r, "closing", "idle")
    /\ conns' = conns \ {r}
    /\ shut' = shut \ {r}
    /\ wg' = wg \ {r}
    /\ held' = [held EXCEPT ![r] = None]
    /\ UNCHANGED <<listening, retry, broken, attempted, tried, blamed>>

Handle(r) ==
    \/ Track(r) \/ Handshake(r)
    \/ SnapshotClient(r) \/ SnapshotGivesUp(r) \/ SnapshotWaits(r)
    \/ NotifyRetry(r) \/ Wake(r)
    \/ OpenAnswered(r) \/ OpenBroken(r) \/ OpenMalformed(r)
    \/ Report(r) \/ DialTimesOut(r) \/ RelayEnds(r) \/ HandlerReturns(r)

-----------------------------------------------------------------------------
(* The network: an SSH connection breaks (both ends notice), goes silent,   *)
(* or comes back from silence.                                              *)

LinkChanges ==
    /\ exit # None
    /\ health[exit] \in {"up", "hung"}
    /\ \E h \in {"up", "hung", "down"} :
        health' = [health EXCEPT ![exit] = h]
    /\ UNCHANGED <<tunnelVars, chanVars, ownerVars, exit, blamed, handleVars,
                   connVars, wg, upc, mpc, spc, hpc>>

Next ==
    \/ Owner \/ Maintain \/ Serve
    \/ \E u \in Users : Reconnect(u)
    \/ \E r \in Requests : Handle(r)
    \/ LinkChanges

Spec == Init /\ [][Next]_vars

-----------------------------------------------------------------------------
(* Fairness.  Goroutines that can run do run, timers fire, a dial ends      *)
(* (hopTimeout), a handshake ends (handshakeTimeout).  select picks at      *)
(* random among the ready cases, so a case that is ready again and again is *)
(* taken: strong fairness for the cases of watch that ticks could hide.     *)
(* requestTimeout, the faults of the network, the users and what they ask   *)
(* for owe nothing.                                                         *)

ServeProceeds ==
    \/ AcceptAgain
    \/ ln = "closed" /\ AcceptFails
    \/ \E r \in Requests : Spawn(r)

HandleProceeds(r) ==
    \/ Track(r) \/ Handshake(r)
    \/ SnapshotClient(r) \/ SnapshotGivesUp(r) \/ SnapshotWaits(r)
    \/ NotifyRetry(r) \/ Wake(r) \/ OpenAnswered(r) \/ OpenBroken(r)
    \/ Report(r) \/ DialAborted(r) \/ HandlerReturns(r)
    \/ r \in shut /\ RelayEnds(r)

Fairness ==
    /\ WF_vars(Maintain)
    /\ SF_vars(WatchCancelled)
    /\ SF_vars(WatchReconnect)
    /\ WF_vars(ServeProceeds)
    /\ WF_vars(Stop /\ opc # "running")
    /\ \A u \in Users : WF_vars(ReconnectNotifies(u))
    /\ \A r \in Requests : WF_vars(HandleProceeds(r))

FairSpec == Spec /\ Fairness

-----------------------------------------------------------------------------
(* Safety.                                                                  *)

\* When Stop has returned, nothing of the tunnel is left: no goroutine, no
\* local connection, no listener, no SSH connection (tunnel.go:105).
StopClean ==
    opc = "stopped" =>
        /\ mpc \in {"off", "done"}
        /\ spc \in {"off", "done"}
        /\ \A r \in Requests : hpc[r] = "idle"
        /\ conns = {}
        /\ ln # "open"
        /\ \A c \in Clients : health[c] = "closed"

\* Once Stop has gone through t.conns, every connection in it is one that
\* Stop closed: none slips in behind its back, or Stop would wait for a
\* client that has no reason to leave.
ConnsShut ==
    opc \in {"waiting", "stopped"} => conns \subseteq shut

\* At most one SSH chain is open, the one maintain will close; a client that
\* the status offers to requests is that one, and not closed yet.
OneLink ==
    /\ \A c \in Clients : health[c] # "closed" => c = exit
    /\ client # None => client = exit /\ health[exit] # "closed"

\* A request asleep on a failed tunnel has left a token in t.retry, or
\* maintain is about to dial anyway: it never sleeps through the retry delay.
NoLostWakeup ==
    \A r \in Requests :
        hpc[r] = "sleep" /\ r \in listening /\ state = "Failed"
            => retry \/ mpc = "loop" \/ ctxDone

\* tunnel.go:291: what is reported is a trouble of the SSH connection itself.
BrokenIsDead ==
    broken # None => health[broken] \in Dead

\* watch gives a connection up only when the tunnel stops, the user asked
\* for it, the connection has failed or fallen silent, or a request of this
\* very connection could not use it: a report that comes late, when maintain
\* has dialled anew, never ends a working connection (tunnel.go:250).
NoSpuriousTeardown ==
    [][(mpc \in {"watch", "keepAlive"} /\ mpc' = "ended") =>
          \/ ctxDone \/ reconnect
          \/ health[exit] \in {"hung", "down"}
          \/ blamed = exit]_vars

\* The reason of a failure stays while it is being retried, until the tunnel
\* is connected or stopped (tunnel.go:140).
RetryKeepsReason ==
    [][err /\ ~err' => state' \in {"Connected", "Stopped"}]_vars

\* waitClient answers with the error of a dial only if maintain announced a
\* failure while the request was waiting: the news is never older than the
\* request (tunnel.go:303).
VerdictIsFresh ==
    [][\A r \in Requests :
          hpc[r] = "snapshot" /\ hpc'[r] = "closing" /\ state = "Failed"
              => r \in tried]_vars

\* A click that is pending while the tunnel is connected ends that connection:
\* it is never dropped as one that is older than the connection.
ReconnectHonoured ==
    [][reconnect /\ ~reconnect' /\ state = "Connected" => mpc' = "ended"]_vars

-----------------------------------------------------------------------------
(* What all this is for: the promise of TunnelService.                      *)

Phase ==
    CASE opc = "new"                               -> "new"
      [] opc = "listenFailed"                      -> "deaf"
      [] opc = "running"                           -> IF listenFail THEN "deaf"
                                                      ELSE "open"
      [] opc \in {"cancelled", "lnClosed", "waiting"} -> "stopping"
      [] opc = "stopped"                           -> "stopped"

Turn(r) ==
    CASE hpc[r] = "snapshot"                     -> "asking"
      [] hpc[r] \in {"notify", "sleep"}          -> "waiting"
      [] hpc[r] \in {"open", "report", "relay"}  -> "served"
      [] hpc[r] = "closing"                      -> "leaving"
      [] OTHER                                   -> "away"

Service == INSTANCE TunnelService WITH
    phase <- Phase,
    offer <- client,
    turn <- [r \in Requests |-> Turn(r)],
    given <- held,
    failedFor <- tried

\* Whatever the goroutines do to each other, owner and requests see a service
\* that is atomic: a request gets what is on offer when it looks, never a
\* client that is also offered anew, is refused only with a failure of its own
\* time, and the port's end comes after everybody has left.
ImplementsService == Service!Spec

-----------------------------------------------------------------------------
(* Liveness.                                                                *)

\* Stop returns, whatever the links and the clients do.
StopTerminates == (opc = "cancelled") ~> (opc = "stopped")

\* A request that waits for a client is answered without the help of
\* requestTimeout, unless users keep reconnecting, links keep breaking or being
\* blamed for a malformed target, or dials keep failing: no wake-up is lost, and
\* a request that is opening a channel on a dead connection is released by the
\* heartbeat.
RequestsAnswered ==
    \/ []<><<\/ LinkChanges \/ DialFails
             \/ \E u \in Users : Reconnect(u)
             \/ \E r \in Requests : OpenMalformed(r)>>_vars
    \/ \A r \in Requests :
          (hpc[r] = "snapshot") ~> (hpc[r] \in {"relay", "closing", "idle"})

\* A connection that is silent or gone is closed, unless it comes back.
DeadLinkClosed ==
    \A c \in Clients :
        (health[c] \in {"hung", "down"}) ~> (health[c] \in {"up", "closed"})

\* Whatever has happened to its links, a tunnel is connected again in the end,
\* unless it is stopped or dials keep failing.
Recovers ==
    \/ []<><<DialFails>>_vars
    \/ (ln = "open") ~> (state = "Connected" \/ ctxDone)

=============================================================================
