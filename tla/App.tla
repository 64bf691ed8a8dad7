---------------------------------- MODULE App ----------------------------------
(***************************************************************************)
(* App (app_windows.go): the list of tunnels and the three operations that  *)
(* change it.  Reload runs on the thread of the user interface at the start *)
(* and in the goroutine of watchConfig later; Reconnect and Shutdown run on *)
(* the thread of the user interface; onTunnelChange runs wherever a tunnel  *)
(* changes its state.                                                       *)
(*                                                                          *)
(* A tunnel is what App sees of module Tunnel: Start takes the port or      *)
(* fails, maintain goes through its states and reports them, Stop cancels,  *)
(* closes the listener and waits for maintain.  A proxy of the              *)
(* configuration is its listen address and a version, which stands for the  *)
(* rest of its fingerprint.  Sets replace the slices: no order matters.     *)
(***************************************************************************)
EXTENDS Naturals, Functions

CONSTANTS
    Tunnels,    \* identities; one that nothing refers to is used again
    Listens,    \* listen addresses
    Versions,   \* what else the fingerprint of a proxy covers
    MaxEdits,   \* bound: how often the configuration file is saved
    Bad,        \* the contents of a file that ParseConfig refuses
    None

ASSUME AppAssumption ==
    /\ MaxEdits \in Nat
    /\ None \notin Tunnels \cup {"ui", "watch"}
    /\ Tunnels \cap {"ui", "watch"} = {}

Threads == {"ui", "watch"}

VARIABLES
    file,       \* the contents of the configuration file
    edits,      \* how often it was saved, which is its time stamp
    seen,       \* the stamp that watchConfig has taken last
    busy,       \* the addresses that other programs listen on
    mu,         \* the thread in the critical section of Reload, or None
    tunnels,    \* a.tunnels
    notified,   \* a.notified
    closed,     \* a.closed
    proxy,      \* proxy[t]: the Proxy of t
    ln,         \* ln[t]: the listener of t
    listenFail, \* the tunnels whose listenFail is set
    cancelled,  \* the tunnels whose context is cancelled
    state,      \* state[t]: t.state
    mpc,        \* mpc[t]: where the goroutine maintain of t is
    stop,       \* stop[t]: where the caller of t.Stop is
    heard,      \* heard[x]: the status that onTunnelChange, called by x, read
    pc,         \* pc[th]: where a thread is
    cfg,        \* cfg[th]: what LoadConfig returned, and which save it saw
    started,    \* started[th]: the tunnels th has yet to start
    stopped,    \* stopped[th]: the tunnels th stops
    cur,        \* cur[th]: the tunnel th is starting or replacing
    menu,       \* the tunnels of the menu that is shown
    todo,       \* the tunnels that Reconnect has yet to look at
    inForce,    \* history: the last configuration that Reload accepted
    loaded      \* history: the save that the last Reload has read

fileVars   == <<file, edits, busy>>
listVars   == <<tunnels, closed, inForce>>
tunnelVars == <<proxy, ln, listenFail, cancelled, state, mpc, stop>>
workVars   == <<started, stopped, cur>>
menuVars   == <<menu, todo>>
loadVars   == <<seen, cfg, loaded>>

vars == <<fileVars, mu, listVars, notified, tunnelVars, heard, pc, workVars,
          menuVars, loadVars>>

Proxies == [listen : Listens, version : Versions]

\* ParseConfig refuses a second proxy with the same address.
Configs == {c \in SUBSET Proxies :
              \A p, q \in c : p.listen = q.listen => p = q}

States == {"Connecting", "Connected", "Failed", "Stopped"}

TypeOK ==
    /\ file \in Configs \cup {Bad}
    /\ edits \in 0 .. MaxEdits
    /\ seen \in 0 .. MaxEdits
    /\ busy \subseteq Listens
    /\ mu \in Threads \cup {None}
    /\ tunnels \subseteq Tunnels
    /\ notified \subseteq Tunnels
    /\ closed \in BOOLEAN
    /\ proxy \in [Tunnels -> Proxies \cup {None}]
    /\ ln \in [Tunnels -> {"none", "open", "closed"}]
    /\ listenFail \subseteq Tunnels
    /\ cancelled \subseteq Tunnels
    /\ state \in [Tunnels -> States]
    /\ mpc \in [Tunnels -> {"off", "run", "telling", "done"}]
    /\ stop \in [Tunnels -> {"no", "asked", "telling", "done"}]
    /\ heard \in [Tunnels \cup Threads -> States \cup {None}]
    /\ pc \in [Threads -> {"off", "reload", "lock", "swap", "stop", "start",
                           "failed", "telling", "launch", "idle", "reconnect",
                           "replace", "stamp", "poll", "settle"}]
    /\ cfg \in [Threads -> Configs \cup {Bad}]
    /\ started \in [Threads -> SUBSET Tunnels]
    /\ stopped \in [Threads -> SUBSET Tunnels]
    /\ cur \in [Threads -> Tunnels \cup {None}]
    /\ menu \subseteq Tunnels
    /\ todo \subseteq Tunnels
    /\ inForce \in Configs
    /\ loaded \in 0 .. MaxEdits

Init ==
    /\ file \in Configs \cup {Bad}
    /\ edits = 0
    /\ seen = 0
    /\ busy \in SUBSET Listens
    /\ mu = None
    /\ tunnels = {}
    /\ notified = {}
    /\ closed = FALSE
    /\ proxy = [t \in Tunnels |-> None]
    /\ ln = [t \in Tunnels |-> "none"]
    /\ listenFail = {}
    /\ cancelled = {}
    /\ state = [t \in Tunnels |-> "Connecting"]
    /\ mpc = [t \in Tunnels |-> "off"]
    /\ stop = [t \in Tunnels |-> "no"]
    /\ heard = [x \in Tunnels \cup Threads |-> None]
    /\ pc = [th \in Threads |-> IF th = "ui" THEN "reload" ELSE "off"]
    /\ cfg = [th \in Threads |-> Bad]
    /\ started = [th \in Threads |-> {}]
    /\ stopped = [th \in Threads |-> {}]
    /\ cur = [th \in Threads |-> None]
    /\ menu = {}
    /\ todo = {}
    /\ inForce = {}
    /\ loaded = 0

Goes(th, from, to) == pc[th] = from /\ pc' = [pc EXCEPT ![th] = to]

\* Where Reload and Reconnect return to.
Caller(th) ==
    CASE th = "watch"                    -> "poll"
      [] th = "ui" /\ pc["watch"] = "off" -> "launch"
      [] OTHER                           -> "reconnect"

-----------------------------------------------------------------------------
(* NewTunnel *)

\* Nothing refers to t any more.
Fresh(t) ==
    /\ t \notin tunnels \cup notified \cup menu \cup todo
    /\ \A th \in Threads : t \notin started[th] \cup stopped[th] \cup {cur[th]}
    /\ ln[t] # "open"

\* A new tunnel, new[p], for every proxy p in the domain.
NewTunnels(new) ==
    LET made == AntiFunction(new)
        Made(f, v) == [t \in Tunnels |-> IF t \in DOMAIN made THEN v ELSE f[t]]
    IN  /\ proxy' = [t \in Tunnels |->
                       IF t \in DOMAIN made THEN made[t] ELSE proxy[t]]
        /\ ln' = Made(ln, "none")
        /\ listenFail' = listenFail \ DOMAIN made
        /\ cancelled' = cancelled \ DOMAIN made
        /\ state' = Made(state, "Connecting")
        /\ mpc' = Made(mpc, "off")
        /\ stop' = Made(stop, "no")

-----------------------------------------------------------------------------
(* onTunnelChange(t), called by x: it reads the status, then takes a.mu.    *)

ReadStatus(x, t) ==
    /\ heard[x] = None
    /\ heard' = [heard EXCEPT ![x] = state[t]]
    /\ UNCHANGED <<fileVars, mu, listVars, notified, tunnelVars, pc, workVars,
                   menuVars, loadVars>>

\* Broken variant: the recovery does not end the alarm.
OnTunnelChangeKeeps(x, t) ==
    /\ heard[x] # None
    /\ mu = None
    /\ notified' = CASE heard[x] = "Failed"  -> notified \cup {t}
                     [] heard[x] = "Stopped" -> notified \ {t}
                     [] OTHER                -> notified
    /\ heard' = [heard EXCEPT ![x] = None]

OnTunnelChange(x, t) ==
    /\ heard[x] # None
    /\ mu = None
    /\ notified' =
         CASE heard[x] = "Failed"                  -> notified \cup {t}
           [] heard[x] \in {"Connected", "Stopped"} -> notified \ {t}
           [] OTHER                                -> notified
    /\ heard' = [heard EXCEPT ![x] = None]

-----------------------------------------------------------------------------
(* The goroutine maintain of t, and Stop(t), which waits for it. *)

notTunnel == <<fileVars, listVars, mu, pc, workVars, menuVars, loadVars, proxy,
               listenFail>>

Successors == [Connecting |-> {"Connected", "Failed"},
               Connected  |-> {"Connecting"},
               Failed     |-> {"Connecting"},
               Stopped    |-> {}]

StateChanges(t) ==
    /\ mpc[t] = "run"
    /\ \E st \in Successors[state[t]] : state' = [state EXCEPT ![t] = st]
    /\ mpc' = [mpc EXCEPT ![t] = "telling"]
    /\ UNCHANGED <<notTunnel, notified, ln, cancelled, stop, heard>>

MaintainTells(t) ==
    /\ mpc[t] = "telling"
    /\ OnTunnelChange(t, t)
    /\ mpc' = [mpc EXCEPT ![t] = "run"]
    /\ UNCHANGED <<notTunnel, ln, cancelled, state, stop>>

MaintainReturns(t) ==
    /\ mpc[t] = "run"
    /\ t \in cancelled
    /\ mpc' = [mpc EXCEPT ![t] = "done"]
    /\ UNCHANGED <<notTunnel, notified, ln, cancelled, state, stop, heard>>

\* t.cancel and, if there is a listener by now, t.ln.Close.
StopCancels(t) ==
    /\ stop[t] = "no"
    /\ \E th \in Threads : pc[th] = "stop" /\ t \in stopped[th]
    /\ stop' = [stop EXCEPT ![t] = "asked"]
    /\ cancelled' = cancelled \cup {t}
    /\ ln' = [ln EXCEPT ![t] = IF @ = "open" THEN "closed" ELSE @]
    /\ UNCHANGED <<notTunnel, notified, state, mpc, heard>>

\* t.wg.Wait: maintain has returned and serve, which only does when its
\* listener is closed.
StopWaits(t) ==
    /\ stop[t] = "asked"
    /\ mpc[t] \in {"off", "done"}
    /\ ln[t] # "open"
    /\ state' = [state EXCEPT ![t] = "Stopped"]
    /\ stop' = [stop EXCEPT ![t] = "telling"]
    /\ UNCHANGED <<notTunnel, notified, ln, cancelled, mpc, heard>>

StopTells(t) ==
    /\ stop[t] = "telling"
    /\ OnTunnelChange(t, t)
    /\ stop' = [stop EXCEPT ![t] = "done"]
    /\ UNCHANGED <<notTunnel, ln, cancelled, state, mpc>>

ReadsStatus(t) ==
    /\ mpc[t] = "telling" \/ stop[t] = "telling"
    /\ ReadStatus(t, t)

Tunnel(t) ==
    \/ StateChanges(t) \/ MaintainTells(t) \/ MaintainReturns(t)
    \/ StopCancels(t) \/ StopWaits(t) \/ StopTells(t) \/ ReadsStatus(t)

-----------------------------------------------------------------------------
(* stopAll and the loop of Starts, in Reload and in Reconnect; stopAll       *)
(* alone in Shutdown.                                                        *)

\* Broken variant: the new tunnels start while the old ones still listen.
AllStoppedEarly(th) ==
    /\ Goes(th, "stop", "start")
    /\ UNCHANGED <<fileVars, mu, listVars, notified, tunnelVars, heard, workVars,
                   menuVars, loadVars>>

AllStopped(th) ==
    /\ Goes(th, "stop", "start")
    /\ \A t \in stopped[th] : stop[t] = "done"
    /\ stopped' = [stopped EXCEPT ![th] = {}]
    /\ UNCHANGED <<fileVars, mu, listVars, notified, tunnelVars, heard, started,
                   cur, menuVars, loadVars>>

PortTaken(l) ==
    \/ l \in busy
    \/ \E t \in Tunnels : ln[t] = "open" /\ proxy[t].listen = l

\* net.Listen works.  A context that is cancelled already ends maintain at
\* once, but not serve: the listener stays.
StartListens(th) ==
    /\ pc[th] = "start"
    /\ \E t \in started[th] :
        /\ ~PortTaken(proxy[t].listen)
        /\ ln' = [ln EXCEPT ![t] = "open"]
        /\ mpc' = [mpc EXCEPT ![t] = "run"]
        /\ started' = [started EXCEPT ![th] = @ \ {t}]
    /\ UNCHANGED <<fileVars, mu, listVars, notified, proxy, listenFail,
                   cancelled, state, stop, heard, pc, stopped, cur, menuVars,
                   loadVars>>

StartFails(th) ==
    /\ Goes(th, "start", "failed")
    /\ \E t \in started[th] :
        /\ PortTaken(proxy[t].listen)
        /\ listenFail' = listenFail \cup {t}
        /\ started' = [started EXCEPT ![th] = @ \ {t}]
        /\ cur' = [cur EXCEPT ![th] = t]
    /\ UNCHANGED <<fileVars, mu, listVars, notified, proxy, ln, cancelled, state,
                   mpc, stop, heard, stopped, menuVars, loadVars>>

StartReportsFailure(th) ==
    /\ Goes(th, "failed", "telling")
    /\ state' = [state EXCEPT ![cur[th]] = "Failed"]
    /\ UNCHANGED <<fileVars, mu, listVars, notified, proxy, ln, listenFail,
                   cancelled, mpc, stop, heard, workVars, menuVars, loadVars>>

StartReadsStatus(th) == pc[th] = "telling" /\ ReadStatus(th, cur[th])

StartTells(th) ==
    /\ Goes(th, "telling", "start")
    /\ OnTunnelChange(th, cur[th])
    /\ cur' = [cur EXCEPT ![th] = None]
    /\ UNCHANGED <<fileVars, mu, listVars, tunnelVars, started, stopped,
                   menuVars, loadVars>>

\* Broken variant: watchConfig takes its stamp after Reload.
AllStartedStamps(th) ==
    /\ Goes(th, "start", Caller(th))
    /\ started[th] = {}
    /\ seen' = IF th = "watch" THEN edits ELSE seen
    /\ UNCHANGED <<fileVars, mu, listVars, notified, tunnelVars, heard, workVars,
                   menuVars, cfg, loaded>>

AllStarted(th) ==
    /\ Goes(th, "start", Caller(th))
    /\ started[th] = {}
    /\ UNCHANGED <<fileVars, mu, listVars, notified, tunnelVars, heard, workVars,
                   menuVars, loadVars>>

Work(th) ==
    \/ AllStopped(th) \/ StartListens(th) \/ StartFails(th)
    \/ StartReportsFailure(th) \/ StartReadsStatus(th) \/ StartTells(th)
    \/ AllStarted(th)

-----------------------------------------------------------------------------
(* Reload *)

notReload == <<fileVars, notified, heard, cur, menuVars, seen>>

LoadConfig(th) ==
    /\ Goes(th, "reload", "lock")
    /\ cfg' = [cfg EXCEPT ![th] = file]
    /\ loaded' = edits
    /\ UNCHANGED <<notReload, mu, listVars, tunnelVars, started, stopped>>

ReloadLocks(th) ==
    /\ mu = None
    /\ Goes(th, "lock", "swap")
    /\ mu' = th
    /\ UNCHANGED <<notReload, listVars, tunnelVars, started, stopped, cfg,
                   loaded>>

\* Broken variant: an early return forgets to unlock.
ReloadRefusedLocked(th) ==
    /\ closed \/ cfg[th] = Bad
    /\ Goes(th, "swap", Caller(th))
    /\ mu' = mu
    /\ cfg' = [cfg EXCEPT ![th] = Bad]
    /\ UNCHANGED <<notReload, listVars, tunnelVars, started, stopped, loaded>>

\* The early returns: the program is closing, or the file is wrong.
ReloadRefused(th) ==
    /\ closed \/ cfg[th] = Bad
    /\ Goes(th, "swap", Caller(th))
    /\ mu' = None
    /\ cfg' = [cfg EXCEPT ![th] = Bad]
    /\ UNCHANGED <<notReload, listVars, tunnelVars, started, stopped, loaded>>

\* Broken variant: the test is the wrong way round.
RunningInverted == tunnels \cap listenFail

\* The tunnels that go on: what did not get its port is started anew.
Running == tunnels \ listenFail

ReloadSwaps(th) ==
    LET kept == {t \in Running : proxy[t] \in cfg[th]}
        rest == cfg[th] \ {proxy[t] : t \in kept}
    IN  /\ ~closed
        /\ cfg[th] # Bad
        /\ Goes(th, "swap", "stop")
        /\ \E new \in Injection(rest, {t \in Tunnels : Fresh(t)}) :
            /\ NewTunnels(new)
            /\ tunnels' = kept \cup Range(new)
            /\ started' = [started EXCEPT ![th] = Range(new)]
        /\ stopped' = [stopped EXCEPT ![th] = tunnels \ kept]
        /\ inForce' = cfg[th]
        /\ mu' = None
        /\ cfg' = [cfg EXCEPT ![th] = Bad]
        /\ UNCHANGED <<notReload, closed, loaded>>

Reload(th) ==
    LoadConfig(th) \/ ReloadLocks(th) \/ ReloadRefused(th) \/ ReloadSwaps(th)

-----------------------------------------------------------------------------
(* The thread of the user interface: Start, then the menu. *)

notUI == <<fileVars, mu, notified, heard, loadVars>>

\* go a.watchConfig()
Launch ==
    /\ pc["ui"] = "launch"
    /\ pc' = [pc EXCEPT !["ui"] = "idle", !["watch"] = "stamp"]
    /\ UNCHANGED <<notUI, listVars, tunnelVars, workVars, menuVars>>

ShowMenu ==
    /\ pc["ui"] = "idle"
    /\ menu = {}
    /\ menu' = tunnels
    /\ UNCHANGED <<notUI, pc, listVars, tunnelVars, workVars, todo>>

\* The menu is left: Reconnect for a tunnel it shows, ReconnectAll for those
\* there are now, or any other command.
Command ==
    /\ menu # {}
    /\ menu' = {}
    /\ Goes("ui", "idle", "reconnect")
    /\ \/ \E t \in menu : todo' = {t}
       \/ todo' = tunnels
       \/ todo' = {}
    /\ UNCHANGED <<notUI, listVars, tunnelVars, workVars>>

ReconnectChecks ==
    /\ pc["ui"] = "reconnect"
    /\ \/ /\ todo = {}
          /\ pc' = [pc EXCEPT !["ui"] = "idle"]
          /\ UNCHANGED <<todo, cur>>
       \/ \E t \in todo :
           /\ todo' = todo \ {t}
           /\ IF t \in listenFail
              THEN /\ pc' = [pc EXCEPT !["ui"] = "replace"]
                   /\ cur' = [cur EXCEPT !["ui"] = t]
              ELSE UNCHANGED <<pc, cur>>
    /\ UNCHANGED <<notUI, listVars, tunnelVars, started, stopped, menu>>

\* Broken variant: nobody looks whether the tunnel is still in the list.
ListedUnchecked(t) == TRUE

\* slices.Index(a.tunnels, t), and a.closed
Listed(t) == t \in tunnels /\ ~closed

\* Broken variant: the new tunnel is not put into the list.
ReplaceNowhere(t, nt) ==
    /\ NewTunnels([p \in {proxy[t]} |-> nt])
    /\ tunnels' = tunnels \ {t}

Replace(t, nt) ==
    /\ NewTunnels([p \in {proxy[t]} |-> nt])
    /\ tunnels' = (tunnels \ {t}) \cup {nt}

ReconnectReplaces ==
    /\ mu = None
    /\ Listed(cur["ui"])
    /\ Goes("ui", "replace", "stop")
    /\ \E nt \in Tunnels :
        /\ Fresh(nt)
        /\ Replace(cur["ui"], nt)
        /\ started' = [started EXCEPT !["ui"] = {nt}]
    /\ stopped' = [stopped EXCEPT !["ui"] = {cur["ui"]}]
    /\ cur' = [cur EXCEPT !["ui"] = None]
    /\ UNCHANGED <<notUI, closed, inForce, menuVars>>

ReconnectGivesUp ==
    /\ mu = None
    /\ ~Listed(cur["ui"])
    /\ Goes("ui", "replace", "reconnect")
    /\ cur' = [cur EXCEPT !["ui"] = None]
    /\ UNCHANGED <<notUI, listVars, tunnelVars, started, stopped, menuVars>>

\* The user quits or the session ends, perhaps while the menu is shown.
Shutdown ==
    /\ mu = None
    /\ ~closed
    /\ Goes("ui", "idle", "stop")
    /\ closed' = TRUE
    /\ tunnels' = {}
    /\ stopped' = [stopped EXCEPT !["ui"] = tunnels]
    /\ UNCHANGED <<notUI, inForce, tunnelVars, started, cur, menuVars>>

Reconnect == ReconnectChecks \/ ReconnectReplaces \/ ReconnectGivesUp

UI == Launch \/ ShowMenu \/ Command \/ Reconnect \/ Shutdown

-----------------------------------------------------------------------------
(* watchConfig *)

Stamps(from, to) ==
    /\ Goes("watch", from, to)
    /\ seen' = edits
    /\ UNCHANGED <<fileVars, mu, listVars, notified, tunnelVars, heard, workVars,
                   menuVars, cfg, loaded>>

FirstStamp == Stamps("stamp", "poll")

Poll ==
    /\ seen # edits
    /\ Goes("watch", "poll", "settle")
    /\ UNCHANGED <<fileVars, mu, listVars, notified, tunnelVars, heard, workVars,
                   menuVars, loadVars>>

Settle == Stamps("settle", "reload")

WatchConfig == FirstStamp \/ Poll \/ Settle

-----------------------------------------------------------------------------
(* Outside: an editor, and other programs that listen. *)

Save ==
    /\ edits < MaxEdits
    /\ edits' = edits + 1
    /\ file' \in Configs \cup {Bad}
    /\ UNCHANGED <<busy, mu, listVars, notified, tunnelVars, heard, pc, workVars,
                   menuVars, loadVars>>

PortChanges ==
    /\ \E l \in Listens :
        \/ busy' = busy \ {l}
        \/ ~PortTaken(l) /\ busy' = busy \cup {l}
    /\ UNCHANGED <<file, edits, mu, listVars, notified, tunnelVars, heard, pc,
                   workVars, menuVars, loadVars>>

Next ==
    \/ \E t \in Tunnels : Tunnel(t)
    \/ \E th \in Threads : Work(th) \/ Reload(th)
    \/ UI \/ WatchConfig \/ Save \/ PortChanges

Spec == Init /\ [][Next]_vars

-----------------------------------------------------------------------------
(* Fairness: goroutines that can run do run, and Go's mutex starves nobody. *)
(* The user, editors and other programs owe nothing, nor do links.          *)

Fairness ==
    /\ \A t \in Tunnels :
        /\ WF_vars(MaintainTells(t) \/ ReadsStatus(t))
        /\ SF_vars(MaintainReturns(t))
        /\ WF_vars(StopCancels(t) \/ StopWaits(t) \/ StopTells(t))
    /\ \A th \in Threads : WF_vars(Work(th) \/ Reload(th))
    /\ WF_vars(Launch \/ Reconnect)
    /\ WF_vars(WatchConfig)

FairSpec == Spec /\ Fairness

-----------------------------------------------------------------------------
(* Safety.                                                                  *)

Settled(th) == pc[th] \notin {"swap", "stop", "start", "failed", "telling"}

\* What listens and is not being stopped is in the list, from which the next
\* Reload or Shutdown takes it: no tunnel is lost on the way, whoever else
\* changes the list in the meantime (app_windows.go:118, 234-240, 288).
NoOrphan ==
    \A t \in Tunnels :
        ln[t] = "open" /\ t \notin cancelled =>
            t \in tunnels \/ \E th \in Threads : t \in stopped[th]

\* The list has one tunnel for each proxy of the last good configuration,
\* whatever Reconnect has replaced, and none after Shutdown.
ListMatchesConfig ==
    /\ {proxy[t] : t \in tunnels} = IF closed THEN {} ELSE inForce
    /\ \A t, u \in tunnels : proxy[t] = proxy[u] => t = u

\* A tunnel is stopped only if it is no longer wanted, if its port was taken
\* or if the program ends: a new configuration leaves the others alone
\* (app_windows.go:80).
UnchangedGoesOn ==
    [][\A t \in Tunnels :
          stop[t] = "no" /\ stop'[t] = "asked" =>
              closed \/ proxy[t] \notin inForce \/ t \in listenFail]_vars

\* A tunnel that has said all it has to say has raised the alarm if it
\* failed and lifted it if it is connected.
AlarmIsRight ==
    \A t \in Tunnels :
        mpc[t] = "run" /\ t \notin cancelled =>
            /\ state[t] = "Failed" => t \in notified
            /\ state[t] = "Connected" => t \notin notified

\* A tunnel that this program does not want any more never takes the port
\* from its successor: what is in the list fails to listen only because of
\* another program, or of a tunnel that was stopped before it was started.
PortIsFree ==
    [][\A t \in Tunnels :
          t \notin listenFail /\ t \in listenFail' /\ t \notin cancelled =>
              \/ proxy[t].listen \in busy
              \/ \E u \in Tunnels :
                    /\ ln[u] = "open" /\ proxy[u].listen = proxy[t].listen
                    /\ u \in cancelled]_vars

\* When watchConfig goes back to waiting, every save that it counts as seen
\* has been read, also one that was made while an earlier one was being
\* loaded (app_windows.go:155).
SavesAreRead ==
    [][pc["watch"] \notin {"stamp", "poll"} /\ pc'["watch"] = "poll" =>
          loaded >= seen']_vars

\* tunnel.go:105: Stop closes the listener; when it has returned the work is
\* over.
StopIsFinal ==
    \A t \in Tunnels : stop[t] = "done" /\ ~closed => ln[t] # "open"

-----------------------------------------------------------------------------
(* Liveness.                                                                *)

\* A tunnel is stopped that has yet to be started.
Overtaken ==
    \E t \in cancelled, th \in Threads : t \in started[th]

\* Reload, Reconnect and Shutdown come to an end, unless a tunnel is stopped
\* before it is started: nobody waits for a goroutine that needs a.mu while
\* holding it.
OperationsEnd ==
    []~Overtaken =>
        \A th \in Threads :
            (pc[th] \in {"lock", "swap", "stop", "start"}) ~>
                (pc[th] \in {"launch", "idle", "poll"})

=============================================================================
