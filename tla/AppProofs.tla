------------------------------- MODULE AppProofs -------------------------------
(***************************************************************************)
(* Proofs about App, for any tunnels, addresses, versions and number of     *)
(* saves.                                                                   *)
(*                                                                          *)
(* The argument.  Control says at which places a thread has tunnels to stop *)
(* or to start; About(t), what the fields of one tunnel say about each      *)
(* other and about those sets: who is stopped is cancelled, who is yet to   *)
(* be started neither runs nor listens, a tunnel that is alive is in the    *)
(* list or on its way out.  On these rest the list (Listing), what a stop   *)
(* is for (Reasons) and who may have which port (Ports).                    *)
(*                                                                          *)
(* Reload and Reconnect change the list in the same way, Swaps: new tunnels *)
(* instead of some of the old.  It names what NewTunnels does to the fields *)
(* without the function from proxies to tunnels that it is given.           *)
(***************************************************************************)
EXTENDS App, TLAPS

USE DEF vars, fileVars, listVars, tunnelVars, workVars, menuVars, loadVars

Starting == {"stop", "start", "failed", "telling"}

\* Where the threads are.
Control ==
    /\ \A th \in Threads :
        /\ stopped[th] # {} => pc[th] = "stop"
        /\ started[th] # {} => pc[th] \in Starting
        /\ pc[th] \in {"failed", "telling", "replace"} => cur[th] \in listenFail
    /\ pc["ui"] \in {"reload", "lock", "swap"} =>
          pc["watch"] = "off" /\ tunnels = {}
    /\ pc["ui"] = "launch" => pc["watch"] = "off"
    /\ pc["watch"] \notin {"launch", "idle", "reconnect", "replace"}

ToStart(t) == \E th \in Threads : t \in started[th]
ToStop(t) == \E th \in Threads : t \in stopped[th]

Alive(t) == t \notin cancelled /\ (ln[t] = "open" \/ ToStart(t))

\* The fields of a tunnel.
About(t) ==
    /\ stop[t] # "no" => t \in cancelled
    /\ stop[t] \in {"asked", "telling"} => ToStop(t)
    /\ mpc[t] \in {"run", "telling"} => ln[t] = "open" \/ stop[t] = "asked"
    /\ heard[t] # None => mpc[t] = "telling" \/ stop[t] = "telling"
    /\ t \in listenFail => mpc[t] = "off" /\ ln[t] # "open" /\ ~ToStart(t)
    /\ ToStart(t) =>
        /\ mpc[t] = "off" /\ ln[t] # "open"
        /\ t \notin cancelled => state[t] = "Connecting"
    /\ \A th, other \in Threads :
          t \in started[th] /\ t \in started[other] => th = other
    /\ Alive(t) => t \in tunnels \/ ToStop(t)
    /\ t \in tunnels => ~ToStop(t)

\* What it has said.
Alarm(t) ==
    t \notin cancelled =>
        /\ heard[t] # None => heard[t] = state[t]
        /\ mpc[t] = "run" =>
            /\ state[t] = "Failed" => t \in notified
            /\ state[t] = "Connected" => t \notin notified

\* Why a tunnel is stopped.
Reasons ==
    /\ \A t \in stopped["ui"] : closed \/ t \in listenFail
    /\ \A t \in stopped["watch"] :
          closed \/ t \in listenFail \/ proxy[t] \notin inForce

SameListen(t, u) == t # u /\ proxy[t].listen = proxy[u].listen

\* Two tunnels that are alive share an address only if one waits for the end
\* of the other; who takes its place in the list waits for it, too.
PortsApart ==
    /\ \A t, u \in Tunnels :
          Alive(t) /\ Alive(u) /\ SameListen(t, u) =>
              \E th \in Threads : \/ t \in started[th] /\ u \in stopped[th]
                                  \/ u \in started[th] /\ t \in stopped[th]
    /\ \A th \in Threads : \A u \in stopped[th], v \in tunnels :
          Alive(u) /\ SameListen(u, v) => v \in started[th]

\* What watchConfig counts as seen has been read.
Stamped ==
    /\ seen <= edits /\ loaded <= edits
    /\ pc["watch"] \in {"lock", "swap"} \cup Starting => seen <= loaded

IInv ==
    /\ TypeOK /\ Control /\ ListMatchesConfig /\ Reasons /\ PortsApart /\ Stamped
    /\ \A t \in Tunnels : About(t) /\ Alarm(t)

-----------------------------------------------------------------------------
(* New tunnels. *)

LEMMA ThreadsApart ==
  /\ "ui" \in Threads /\ "watch" \in Threads /\ Threads = {"ui", "watch"}
  /\ None \notin Tunnels /\ None \notin Threads
  /\ \A t \in Tunnels : t \notin Threads
  BY AppAssumption DEF Threads

LEMMA MadeOf ==
  ASSUME NEW rest, NEW T, NEW new \in Injection(rest, T)
  PROVE  /\ DOMAIN AntiFunction(new) = Range(new)
         /\ Range(new) \subseteq T
         /\ \A p \in rest : new[p] \in Range(new) /\ AntiFunction(new)[new[p]] = p
         /\ \A t \in Range(new) : /\ AntiFunction(new)[t] \in rest
                                 /\ new[AntiFunction(new)[t]] = t
  <1>1. new \in [rest -> T] /\ \A a, b \in rest : new[a] = new[b] => a = b
    BY DEF Injection, IsInjective
  <1>2. Range(new) = {new[p] : p \in rest}
    BY <1>1 DEF Range
  <1>3. AntiFunction(new) = [t \in Range(new) |->
                               IF \E p \in rest : new[p] = t
                               THEN CHOOSE p \in rest : new[p] = t
                               ELSE CHOOSE p \in rest : TRUE]
    BY <1>1 DEF AntiFunction, Inverse
  <1>4. ASSUME NEW t \in Range(new)
        PROVE  AntiFunction(new)[t] \in rest /\ new[AntiFunction(new)[t]] = t
    BY <1>2, <1>3, <1>4
  <1>5. QED
    BY <1>1, <1>2, <1>3, <1>4

\* The fields of the new tunnels N, made for the proxies made.
Makes(N, made) ==
    /\ proxy' = [t \in Tunnels |-> IF t \in N THEN made[t] ELSE proxy[t]]
    /\ ln' = [t \in Tunnels |-> IF t \in N THEN "none" ELSE ln[t]]
    /\ listenFail' = listenFail \ N
    /\ cancelled' = cancelled \ N
    /\ state' = [t \in Tunnels |-> IF t \in N THEN "Connecting" ELSE state[t]]
    /\ mpc' = [t \in Tunnels |-> IF t \in N THEN "off" ELSE mpc[t]]
    /\ stop' = [t \in Tunnels |-> IF t \in N THEN "no" ELSE stop[t]]

\* th puts them in the place of those in gone.
Swaps(th, N, made, gone) ==
    /\ pc' = [pc EXCEPT ![th] = "stop"]
    /\ started' = [started EXCEPT ![th] = N]
    /\ stopped' = [stopped EXCEPT ![th] = gone]
    /\ N \subseteq {t \in Tunnels : Fresh(t)}
    /\ gone \subseteq tunnels
    /\ tunnels' = (tunnels \ gone) \cup N
    /\ made \in [N -> Proxies]
    /\ Makes(N, made)
    /\ UNCHANGED <<fileVars, notified, heard, menuVars, seen, closed, loaded>>
    /\ ~closed

\* What a new configuration c makes of the list: Reload stops these,
Gone(c) == {t \in tunnels : t \in listenFail \/ proxy[t] \notin c}

\* leaves these alone,
Kept(c) == {t \in tunnels \ listenFail : proxy[t] \in c}

\* and needs no new tunnel for these.
Old(c) == {proxy[t] : t \in Kept(c)}

LEMMA NewTunnelsMakes ==
  ASSUME NEW new, NewTunnels(new)
  PROVE  Makes(DOMAIN AntiFunction(new), AntiFunction(new))
  BY DEF NewTunnels, Makes

LEMMA ReloadSwapsIs ==
  ASSUME TypeOK, NEW th \in Threads, ReloadSwaps(th)
  PROVE  \E N, made :
           /\ Swaps(th, N, made, Gone(cfg[th]))
           /\ {made[t] : t \in N} = cfg[th] \ Old(cfg[th])
           /\ \A t, u \in N : made[t] = made[u] => t = u
           /\ pc[th] = "swap" /\ mu' = None /\ cur' = cur
           /\ cfg[th] \in Configs /\ inForce' = cfg[th]
           /\ cfg' = [cfg EXCEPT ![th] = Bad]
  <1> DEFINE kept == {t \in Running : proxy[t] \in cfg[th]}
             rest == cfg[th] \ {proxy[t] : t \in kept}
             gone == Gone(cfg[th])
  <1>1. PICK new \in Injection(rest, {t \in Tunnels : Fresh(t)}) :
           /\ NewTunnels(new)
           /\ tunnels' = kept \cup Range(new)
           /\ started' = [started EXCEPT ![th] = Range(new)]
    BY DEF ReloadSwaps
  <1>2. kept = tunnels \ gone /\ tunnels \ kept = gone
    BY DEF Running, Gone
  <1>3. cfg[th] \in Configs
    BY DEF ReloadSwaps, TypeOK
  <1>4. rest \subseteq Proxies
    BY <1>3 DEF Configs
  <1> DEFINE N == Range(new)
             made == AntiFunction(new)
  <1>5. /\ DOMAIN made = N
        /\ N \subseteq {t \in Tunnels : Fresh(t)}
        /\ \A p \in rest : new[p] \in N /\ made[new[p]] = p
        /\ \A t \in N : made[t] \in rest /\ new[made[t]] = t
    <2> HIDE DEF rest, kept
    <2> QED
      BY <1>1, MadeOf, Zenon
  <1>6. made \in [N -> Proxies]
    <2>1. made = [t \in N |-> made[t]]
      BY <1>5 DEF AntiFunction, Inverse
    <2>2. QED
      BY <2>1, <1>4, <1>5
  <1>7. {made[t] : t \in N} = rest
    BY <1>5
  <1>8. \A t, u \in N : made[t] = made[u] => t = u
    BY <1>5
  <1>9. Swaps(th, N, made, gone)
    <2> HIDE DEF N, made, kept, gone, rest
    <2>1. stopped' = [stopped EXCEPT ![th] = gone]
      BY <1>2 DEF ReloadSwaps, kept
    <2>2. /\ pc' = [pc EXCEPT ![th] = "stop"]
          /\ UNCHANGED <<fileVars, notified, heard, menuVars, seen, closed, loaded>>
          /\ ~closed
      BY DEF ReloadSwaps, Goes, notReload
    <2>3. Makes(N, made)
      <3>1. Makes(DOMAIN made, made)
        BY <1>1, NewTunnelsMakes DEF made
      <3>2. QED
        BY <3>1, <1>5
    <2>4. /\ tunnels' = (tunnels \ gone) \cup N
          /\ started' = [started EXCEPT ![th] = N]
          /\ gone \subseteq tunnels
      BY <1>1, <1>2 DEF gone, N, Gone
    <2>5. QED
      BY <2>1, <2>2, <2>3, <2>4, <1>5, <1>6 DEF Swaps
  <1>10. /\ pc[th] = "swap" /\ mu' = None /\ cur' = cur /\ inForce' = cfg[th]
         /\ cfg' = [cfg EXCEPT ![th] = Bad]
    BY DEF ReloadSwaps, Goes, notReload
  <1>11. rest = cfg[th] \ Old(cfg[th])
    BY DEF Running, Kept, Old
  <1> HIDE DEF N, made, kept, gone, rest
  <1>12. Swaps(th, N, made, Gone(cfg[th]))
    BY <1>9 DEF gone
  <1>13. {made[t] : t \in N} = cfg[th] \ Old(cfg[th])
    BY <1>7, <1>11
  <1>14. /\ Swaps(th, N, made, Gone(cfg[th]))
         /\ {made[t] : t \in N} = cfg[th] \ Old(cfg[th])
         /\ \A t, u \in N : made[t] = made[u] => t = u
         /\ pc[th] = "swap" /\ mu' = None /\ cur' = cur
         /\ cfg[th] \in Configs /\ inForce' = cfg[th]
         /\ cfg' = [cfg EXCEPT ![th] = Bad]
    BY <1>3, <1>8, <1>10, <1>12, <1>13
  <1> WITNESS N, made
  <1>15. QED
    BY <1>14

LEMMA ReconnectReplacesIs ==
  ASSUME TypeOK, ReconnectReplaces, cur["ui"] \in Tunnels,
         proxy[cur["ui"]] \in Proxies
  PROVE  \E nt, made :
           /\ nt \in Tunnels /\ Swaps("ui", {nt}, made, {cur["ui"]})
           /\ made[nt] = proxy[cur["ui"]]
           /\ cur["ui"] \in tunnels /\ pc["ui"] = "replace"
           /\ mu' = mu /\ cur' = [cur EXCEPT !["ui"] = None]
           /\ inForce' = inForce /\ cfg' = cfg
  <1> DEFINE t == cur["ui"]
  <1>1. PICK nt \in Tunnels :
           Fresh(nt) /\ Replace(t, nt) /\ started' = [started EXCEPT !["ui"] = {nt}]
    BY DEF ReconnectReplaces
  <1> DEFINE new == [p \in {proxy[t]} |-> nt]
  <1>2. new \in Injection({proxy[t]}, {nt}) /\ Range(new) = {nt}
    BY DEF Injection, IsInjective, Range
  <1>3. NewTunnels(new) /\ tunnels' = (tunnels \ {t}) \cup {nt}
    BY <1>1 DEF Replace
  <1> HIDE DEF new
  <1> DEFINE made == AntiFunction(new)
  <1>4. DOMAIN made = {nt} /\ made[nt] = proxy[t]
    <2>1. DOMAIN made = Range(new) /\ \A p \in {proxy[t]} : made[new[p]] = p
      BY <1>2, MadeOf, Zenon
    <2>2. new[proxy[t]] = nt
      BY DEF new
    <2>3. QED
      BY <1>2, <2>1, <2>2
  <1>5. Makes({nt}, made)
    <2>1. Makes(DOMAIN made, made)
      BY <1>3, NewTunnelsMakes DEF made
    <2>2. QED
      BY <2>1, <1>4
  <1>6. made \in [{nt} -> Proxies]
    <2>1. made = [u \in {nt} |-> made[u]]
      BY <1>4 DEF AntiFunction, Inverse
    <2>2. QED
      BY <2>1, <1>4
  <1> HIDE DEF made
  <1>7. /\ pc["ui"] = "replace" /\ pc' = [pc EXCEPT !["ui"] = "stop"]
        /\ stopped' = [stopped EXCEPT !["ui"] = {t}]
        /\ t \in tunnels /\ ~closed
        /\ mu' = mu /\ cur' = [cur EXCEPT !["ui"] = None]
        /\ inForce' = inForce /\ cfg' = cfg
        /\ UNCHANGED <<fileVars, notified, heard, menuVars, seen, closed, loaded>>
    BY DEF ReconnectReplaces, Goes, Listed, notUI
  <1>8. Swaps("ui", {nt}, made, {t})
    BY <1>1, <1>3, <1>5, <1>6, <1>7 DEF Swaps
  <1>9. QED
    BY <1>4, <1>7, <1>8

-----------------------------------------------------------------------------
(* Types. *)

LEMMA ListedProxies ==
  ASSUME TypeOK, ListMatchesConfig
  PROVE  \A t \in tunnels : t \in Tunnels /\ proxy[t] \in Proxies
  BY DEF TypeOK, ListMatchesConfig, Configs

LEMMA SwapsTypes ==
  ASSUME TypeOK, NEW th \in Threads, NEW N, NEW made, NEW gone,
         Swaps(th, N, made, gone), mu' \in {mu, None},
         cur' \in [Threads -> Tunnels \cup {None}], inForce' \in Configs,
         cfg' \in [Threads -> Configs \cup {Bad}]
  PROVE  TypeOK'
  <1> USE DEF TypeOK, Swaps, Makes
  <1>1. /\ proxy' \in [Tunnels -> Proxies \cup {None}]
        /\ ln' \in [Tunnels -> {"none", "open", "closed"}]
        /\ state' \in [Tunnels -> States]
        /\ mpc' \in [Tunnels -> {"off", "run", "telling", "done"}]
        /\ stop' \in [Tunnels -> {"no", "asked", "telling", "done"}]
    BY DEF States
  <1>2. /\ pc' \in [Threads -> {"off", "reload", "lock", "swap", "stop", "start",
                           "failed", "telling", "launch", "idle", "reconnect",
                           "replace", "stamp", "poll", "settle"}]
        /\ started' \in [Threads -> SUBSET Tunnels]
        /\ stopped' \in [Threads -> SUBSET Tunnels]
        /\ tunnels' \subseteq Tunnels /\ listenFail' \subseteq Tunnels
        /\ cancelled' \subseteq Tunnels
    BY DEF Fresh
  <1>3. /\ mu' \in Threads \cup {None}
        /\ UNCHANGED <<fileVars, notified, heard, menuVars, seen, closed, loaded>>
    OBVIOUS
  <1>4. QED
    BY <1>1, <1>2, <1>3

LEMMA TypeInit == Init => TypeOK
  <1>1. 0 \in 0 .. MaxEdits
    BY AppAssumption
  <1>2. {} \in Configs
    BY DEF Configs
  <1>3. "Connecting" \in States
    BY DEF States
  <1> SUFFICES ASSUME Init PROVE TypeOK
    OBVIOUS
  <1> USE DEF Init
  <1>4. /\ proxy \in [Tunnels -> Proxies \cup {None}]
        /\ ln \in [Tunnels -> {"none", "open", "closed"}]
        /\ state \in [Tunnels -> States]
        /\ mpc \in [Tunnels -> {"off", "run", "telling", "done"}]
        /\ stop \in [Tunnels -> {"no", "asked", "telling", "done"}]
        /\ heard \in [Tunnels \cup Threads -> States \cup {None}]
    BY <1>3
  <1>5. /\ pc \in [Threads -> {"off", "reload", "lock", "swap", "stop", "start",
                           "failed", "telling", "launch", "idle", "reconnect",
                           "replace", "stamp", "poll", "settle"}]
        /\ cfg \in [Threads -> Configs \cup {Bad}]
        /\ started \in [Threads -> SUBSET Tunnels]
        /\ stopped \in [Threads -> SUBSET Tunnels]
        /\ cur \in [Threads -> Tunnels \cup {None}]
    OBVIOUS
  <1>6. QED
    BY <1>1, <1>2, <1>4, <1>5 DEF TypeOK

LEMMA TypeTunnel ==
  ASSUME TypeOK, NEW t \in Tunnels, Tunnel(t)
  PROVE  TypeOK'
  <1> USE DEF TypeOK, notTunnel
  <1>1. CASE StateChanges(t)
    <2>1. PICK st \in Successors[state[t]] : state' = [state EXCEPT ![t] = st]
      BY <1>1 DEF StateChanges
    <2>2. st \in States
      BY <2>1 DEF Successors, States
    <2>3. QED
      BY <1>1, <2>1, <2>2 DEF StateChanges
  <1>2. CASE MaintainTells(t)
    BY <1>2 DEF MaintainTells, OnTunnelChange
  <1>3. CASE MaintainReturns(t)
    BY <1>3 DEF MaintainReturns
  <1>4. CASE StopCancels(t)
    BY <1>4 DEF StopCancels
  <1>5. CASE StopWaits(t)
    BY <1>5 DEF StopWaits, States
  <1>6. CASE StopTells(t)
    BY <1>6 DEF StopTells, OnTunnelChange
  <1>7. CASE ReadsStatus(t)
    BY <1>7 DEF ReadsStatus, ReadStatus
  <1>8. QED
    BY <1>1, <1>2, <1>3, <1>4, <1>5, <1>6, <1>7 DEF Tunnel

LEMMA TypeWork ==
  ASSUME TypeOK, Control, NEW th \in Threads, Work(th)
  PROVE  TypeOK'
  <1> USE DEF TypeOK, Goes
  <1>1. CASE AllStopped(th)
    BY <1>1 DEF AllStopped
  <1>2. CASE StartListens(th)
    BY <1>2 DEF StartListens
  <1>3. CASE StartFails(th)
    BY <1>3 DEF StartFails
  <1>4. CASE StartReportsFailure(th)
    BY <1>4 DEF StartReportsFailure, States
  <1>5. CASE StartReadsStatus(th)
    <2>1. cur[th] \in Tunnels
      BY <1>5 DEF StartReadsStatus, Control
    <2>2. QED
      BY <1>5, <2>1 DEF StartReadsStatus, ReadStatus
  <1>6. CASE StartTells(th)
    <2>1. cur[th] \in Tunnels
      BY <1>6 DEF StartTells, Control
    <2>2. QED
      BY <1>6, <2>1 DEF StartTells, OnTunnelChange
  <1>7. CASE AllStarted(th)
    BY <1>7 DEF AllStarted, Caller
  <1>8. QED
    BY <1>1, <1>2, <1>3, <1>4, <1>5, <1>6, <1>7 DEF Work

LEMMA TypeReload ==
  ASSUME TypeOK, NEW th \in Threads, Reload(th)
  PROVE  TypeOK'
  <1>1. CASE LoadConfig(th)
    BY <1>1 DEF LoadConfig, Goes, notReload, TypeOK
  <1>2. CASE ReloadLocks(th)
    BY <1>2 DEF ReloadLocks, Goes, notReload, TypeOK
  <1>3. CASE ReloadRefused(th)
    BY <1>3 DEF ReloadRefused, Goes, notReload, TypeOK, Caller
  <1>4. CASE ReloadSwaps(th)
    <2>1. PICK N, made, gone :
            /\ Swaps(th, N, made, gone)
            /\ mu' = None /\ cur' = cur
            /\ cfg[th] \in Configs /\ inForce' = cfg[th]
            /\ cfg' = [cfg EXCEPT ![th] = Bad]
      BY <1>4, ReloadSwapsIs
    <2>2. cfg' \in [Threads -> Configs \cup {Bad}]
      BY <2>1 DEF TypeOK
    <2>3. cur' \in [Threads -> Tunnels \cup {None}]
      BY <2>1 DEF TypeOK
    <2>4. QED
      BY <2>1, <2>2, <2>3, SwapsTypes
  <1>5. QED
    BY <1>1, <1>2, <1>3, <1>4 DEF Reload

LEMMA TypeUI ==
  ASSUME TypeOK, Control, ListMatchesConfig, UI
  PROVE  TypeOK'
  <1> USE DEF Goes, notUI
  <1>0. "ui" \in Threads /\ "watch" \in Threads
    BY DEF Threads
  <1>1. CASE Launch
    BY <1>1 DEF Launch, TypeOK
  <1>2. CASE ShowMenu
    BY <1>2 DEF ShowMenu, TypeOK
  <1>3. CASE Command
    BY <1>3 DEF Command, TypeOK
  <1>4. CASE ReconnectChecks
    BY <1>0, <1>4 DEF ReconnectChecks, TypeOK
  <1>5. CASE ReconnectReplaces
    <2>1. cur["ui"] \in tunnels
      BY <1>5 DEF ReconnectReplaces, Listed
    <2>2. PICK nt, made :
            /\ nt \in Tunnels /\ Swaps("ui", {nt}, made, {cur["ui"]})
            /\ mu' = mu /\ cur' = [cur EXCEPT !["ui"] = None]
            /\ inForce' = inForce /\ cfg' = cfg
      BY <1>5, <2>1, ListedProxies, ReconnectReplacesIs
    <2>3. QED
      BY <1>0, <2>2, SwapsTypes DEF TypeOK
  <1>6. CASE ReconnectGivesUp
    BY <1>0, <1>6 DEF ReconnectGivesUp, TypeOK
  <1>7. CASE Shutdown
    BY <1>0, <1>7 DEF Shutdown, TypeOK
  <1>8. QED
    BY <1>1, <1>2, <1>3, <1>4, <1>5, <1>6, <1>7 DEF UI, Reconnect

LEMMA TypeStep ==
  TypeOK /\ Control /\ ListMatchesConfig /\ [Next]_vars => TypeOK'
  <1> SUFFICES ASSUME TypeOK, Control, ListMatchesConfig, [Next]_vars
               PROVE  TypeOK'
    OBVIOUS
  <1>1. CASE \E t \in Tunnels : Tunnel(t)
    BY <1>1, TypeTunnel
  <1>2. CASE \E th \in Threads : Work(th)
    BY <1>2, TypeWork
  <1>3. CASE \E th \in Threads : Reload(th)
    BY <1>3, TypeReload
  <1>4. CASE UI
    BY <1>4, TypeUI
  <1>5. CASE WatchConfig
    BY <1>5 DEF WatchConfig, FirstStamp, Poll, Settle, Stamps, Goes, TypeOK
  <1>6. CASE Save
    BY <1>6, AppAssumption DEF Save, TypeOK
  <1>7. CASE PortChanges
    BY <1>7 DEF PortChanges, TypeOK
  <1>8. CASE UNCHANGED vars
    BY <1>8 DEF TypeOK
  <1>9. QED
    BY <1>1, <1>2, <1>3, <1>4, <1>5, <1>6, <1>7, <1>8 DEF Next

-----------------------------------------------------------------------------
(* Where the threads are. *)

LEMMA ControlSwaps ==
  ASSUME TypeOK, Control, NEW th \in Threads, NEW N, NEW made, NEW gone,
         Swaps(th, N, made, gone), pc[th] \in {"swap", "replace"},
         pc[th] = "replace" => th = "ui",
         cur' = cur \/ (th = "ui" /\ cur' = [cur EXCEPT !["ui"] = None])
  PROVE  Control'
  <1>1. pc'[th] = "stop" /\ \A o \in Threads \ {th} : pc'[o] = pc[o]
    BY DEF Swaps, TypeOK
  <1>2. \A o \in Threads \ {th} : started'[o] = started[o] /\ stopped'[o] = stopped[o]
    BY DEF Swaps, TypeOK
  <1>3. \A o \in Threads \ {th} : cur'[o] = cur[o]
    BY DEF TypeOK
  <1>4. \A o \in Threads : cur[o] \in listenFail => cur[o] \in listenFail'
    BY DEF Swaps, Makes, Fresh, TypeOK
  <1>5. pc["ui"] \in {"reload", "lock", "swap", "launch"} => th = "ui"
    BY ThreadsApart DEF Control
  <1>6. \A o \in Threads :
          /\ stopped'[o] # {} => pc'[o] = "stop"
          /\ started'[o] # {} => pc'[o] \in Starting
          /\ pc'[o] \in {"failed", "telling", "replace"} => cur'[o] \in listenFail'
    BY <1>1, <1>2, <1>3, <1>4 DEF Control, Starting
  <1>7. pc'["ui"] \notin {"reload", "lock", "swap", "launch"}
    BY <1>1, <1>5, ThreadsApart
  <1>8. pc'["watch"] \notin {"launch", "idle", "reconnect", "replace"}
    BY <1>1, ThreadsApart DEF Control
  <1>9. QED
    BY <1>6, <1>7, <1>8 DEF Control

LEMMA ControlInit == Init => Control
  BY DEF Init, Control, Threads

LEMMA ControlWork ==
  ASSUME TypeOK, Control, NEW th \in Threads, Work(th)
  PROVE  Control'
  <1> USE DEF TypeOK, Goes, Control, Starting, Threads
  <1>1. CASE AllStopped(th)
    BY <1>1 DEF AllStopped
  <1>2. CASE StartListens(th)
    BY <1>2 DEF StartListens
  <1>3. CASE StartFails(th)
    BY <1>3 DEF StartFails
  <1>4. CASE StartReportsFailure(th)
    BY <1>4 DEF StartReportsFailure
  <1>5. CASE StartReadsStatus(th)
    BY <1>5 DEF StartReadsStatus, ReadStatus
  <1>6. CASE StartTells(th)
    BY <1>6 DEF StartTells
  <1>7. CASE AllStarted(th)
    BY <1>7 DEF AllStarted, Caller
  <1>8. QED
    BY <1>1, <1>2, <1>3, <1>4, <1>5, <1>6, <1>7 DEF Work

LEMMA ControlReload ==
  ASSUME TypeOK, Control, NEW th \in Threads, Reload(th)
  PROVE  Control'
  <1>1. CASE LoadConfig(th)
    BY <1>1 DEF LoadConfig, notReload, TypeOK, Goes, Control, Starting, Threads
  <1>2. CASE ReloadLocks(th)
    BY <1>2 DEF ReloadLocks, notReload, TypeOK, Goes, Control, Starting, Threads
  <1>3. CASE ReloadRefused(th)
    BY <1>3 DEF ReloadRefused, notReload, TypeOK, Goes, Control, Starting,
                Threads, Caller
  <1>4. CASE ReloadSwaps(th)
    <2>1. PICK N, made, gone :
            Swaps(th, N, made, gone) /\ cur' = cur /\ pc[th] = "swap"
      BY <1>4, ReloadSwapsIs
    <2>2. QED
      BY <2>1, ControlSwaps
  <1>5. QED
    BY <1>1, <1>2, <1>3, <1>4 DEF Reload

LEMMA ControlUI ==
  ASSUME TypeOK, Control, ListMatchesConfig, UI
  PROVE  Control'
  <1> USE DEF Goes, notUI
  <1>0. "ui" \in Threads /\ "watch" \in Threads
    BY DEF Threads
  <1>1. CASE Launch
    BY <1>0, <1>1 DEF Launch, TypeOK, Control, Starting, Threads
  <1>2. CASE ShowMenu
    BY <1>2 DEF ShowMenu, Control
  <1>3. CASE Command
    BY <1>3 DEF Command, TypeOK, Control, Starting, Threads
  <1>4. CASE ReconnectChecks
    BY <1>0, <1>4 DEF ReconnectChecks, TypeOK, Control, Starting, Threads
  <1>5. CASE ReconnectReplaces
    <2>1. cur["ui"] \in tunnels
      BY <1>5 DEF ReconnectReplaces, Listed
    <2>2. PICK nt, made :
            /\ nt \in Tunnels
            /\ Swaps("ui", {nt}, made, {cur["ui"]}) /\ pc["ui"] = "replace"
            /\ cur' = [cur EXCEPT !["ui"] = None]
      BY <1>5, <2>1, ListedProxies, ReconnectReplacesIs
    <2>3. QED
      BY <1>0, <2>2, ControlSwaps
  <1>6. CASE ReconnectGivesUp
    BY <1>0, <1>6 DEF ReconnectGivesUp, TypeOK, Control, Starting, Threads
  <1>7. CASE Shutdown
    BY <1>0, <1>7 DEF Shutdown, TypeOK, Control, Starting, Threads
  <1>8. QED
    BY <1>1, <1>2, <1>3, <1>4, <1>5, <1>6, <1>7 DEF UI, Reconnect

\* What a tunnel does concerns no thread.
LEMMA TunnelAlone ==
  ASSUME NEW t \in Tunnels, Tunnel(t)
  PROVE  UNCHANGED <<fileVars, listVars, mu, pc, workVars, menuVars, loadVars,
                     proxy, listenFail>>
  BY DEF Tunnel, StateChanges, MaintainTells, MaintainReturns, StopCancels,
         StopWaits, StopTells, ReadsStatus, ReadStatus, notTunnel

LEMMA ControlStep ==
  TypeOK /\ Control /\ ListMatchesConfig /\ [Next]_vars => Control'
  <1> SUFFICES ASSUME TypeOK, Control, ListMatchesConfig, [Next]_vars
               PROVE  Control'
    OBVIOUS
  <1>1. CASE \E t \in Tunnels : Tunnel(t)
    BY <1>1, TunnelAlone DEF Control
  <1>2. CASE \E th \in Threads : Work(th)
    BY <1>2, ControlWork
  <1>3. CASE \E th \in Threads : Reload(th)
    BY <1>3, ControlReload
  <1>4. CASE UI
    BY <1>4, ControlUI
  <1>5. CASE WatchConfig
    BY <1>5 DEF WatchConfig, FirstStamp, Poll, Settle, Stamps, Goes, TypeOK,
                Control, Starting, Threads
  <1>6. CASE Save \/ PortChanges \/ UNCHANGED vars
    BY <1>6 DEF Save, PortChanges, Control
  <1>7. QED
    BY <1>1, <1>2, <1>3, <1>4, <1>5, <1>6 DEF Next

-----------------------------------------------------------------------------
(* The fields of a tunnel. *)

\* A tunnel leaves the others' fields alone.
LEMMA TunnelOthers ==
  ASSUME TypeOK, NEW me \in Tunnels, Tunnel(me), NEW t \in Tunnels \ {me}
  PROVE  /\ ln'[t] = ln[t] /\ state'[t] = state[t] /\ mpc'[t] = mpc[t]
         /\ stop'[t] = stop[t] /\ heard'[t] = heard[t]
         /\ t \in cancelled' <=> t \in cancelled
         /\ t \in notified' <=> t \in notified
  BY DEF Tunnel, StateChanges, MaintainTells, MaintainReturns, StopCancels,
         StopWaits, StopTells, ReadsStatus, ReadStatus, OnTunnelChange,
         notTunnel, TypeOK

\* What is said about a tunnel depends on its fields and on these sets.
LEMMA AboutSame ==
  ASSUME NEW t \in Tunnels, About(t),
         ln'[t] = ln[t], state'[t] = state[t], mpc'[t] = mpc[t],
         stop'[t] = stop[t], heard'[t] = heard[t],
         t \in cancelled' <=> t \in cancelled,
         UNCHANGED <<listenFail, tunnels, started, stopped>>
  PROVE  About(t)'
  BY DEF About, Alive, ToStart, ToStop

LEMMA AboutTunnel ==
  ASSUME TypeOK, \A t \in Tunnels : About(t), NEW me \in Tunnels, Tunnel(me)
  PROVE  \A t \in Tunnels : About(t)'
  <1>1. UNCHANGED <<listenFail, tunnels, started, stopped, pc>>
    BY TunnelAlone
  <1>2. \A t \in Tunnels \ {me} : About(t)'
    BY <1>1, TunnelOthers, AboutSame
  <1>3. /\ ToStart(me)' <=> ToStart(me)
        /\ ToStop(me)' <=> ToStop(me)
    BY <1>1 DEF ToStart, ToStop
  <1>4. About(me)
    OBVIOUS
  <1> SUFFICES About(me)'
    BY <1>2
  <1>5. CASE StateChanges(me)
    <2>1. /\ mpc[me] = "run" /\ mpc'[me] = "telling"
          /\ UNCHANGED <<ln, cancelled, stop, heard>>
      BY <1>5 DEF StateChanges, TypeOK
    <2>2. QED
      BY <1>1, <1>3, <1>4, <2>1 DEF About, Alive
  <1>6. CASE MaintainTells(me)
    <2>1. /\ mpc[me] = "telling" /\ mpc'[me] = "run" /\ heard'[me] = None
          /\ UNCHANGED <<ln, cancelled, stop, state>>
      BY <1>6 DEF MaintainTells, OnTunnelChange, TypeOK
    <2>2. QED
      BY <1>1, <1>3, <1>4, <2>1 DEF About, Alive
  <1>7. CASE MaintainReturns(me)
    <2>1. /\ mpc[me] = "run" /\ mpc'[me] = "done"
          /\ UNCHANGED <<ln, cancelled, stop, state, heard>>
      BY <1>7 DEF MaintainReturns, TypeOK
    <2>2. QED
      BY <1>1, <1>3, <1>4, <2>1 DEF About, Alive
  <1>8. CASE StopCancels(me)
    <2>1. ToStop(me)
      BY <1>8 DEF StopCancels, ToStop
    <2>2. /\ stop[me] = "no" /\ stop'[me] = "asked" /\ me \in cancelled'
          /\ ln'[me] = "open" => ln[me] = "open"
          /\ ln'[me] # "open"
          /\ UNCHANGED <<mpc, state, heard>>
      BY <1>8 DEF StopCancels, TypeOK
    <2>3. QED
      BY <1>1, <1>3, <1>4, <2>1, <2>2 DEF About, Alive
  <1>9. CASE StopWaits(me)
    <2>1. /\ stop[me] = "asked" /\ stop'[me] = "telling"
          /\ mpc[me] \in {"off", "done"} /\ ln[me] # "open"
          /\ UNCHANGED <<mpc, ln, cancelled, heard>>
      BY <1>9 DEF StopWaits, TypeOK
    <2>2. QED
      BY <1>1, <1>3, <1>4, <2>1 DEF About, Alive
  <1>10. CASE StopTells(me)
    <2>1. /\ stop[me] = "telling" /\ stop'[me] = "done" /\ heard'[me] = None
          /\ UNCHANGED <<mpc, ln, cancelled, state>>
      BY <1>10 DEF StopTells, OnTunnelChange, TypeOK
    <2>2. QED
      BY <1>1, <1>3, <1>4, <2>1 DEF About, Alive
  <1>11. CASE ReadsStatus(me)
    <2>1. /\ mpc[me] = "telling" \/ stop[me] = "telling"
          /\ UNCHANGED <<mpc, ln, cancelled, state, stop>>
      BY <1>11 DEF ReadsStatus, ReadStatus
    <2>2. QED
      BY <1>1, <1>3, <1>4, <2>1 DEF About, Alive
  <1>12. QED
    BY <1>5, <1>6, <1>7, <1>8, <1>9, <1>10, <1>11 DEF Tunnel

LEMMA AboutWork ==
  ASSUME TypeOK, Control, \A t \in Tunnels : About(t),
         NEW th \in Threads, Work(th)
  PROVE  \A t \in Tunnels : About(t)'
  <1> SUFFICES ASSUME NEW t \in Tunnels PROVE About(t)'
    OBVIOUS
  <1>0. About(t) /\ t \notin Threads /\ t # th
    BY ThreadsApart
  <1> USE DEF Goes
  <1>1. CASE AllStopped(th)
    <2>1. /\ UNCHANGED <<tunnelVars, heard, tunnels, started>>
          /\ \A o \in Threads \ {th} : stopped'[o] = stopped[o]
          /\ t \in stopped[th] => stop[t] = "done"
          /\ t \notin stopped'[th]
      BY <1>1 DEF AllStopped, TypeOK
    <2>2. ToStop(t)' => ToStop(t)
      BY <2>1 DEF ToStop
    <2>3. ToStop(t) => ToStop(t)' \/ stop[t] = "done"
      BY <2>1 DEF ToStop
    <2>4. ToStart(t)' <=> ToStart(t)
      BY <2>1 DEF ToStart
    <2>5. QED
      BY <1>0, <2>1, <2>2, <2>3, <2>4 DEF About, Alive
  <1>2. CASE StartListens(th)
    <2>1. PICK s \in started[th] :
            /\ ln' = [ln EXCEPT ![s] = "open"]
            /\ mpc' = [mpc EXCEPT ![s] = "run"]
            /\ started' = [started EXCEPT ![th] = @ \ {s}]
      BY <1>2 DEF StartListens
    <2>2. UNCHANGED <<listenFail, cancelled, state, stop, heard, tunnels, stopped>>
      BY <1>2 DEF StartListens
    <2>3. /\ \A o \in Threads : started'[o] \subseteq started[o]
          /\ \A o \in Threads \ {th} : started'[o] = started[o]
          /\ started'[th] = started[th] \ {s}
      BY <2>1 DEF TypeOK
    <2>4. /\ ToStop(t)' <=> ToStop(t)
          /\ ToStart(t)' => ToStart(t)
      BY <2>2, <2>3 DEF ToStop, ToStart
    <2>5. \A o, other \in Threads :
            t \in started'[o] /\ t \in started'[other] => o = other
      BY <1>0, <2>3 DEF About
    <2>6. CASE t = s
      <3>1. ToStart(t) /\ ~ToStart(t)'
        BY <1>0, <2>1, <2>3, <2>6 DEF ToStart, About
      <3>2. ln'[t] = "open" /\ mpc'[t] = "run"
        BY <2>1, <2>6 DEF TypeOK
      <3>3. QED
        BY <1>0, <2>2, <2>4, <2>5, <3>1, <3>2 DEF About, Alive
    <2>7. CASE t # s
      <3>1. ln'[t] = ln[t] /\ mpc'[t] = mpc[t]
        BY <2>1, <2>7 DEF TypeOK
      <3>2. QED
        BY <1>0, <2>2, <2>4, <2>5, <3>1 DEF About, Alive
    <2>8. QED
      BY <2>6, <2>7
  <1>3. CASE StartFails(th)
    <2>1. PICK s \in started[th] :
            /\ listenFail' = listenFail \cup {s}
            /\ started' = [started EXCEPT ![th] = @ \ {s}]
      BY <1>3 DEF StartFails
    <2>2. UNCHANGED <<ln, mpc, cancelled, state, stop, heard, tunnels, stopped>>
      BY <1>3 DEF StartFails
    <2>3. /\ \A o \in Threads : started'[o] \subseteq started[o]
          /\ \A o \in Threads \ {th} : started'[o] = started[o]
          /\ started'[th] = started[th] \ {s}
      BY <2>1 DEF TypeOK
    <2>4. /\ ToStop(t)' <=> ToStop(t)
          /\ ToStart(t)' => ToStart(t)
      BY <2>2, <2>3 DEF ToStop, ToStart
    <2>5. \A o, other \in Threads :
            t \in started'[o] /\ t \in started'[other] => o = other
      BY <1>0, <2>3 DEF About
    <2>6. t = s => ToStart(t) /\ ~ToStart(t)'
      BY <1>0, <2>1, <2>3 DEF ToStart, About
    <2>7. QED
      BY <1>0, <2>1, <2>2, <2>4, <2>5, <2>6 DEF About, Alive
  <1>4. CASE StartReportsFailure(th)
    <2>1. UNCHANGED <<ln, listenFail, cancelled, mpc, stop, heard, tunnels,
                      started, stopped>>
      BY <1>4 DEF StartReportsFailure
    <2>2. t # cur[th] => state'[t] = state[t]
      BY <1>4 DEF StartReportsFailure, TypeOK
    <2>3. t = cur[th] => ~ToStart(t)
      BY <1>0, <1>4 DEF StartReportsFailure, Control, About
    <2>4. /\ ToStart(t)' <=> ToStart(t)
          /\ ToStop(t)' <=> ToStop(t)
      BY <2>1 DEF ToStart, ToStop
    <2>5. QED
      BY <1>0, <2>1, <2>2, <2>3, <2>4 DEF About, Alive
  <1>5. CASE StartReadsStatus(th)
    BY <1>0, <1>5, AboutSame DEF StartReadsStatus, ReadStatus, TypeOK
  <1>6. CASE StartTells(th)
    BY <1>0, <1>6, AboutSame DEF StartTells, OnTunnelChange, TypeOK
  <1>7. CASE AllStarted(th)
    BY <1>0, <1>7, AboutSame DEF AllStarted
  <1>8. QED
    BY <1>1, <1>2, <1>3, <1>4, <1>5, <1>6, <1>7 DEF Work

LEMMA SwapsSets ==
  ASSUME TypeOK, Control, NEW th \in Threads, NEW N, NEW made, NEW gone,
         Swaps(th, N, made, gone), pc[th] \in {"swap", "replace"}
  PROVE  /\ started[th] = {} /\ stopped[th] = {}
         /\ started'[th] = N /\ stopped'[th] = gone
         /\ \A o \in Threads \ {th} :
               started'[o] = started[o] /\ stopped'[o] = stopped[o]
         /\ N \subseteq Tunnels /\ gone \subseteq tunnels
         /\ tunnels' = (tunnels \ gone) \cup N
         /\ \A t \in N : /\ Fresh(t) /\ t \notin gone
                         /\ ~ToStart(t) /\ ~ToStop(t)
  <1>1. started[th] = {} /\ stopped[th] = {}
    BY DEF Control, Starting
  <1>2. /\ started'[th] = N /\ stopped'[th] = gone
        /\ \A o \in Threads \ {th} :
              started'[o] = started[o] /\ stopped'[o] = stopped[o]
    BY DEF Swaps, TypeOK
  <1>3. /\ N \subseteq Tunnels /\ gone \subseteq tunnels
        /\ tunnels' = (tunnels \ gone) \cup N
        /\ \A t \in N : Fresh(t)
    BY DEF Swaps
  <1>4. \A t \in N : t \notin gone /\ ~ToStart(t) /\ ~ToStop(t)
    BY <1>3 DEF Fresh, ToStart, ToStop
  <1>5. QED
    BY <1>1, <1>2, <1>3, <1>4

\* A tunnel that is there stays as it is, but may have to stop.
LEMMA SwapsOld ==
  ASSUME TypeOK, Control, NEW th \in Threads, NEW N, NEW made, NEW gone,
         Swaps(th, N, made, gone), pc[th] \in {"swap", "replace"},
         NEW t \in Tunnels \ N
  PROVE  /\ proxy'[t] = proxy[t] /\ ln'[t] = ln[t] /\ state'[t] = state[t]
         /\ mpc'[t] = mpc[t] /\ stop'[t] = stop[t] /\ heard'[t] = heard[t]
         /\ t \in cancelled' <=> t \in cancelled
         /\ t \in listenFail' <=> t \in listenFail
         /\ t \in notified' <=> t \in notified
         /\ ToStart(t)' <=> ToStart(t)
         /\ ToStop(t)' <=> ToStop(t) \/ t \in gone
         /\ t \in tunnels' <=> t \in tunnels \ gone
  <1>1. Makes(N, made) /\ UNCHANGED <<heard, notified>>
    BY DEF Swaps
  <1>2. /\ proxy'[t] = proxy[t] /\ ln'[t] = ln[t] /\ state'[t] = state[t]
        /\ mpc'[t] = mpc[t] /\ stop'[t] = stop[t]
        /\ t \in cancelled' <=> t \in cancelled
        /\ t \in listenFail' <=> t \in listenFail
    BY <1>1 DEF Makes
  <1>3. (ToStart(t)' <=> ToStart(t)) /\ (ToStop(t)' <=> ToStop(t) \/ t \in gone)
    BY SwapsSets DEF ToStart, ToStop
  <1>4. t \in tunnels' <=> t \in tunnels \ gone
    BY SwapsSets
  <1>5. QED
    BY <1>1, <1>2, <1>3, <1>4

\* A new one is to be started.
LEMMA SwapsNew ==
  ASSUME TypeOK, Control, NEW th \in Threads, NEW N, NEW made, NEW gone,
         Swaps(th, N, made, gone), pc[th] \in {"swap", "replace"},
         NEW t \in N, About(t)
  PROVE  /\ ln'[t] = "none" /\ state'[t] = "Connecting" /\ mpc'[t] = "off"
         /\ proxy'[t] = made[t] /\ made[t] \in Proxies
         /\ stop'[t] = "no" /\ heard'[t] = None
         /\ t \notin cancelled' /\ t \notin listenFail'
         /\ ToStart(t)' /\ ~ToStop(t)'
         /\ t \in tunnels' /\ t \notin tunnels
         /\ t \in started'[th] /\ \A o \in Threads \ {th} : t \notin started'[o]
  <1>1. Makes(N, made) /\ UNCHANGED heard /\ made \in [N -> Proxies]
    BY DEF Swaps
  <1>2. t \in Tunnels /\ Fresh(t) /\ ~ToStart(t) /\ ~ToStop(t)
    BY SwapsSets
  <1>3. /\ ln'[t] = "none" /\ state'[t] = "Connecting" /\ mpc'[t] = "off"
        /\ proxy'[t] = made[t] /\ made[t] \in Proxies
        /\ stop'[t] = "no" /\ t \notin cancelled' /\ t \notin listenFail'
    BY <1>1, <1>2 DEF Makes
  <1>4. heard'[t] = None
    <2>1. ln[t] # "open" /\ stop[t] \notin {"asked", "telling"}
      BY <1>2 DEF Fresh, About
    <2>2. heard[t] = None
      BY <2>1 DEF About
    <2>3. QED
      BY <1>1, <2>2
  <1>5. ToStart(t)' /\ ~ToStop(t)'
    BY <1>2, SwapsSets DEF ToStart, ToStop
  <1>6. /\ t \in started'[th] /\ \A o \in Threads \ {th} : t \notin started'[o]
        /\ t \in tunnels' /\ t \notin tunnels
    BY <1>2, SwapsSets DEF ToStart, Fresh
  <1>7. QED
    BY <1>3, <1>4, <1>5, <1>6

LEMMA AboutSwaps ==
  ASSUME TypeOK, Control, NEW th \in Threads, NEW N, NEW made, NEW gone,
         Swaps(th, N, made, gone), pc[th] \in {"swap", "replace"},
         NEW t \in Tunnels, About(t)
  PROVE  About(t)'
  <1>1. CASE t \in N
    <2>1. /\ ln'[t] = "none" /\ state'[t] = "Connecting" /\ mpc'[t] = "off"
          /\ stop'[t] = "no" /\ heard'[t] = None
          /\ t \notin cancelled' /\ t \notin listenFail'
          /\ ToStart(t)' /\ ~ToStop(t)' /\ t \in tunnels'
      BY <1>1, SwapsNew
    <2>2. \A o, other \in Threads :
            t \in started'[o] /\ t \in started'[other] => o = other
      BY <1>1, SwapsNew
    <2>3. QED
      BY <2>1, <2>2 DEF About, Alive
  <1>2. CASE t \notin N
    <2>1. /\ ln'[t] = ln[t] /\ state'[t] = state[t]
          /\ mpc'[t] = mpc[t] /\ stop'[t] = stop[t] /\ heard'[t] = heard[t]
          /\ t \in cancelled' <=> t \in cancelled
          /\ t \in listenFail' <=> t \in listenFail
          /\ ToStart(t)' <=> ToStart(t)
          /\ ToStop(t)' <=> ToStop(t) \/ t \in gone
          /\ t \in tunnels' <=> t \in tunnels \ gone
      BY <1>2, SwapsOld
    <2>2. \A o, other \in Threads :
            t \in started'[o] /\ t \in started'[other] => o = other
      BY <1>2, SwapsSets DEF About
    <2>3. QED
      BY <2>1, <2>2, SwapsSets DEF About, Alive
  <1>3. QED
    BY <1>1, <1>2

LEMMA AboutReload ==
  ASSUME TypeOK, Control, \A t \in Tunnels : About(t),
         NEW th \in Threads, Reload(th)
  PROVE  \A t \in Tunnels : About(t)'
  <1>1. CASE LoadConfig(th) \/ ReloadLocks(th) \/ ReloadRefused(th)
    <2>1. UNCHANGED <<tunnelVars, heard, tunnels, started, stopped>>
      BY <1>1 DEF LoadConfig, ReloadLocks, ReloadRefused, notReload
    <2>2. QED
      BY <2>1, AboutSame
  <1>2. CASE ReloadSwaps(th)
    <2>1. PICK N, made, gone : Swaps(th, N, made, gone) /\ pc[th] = "swap"
      BY <1>2, ReloadSwapsIs
    <2>2. QED
      BY <2>1, AboutSwaps
  <1>3. QED
    BY <1>1, <1>2 DEF Reload

\* Shutdown stops all tunnels of the list.
LEMMA ShutdownSets ==
  ASSUME TypeOK, Control, Shutdown
  PROVE  /\ UNCHANGED <<fileVars, mu, notified, heard, loadVars, tunnelVars,
                        menuVars, started, cur, inForce>>
         /\ tunnels' = {} /\ closed'
         /\ stopped["ui"] = {} /\ stopped'["ui"] = tunnels
         /\ stopped'["watch"] = stopped["watch"]
         /\ pc'["watch"] = pc["watch"]
         /\ \A t : ToStart(t)' <=> ToStart(t)
         /\ \A t : ToStop(t)' <=> ToStop(t) \/ t \in tunnels
  <1>1. "ui" \in Threads /\ "watch" \in Threads
    BY DEF Threads
  <1>2. stopped["ui"] = {}
    BY <1>1 DEF Shutdown, Goes, Control
  <1>3. /\ stopped'["ui"] = tunnels /\ stopped'["watch"] = stopped["watch"]
        /\ pc'["watch"] = pc["watch"]
    BY <1>1 DEF Shutdown, Goes, TypeOK
  <1>4. /\ UNCHANGED <<fileVars, mu, notified, heard, loadVars, tunnelVars,
                       menuVars, started, cur, inForce>>
        /\ tunnels' = {} /\ closed'
    BY DEF Shutdown, notUI
  <1>5. \A t : ToStart(t)' <=> ToStart(t)
    BY <1>4 DEF ToStart
  <1>6. \A t : ToStop(t)' <=> ToStop(t) \/ t \in tunnels
    BY <1>1, <1>2, <1>3, ThreadsApart DEF ToStop
  <1>7. QED
    BY <1>2, <1>3, <1>4, <1>5, <1>6

LEMMA AboutUI ==
  ASSUME TypeOK, Control, ListMatchesConfig, \A t \in Tunnels : About(t), UI
  PROVE  \A t \in Tunnels : About(t)'
  <1>1. CASE Launch \/ ShowMenu \/ Command \/ ReconnectChecks \/ ReconnectGivesUp
    <2>1. UNCHANGED <<tunnelVars, heard, tunnels, started, stopped>>
      BY <1>1 DEF Launch, ShowMenu, Command, ReconnectChecks, ReconnectGivesUp,
                  notUI
    <2>2. QED
      BY <2>1, AboutSame
  <1>2. CASE ReconnectReplaces
    <2>1. cur["ui"] \in tunnels
      BY <1>2 DEF ReconnectReplaces, Listed
    <2>2. PICK nt, made :
            /\ nt \in Tunnels
            /\ Swaps("ui", {nt}, made, {cur["ui"]}) /\ pc["ui"] = "replace"
      BY <1>2, <2>1, ListedProxies, ReconnectReplacesIs
    <2>3. QED
      BY <2>2, ThreadsApart, AboutSwaps
  <1>3. CASE Shutdown
    <2> TAKE t \in Tunnels
    <2>1. /\ UNCHANGED <<tunnelVars, heard, started, cancelled>>
          /\ tunnels' = {}
          /\ ToStart(t)' <=> ToStart(t)
          /\ ToStop(t)' <=> ToStop(t) \/ t \in tunnels
      BY <1>3, ShutdownSets
    <2>2. QED
      BY <2>1 DEF About, Alive
  <1>4. QED
    BY <1>1, <1>2, <1>3 DEF UI, Reconnect

LEMMA AboutInit == Init => \A t \in Tunnels : About(t)
  BY DEF Init, About, Alive, ToStart, ToStop

LEMMA AboutStep ==
  ASSUME TypeOK, Control, ListMatchesConfig, \A t \in Tunnels : About(t),
         [Next]_vars
  PROVE  \A t \in Tunnels : About(t)'
  <1>1. CASE \E t \in Tunnels : Tunnel(t)
    BY <1>1, AboutTunnel
  <1>2. CASE \E th \in Threads : Work(th)
    BY <1>2, AboutWork
  <1>3. CASE \E th \in Threads : Reload(th)
    BY <1>3, AboutReload
  <1>4. CASE UI
    BY <1>4, AboutUI
  <1>5. CASE WatchConfig \/ Save \/ PortChanges \/ UNCHANGED vars
    <2>1. UNCHANGED <<tunnelVars, heard, tunnels, started, stopped>>
      BY <1>5 DEF WatchConfig, FirstStamp, Poll, Settle, Stamps, Save, PortChanges
    <2>2. QED
      BY <2>1, AboutSame
  <1>6. QED
    BY <1>1, <1>2, <1>3, <1>4, <1>5 DEF Next

-----------------------------------------------------------------------------
(* What a tunnel has said. *)

LEMMA AlarmSame ==
  ASSUME NEW t \in Tunnels, Alarm(t),
         state'[t] = state[t], mpc'[t] = mpc[t], heard'[t] = heard[t],
         t \in cancelled' <=> t \in cancelled,
         t \in notified' <=> t \in notified
  PROVE  Alarm(t)'
  BY DEF Alarm

LEMMA AlarmTunnel ==
  ASSUME TypeOK, \A t \in Tunnels : About(t) /\ Alarm(t),
         NEW me \in Tunnels, Tunnel(me)
  PROVE  \A t \in Tunnels : Alarm(t)'
  <1>1. \A t \in Tunnels \ {me} : Alarm(t)'
    BY TunnelOthers, AlarmSame
  <1>2. About(me) /\ Alarm(me)
    OBVIOUS
  <1> SUFFICES Alarm(me)'
    BY <1>1
  <1>3. CASE StateChanges(me)
    <2>1. /\ mpc[me] = "run" /\ mpc'[me] = "telling"
          /\ UNCHANGED <<cancelled, stop, heard>>
      BY <1>3 DEF StateChanges, TypeOK
    <2>2. heard[me] = None \/ me \in cancelled
      BY <1>2, <2>1 DEF About
    <2>3. QED
      BY <1>2, <2>1, <2>2 DEF Alarm
  <1>4. CASE MaintainTells(me)
    <2>1. /\ heard[me] # None /\ heard'[me] = None
          /\ heard[me] = "Failed" => me \in notified'
          /\ heard[me] = "Connected" => me \notin notified'
          /\ UNCHANGED <<cancelled, state>>
      BY <1>4 DEF MaintainTells, OnTunnelChange, TypeOK
    <2>2. QED
      BY <1>2, <2>1 DEF Alarm
  <1>5. CASE MaintainReturns(me)
    <2>1. mpc'[me] = "done" /\ UNCHANGED <<cancelled, state, heard, notified>>
      BY <1>5 DEF MaintainReturns, TypeOK
    <2>2. QED
      BY <1>2, <2>1 DEF Alarm
  <1>6. CASE StopCancels(me)
    BY <1>6 DEF StopCancels, Alarm
  <1>7. CASE StopWaits(me) \/ StopTells(me)
    <2>1. stop[me] \in {"asked", "telling"} /\ UNCHANGED cancelled
      BY <1>7 DEF StopWaits, StopTells
    <2>2. QED
      BY <1>2, <2>1 DEF About, Alarm
  <1>8. CASE ReadsStatus(me)
    <2>1. heard'[me] = state[me] /\ UNCHANGED <<cancelled, state, mpc, notified>>
      BY <1>8 DEF ReadsStatus, ReadStatus, TypeOK
    <2>2. QED
      BY <1>2, <2>1 DEF Alarm
  <1>9. QED
    BY <1>3, <1>4, <1>5, <1>6, <1>7, <1>8 DEF Tunnel

LEMMA AlarmWork ==
  ASSUME TypeOK, Control, \A t \in Tunnels : About(t) /\ Alarm(t),
         NEW th \in Threads, Work(th)
  PROVE  \A t \in Tunnels : Alarm(t)'
  <1> SUFFICES ASSUME NEW t \in Tunnels PROVE Alarm(t)'
    OBVIOUS
  <1>0. About(t) /\ Alarm(t) /\ t \notin Threads /\ t # th
    BY ThreadsApart
  <1> USE DEF Goes
  <1>1. CASE AllStopped(th) \/ AllStarted(th)
    BY <1>0, <1>1, AlarmSame DEF AllStopped, AllStarted
  <1>2. CASE StartListens(th)
    <2>1. PICK s \in started[th] : mpc' = [mpc EXCEPT ![s] = "run"]
      BY <1>2 DEF StartListens
    <2>2. UNCHANGED <<cancelled, state, heard, notified>>
      BY <1>2 DEF StartListens
    <2>3. CASE t = s
      <3>1. ToStart(t)
        BY <2>1, <2>3 DEF ToStart
      <3>2. t \notin cancelled => state[t] = "Connecting"
        BY <1>0, <3>1 DEF About
      <3>3. QED
        BY <1>0, <2>2, <3>2 DEF Alarm
    <2>4. CASE t # s
      <3>1. mpc'[t] = mpc[t]
        BY <2>1, <2>4 DEF TypeOK
      <3>2. QED
        BY <1>0, <2>2, <3>1, AlarmSame
    <2>5. QED
      BY <2>3, <2>4
  <1>3. CASE StartFails(th)
    BY <1>0, <1>3, AlarmSame DEF StartFails
  <1>4. CASE StartReportsFailure(th)
    <2>1. UNCHANGED <<cancelled, mpc, heard, notified>>
      BY <1>4 DEF StartReportsFailure
    <2>2. CASE t = cur[th]
      <3>1. mpc[t] = "off"
        BY <1>0, <1>4, <2>2 DEF StartReportsFailure, Control, About
      <3>2. heard[t] = None \/ t \in cancelled
        BY <1>0, <3>1 DEF About
      <3>3. QED
        BY <1>0, <2>1, <3>1, <3>2 DEF Alarm
    <2>3. CASE t # cur[th]
      <3>1. state'[t] = state[t]
        BY <1>4, <2>3 DEF StartReportsFailure, TypeOK
      <3>2. QED
        BY <1>0, <2>1, <3>1, AlarmSame
    <2>4. QED
      BY <2>2, <2>3
  <1>5. CASE StartReadsStatus(th)
    BY <1>0, <1>5, AlarmSame DEF StartReadsStatus, ReadStatus, TypeOK
  <1>6. CASE StartTells(th)
    <2>1. /\ UNCHANGED <<cancelled, mpc, state>>
          /\ heard'[t] = heard[t]
          /\ t # cur[th] => (t \in notified' <=> t \in notified)
      BY <1>0, <1>6 DEF StartTells, OnTunnelChange, TypeOK
    <2>2. t = cur[th] => mpc[t] = "off"
      BY <1>0, <1>6 DEF StartTells, Control, About
    <2>3. QED
      BY <1>0, <2>1, <2>2 DEF Alarm
  <1>7. QED
    BY <1>1, <1>2, <1>3, <1>4, <1>5, <1>6 DEF Work

LEMMA AlarmSwaps ==
  ASSUME TypeOK, Control, NEW th \in Threads, NEW N, NEW made, NEW gone,
         Swaps(th, N, made, gone), pc[th] \in {"swap", "replace"},
         NEW t \in Tunnels, About(t), Alarm(t)
  PROVE  Alarm(t)'
  <1>1. CASE t \in N
    BY <1>1, SwapsNew DEF Alarm
  <1>2. CASE t \notin N
    BY <1>2, SwapsOld, AlarmSame
  <1>3. QED
    BY <1>1, <1>2

LEMMA AlarmInit == Init => \A t \in Tunnels : Alarm(t)
  BY DEF Init, Alarm

LEMMA AlarmStep ==
  ASSUME TypeOK, Control, ListMatchesConfig,
         \A t \in Tunnels : About(t) /\ Alarm(t), [Next]_vars
  PROVE  \A t \in Tunnels : Alarm(t)'
  <1>1. CASE \E t \in Tunnels : Tunnel(t)
    BY <1>1, AlarmTunnel
  <1>2. CASE \E th \in Threads : Work(th)
    BY <1>2, AlarmWork
  <1>3. CASE \E th \in Threads : ReloadSwaps(th)
    <2>1. PICK th, N, made, gone :
            /\ th \in Threads
            /\ Swaps(th, N, made, gone) /\ pc[th] = "swap"
      BY <1>3, ReloadSwapsIs
    <2>2. QED
      BY <2>1, AlarmSwaps
  <1>4. CASE ReconnectReplaces
    <2>1. cur["ui"] \in tunnels
      BY <1>4 DEF ReconnectReplaces, Listed
    <2>2. PICK nt, made :
            /\ nt \in Tunnels
            /\ Swaps("ui", {nt}, made, {cur["ui"]}) /\ pc["ui"] = "replace"
      BY <1>4, <2>1, ListedProxies, ReconnectReplacesIs
    <2>3. QED
      BY <2>2, ThreadsApart, AlarmSwaps
  <1>5. CASE \/ Launch \/ ShowMenu \/ Command \/ ReconnectChecks
             \/ ReconnectGivesUp \/ Shutdown \/ WatchConfig \/ Save \/ PortChanges
             \/ \E th \in Threads :
                   LoadConfig(th) \/ ReloadLocks(th) \/ ReloadRefused(th)
             \/ UNCHANGED vars
    <2>1. UNCHANGED <<state, mpc, heard, cancelled, notified>>
      BY <1>5 DEF Launch, ShowMenu, Command, ReconnectChecks, ReconnectGivesUp,
                  Shutdown, notUI, WatchConfig, FirstStamp, Poll, Settle, Stamps,
                  Save, PortChanges, LoadConfig, ReloadLocks, ReloadRefused,
                  notReload
    <2>2. QED
      BY <2>1, AlarmSame
  <1>6. QED
    BY <1>1, <1>2, <1>3, <1>4, <1>5 DEF Next, Reload, UI, Reconnect

-----------------------------------------------------------------------------
(* The list. *)

LEMMA ListSame ==
  ASSUME ListMatchesConfig, UNCHANGED <<tunnels, closed, inForce, proxy>>
  PROVE  ListMatchesConfig'
  BY DEF ListMatchesConfig

LEMMA ListReload ==
  ASSUME TypeOK, Control, ListMatchesConfig, \A t \in Tunnels : About(t),
         NEW th \in Threads, ReloadSwaps(th)
  PROVE  ListMatchesConfig'
  <1> DEFINE gone == Gone(cfg[th])
             kept == Kept(cfg[th])
             old == Old(cfg[th])
  <1>1. PICK N, made :
           /\ Swaps(th, N, made, gone)
           /\ {made[t] : t \in N} = cfg[th] \ old
           /\ \A t, u \in N : made[t] = made[u] => t = u
           /\ pc[th] = "swap" /\ inForce' = cfg[th]
    BY ReloadSwapsIs
  <1>2. tunnels \ gone = kept
    BY DEF Gone, Kept
  <1>3. tunnels' = kept \cup N /\ N \subseteq Tunnels
    BY <1>1, <1>2, SwapsSets
  <1>4. \A t \in kept : t \notin N
    BY <1>1, SwapsSets DEF Fresh, Kept
  <1>5. \A t \in kept : /\ proxy'[t] = proxy[t] /\ proxy'[t] \in old
                        /\ proxy'[t] \in cfg[th]
    <2>1. \A t \in kept : t \in Tunnels \ N
      BY <1>4 DEF TypeOK, Kept
    <2>2. \A t \in kept : proxy'[t] = proxy[t]
      BY <1>1, <2>1, SwapsOld
    <2>3. QED
      BY <2>2 DEF Kept, Old
  <1>6. \A t \in N : proxy'[t] = made[t] /\ proxy'[t] \in cfg[th] \ old
    <2>1. \A t \in N : t \in Tunnels
      BY <1>3
    <2>2. \A t \in N : proxy'[t] = made[t]
      BY <1>1, <2>1, SwapsNew
    <2>3. QED
      BY <1>1, <2>2
  <1>7. closed' = closed /\ ~closed
    BY <1>1 DEF Swaps
  <1> HIDE DEF gone, kept, old
  <1>8. {proxy'[t] : t \in tunnels'} = inForce'
    <2>1. \A t \in tunnels' : proxy'[t] \in cfg[th]
      BY <1>3, <1>5, <1>6
    <2>2. \A p \in cfg[th] : \E t \in tunnels' : proxy'[t] = p
      <3> SUFFICES ASSUME NEW p \in cfg[th] PROVE \E t \in tunnels' : proxy'[t] = p
        OBVIOUS
      <3>1. CASE p \in old
        BY <3>1, <1>3, <1>5 DEF old, Old, kept
      <3>2. CASE p \notin old
        <4>1. PICK t \in N : made[t] = p
          BY <3>2, <1>1
        <4>2. QED
          BY <4>1, <1>3, <1>6
      <3>3. QED
        BY <3>1, <3>2
    <2>3. QED
      BY <2>1, <2>2, <1>1
  <1>9. \A t, u \in tunnels' : proxy'[t] = proxy'[u] => t = u
    <2>1. \A t, u \in kept : proxy'[t] = proxy'[u] => t = u
      BY <1>5 DEF ListMatchesConfig, kept, Kept
    <2>2. QED
      BY <2>1, <1>1, <1>3, <1>5, <1>6
  <1>10. QED
    BY <1>7, <1>8, <1>9 DEF ListMatchesConfig

LEMMA ListReplace ==
  ASSUME TypeOK, Control, ListMatchesConfig, \A t \in Tunnels : About(t),
         ReconnectReplaces
  PROVE  ListMatchesConfig'
  <1> DEFINE t == cur["ui"]
  <1>1. t \in tunnels
    BY DEF ReconnectReplaces, Listed
  <1>2. PICK nt, made :
          /\ nt \in Tunnels /\ Swaps("ui", {nt}, made, {t})
          /\ made[nt] = proxy[t] /\ pc["ui"] = "replace" /\ inForce' = inForce
    BY <1>1, ListedProxies, ReconnectReplacesIs
  <1> HIDE DEF t
  <1>3. /\ tunnels' = (tunnels \ {t}) \cup {nt} /\ nt \notin tunnels
        /\ proxy'[nt] = proxy[t]
    BY <1>2, ThreadsApart, SwapsSets, SwapsNew
  <1>4. \A u \in tunnels : proxy'[u] = proxy[u]
    <2>1. \A u \in tunnels : u \in Tunnels \ {nt}
      BY <1>3 DEF TypeOK
    <2>2. QED
      BY <2>1, <1>2, ThreadsApart, SwapsOld
  <1>5. closed' = closed /\ ~closed
    BY <1>2 DEF Swaps
  <1>6. {proxy'[u] : u \in tunnels'} = {proxy[u] : u \in tunnels}
    BY <1>1, <1>3, <1>4
  <1>7. \A u, v \in tunnels' : proxy'[u] = proxy'[v] => u = v
    BY <1>1, <1>3, <1>4 DEF ListMatchesConfig
  <1>8. QED
    BY <1>2, <1>5, <1>6, <1>7 DEF ListMatchesConfig

LEMMA ListInit == Init => ListMatchesConfig
  BY DEF Init, ListMatchesConfig

LEMMA ListStep ==
  ASSUME TypeOK, Control, ListMatchesConfig, \A t \in Tunnels : About(t),
         [Next]_vars
  PROVE  ListMatchesConfig'
  <1>1. CASE \E t \in Tunnels : Tunnel(t)
    BY <1>1, TunnelAlone, ListSame
  <1>2. CASE \E th \in Threads : ReloadSwaps(th)
    BY <1>2, ListReload
  <1>3. CASE ReconnectReplaces
    BY <1>3, ListReplace
  <1>4. CASE Shutdown
    BY <1>4 DEF Shutdown, ListMatchesConfig
  <1>5. CASE \/ Launch \/ ShowMenu \/ Command \/ ReconnectChecks
             \/ ReconnectGivesUp \/ WatchConfig \/ Save \/ PortChanges
             \/ \E th \in Threads :
                   LoadConfig(th) \/ ReloadLocks(th) \/ ReloadRefused(th)
             \/ \E th \in Threads : Work(th)
             \/ UNCHANGED vars
    <2>1. UNCHANGED <<tunnels, closed, inForce, proxy>>
      BY <1>5 DEF Launch, ShowMenu, Command, ReconnectChecks, ReconnectGivesUp,
                  notUI, WatchConfig, FirstStamp, Poll, Settle, Stamps,
                  Save, PortChanges, LoadConfig, ReloadLocks, ReloadRefused,
                  notReload, Work, AllStopped, StartListens, StartFails,
                  StartReportsFailure, StartReadsStatus, ReadStatus, StartTells,
                  AllStarted
    <2>2. QED
      BY <2>1, ListSame
  <1>6. QED
    BY <1>1, <1>2, <1>3, <1>4, <1>5 DEF Next, Reload, UI, Reconnect

-----------------------------------------------------------------------------
(* Why a tunnel is stopped. *)

LEMMA ReasonsInit == Init => Reasons
  BY DEF Init, Reasons, Threads

LEMMA ReasonsSame ==
  ASSUME Reasons, \A th \in Threads : stopped'[th] \subseteq stopped[th],
         listenFail \subseteq listenFail', closed => closed',
         UNCHANGED <<proxy, inForce>>
  PROVE  Reasons'
  BY ThreadsApart DEF Reasons

\* Who is being stopped is not made anew.
LEMMA ReasonsSwaps ==
  ASSUME TypeOK, Control, NEW th \in Threads, NEW N, NEW made, NEW gone,
         Swaps(th, N, made, gone), pc[th] \in {"swap", "replace"},
         NEW other \in Threads \ {th}, NEW t \in stopped[other]
  PROVE  /\ stopped'[other] = stopped[other]
         /\ proxy'[t] = proxy[t]
         /\ t \in listenFail => t \in listenFail'
  <1>1. t \in Tunnels \ N
    BY SwapsSets DEF TypeOK, ToStop
  <1>2. QED
    BY <1>1, SwapsSets, SwapsOld

LEMMA ReasonsReload ==
  ASSUME TypeOK, Control, Reasons, NEW th \in Threads, ReloadSwaps(th)
  PROVE  Reasons'
  <1> DEFINE gone == Gone(cfg[th])
  <1>1. PICK N, made :
           /\ Swaps(th, N, made, gone)
           /\ pc[th] = "swap" /\ inForce' = cfg[th]
    BY ReloadSwapsIs
  <1>2. gone \subseteq tunnels
    BY DEF Gone
  <1>3. ASSUME NEW t \in gone
        PROVE  t \in listenFail' \/ proxy'[t] \notin inForce'
    <2>1. t \in tunnels /\ (t \in listenFail \/ proxy[t] \notin cfg[th])
      BY DEF Gone
    <2>2. t \in Tunnels \ N
      BY <2>1, <1>1, SwapsSets DEF TypeOK, Fresh
    <2>3. proxy'[t] = proxy[t] /\ (t \in listenFail => t \in listenFail')
      BY <2>2, <1>1, SwapsOld
    <2>4. QED
      BY <1>1, <2>1, <2>3
  <1> HIDE DEF gone
  <1>4. stopped'[th] = gone
    BY <1>1, SwapsSets
  <1>5. CASE th = "ui"
    <2>1. pc["watch"] = "off" /\ tunnels = {}
      BY <1>1, <1>5 DEF Control
    <2>2. stopped["watch"] = {}
      BY <2>1, ThreadsApart DEF Control
    <2>3. stopped'["watch"] = {}
      BY <1>1, <1>5, <2>2, ThreadsApart, SwapsSets
    <2>4. stopped'["ui"] = {}
      BY <1>2, <1>4, <1>5, <2>1
    <2>5. QED
      BY <2>3, <2>4 DEF Reasons
  <1>6. CASE th = "watch"
    <2>1. \A t \in stopped["ui"] : t \in listenFail => t \in listenFail'
      BY <1>1, <1>6, ThreadsApart, ReasonsSwaps
    <2>2. stopped'["ui"] = stopped["ui"] /\ closed' = closed
      BY <1>1, <1>6, ThreadsApart, SwapsSets DEF Swaps
    <2>3. QED
      BY <1>3, <1>4, <1>6, <2>1, <2>2 DEF Reasons
  <1>7. QED
    BY <1>5, <1>6, ThreadsApart

LEMMA ReasonsReplace ==
  ASSUME TypeOK, Control, ListMatchesConfig, Reasons, ReconnectReplaces
  PROVE  Reasons'
  <1>1. cur["ui"] \in tunnels
    BY DEF ReconnectReplaces, Listed
  <1>2. PICK nt, made :
          /\ nt \in Tunnels /\ Swaps("ui", {nt}, made, {cur["ui"]})
          /\ pc["ui"] = "replace" /\ inForce' = inForce
    BY <1>1, ListedProxies, ReconnectReplacesIs
  <1>3. cur["ui"] \in listenFail'
    <2>1. cur["ui"] \in listenFail
      BY <1>2, ThreadsApart DEF Control
    <2>2. cur["ui"] \in Tunnels \ {nt}
      BY <1>1, <1>2, ThreadsApart, SwapsSets DEF TypeOK, Fresh
    <2>3. QED
      BY <1>2, <2>1, <2>2, ThreadsApart, SwapsOld
  <1>4. stopped'["ui"] = {cur["ui"]} /\ stopped'["watch"] = stopped["watch"]
    BY <1>2, ThreadsApart, SwapsSets
  <1>5. closed' = closed
    BY <1>2 DEF Swaps
  <1>6. \A t \in stopped["watch"] :
          /\ proxy'[t] = proxy[t]
          /\ t \in listenFail => t \in listenFail'
    BY <1>2, ThreadsApart, ReasonsSwaps
  <1>7. QED
    BY <1>2, <1>3, <1>4, <1>5, <1>6 DEF Reasons

LEMMA ReasonsStep ==
  ASSUME TypeOK, Control, ListMatchesConfig, Reasons, [Next]_vars
  PROVE  Reasons'
  <1>1. CASE \E t \in Tunnels : Tunnel(t)
    BY <1>1, TunnelAlone, ReasonsSame
  <1>2. CASE \E th \in Threads : Work(th)
    <2>1. /\ \A th \in Threads : stopped'[th] \subseteq stopped[th]
          /\ listenFail \subseteq listenFail' /\ UNCHANGED <<closed, proxy, inForce>>
      BY <1>2 DEF Work, AllStopped, StartListens, StartFails,
                  StartReportsFailure, StartReadsStatus, ReadStatus, StartTells,
                  AllStarted, TypeOK
    <2>2. QED
      BY <2>1, ReasonsSame
  <1>3. CASE \E th \in Threads : ReloadSwaps(th)
    BY <1>3, ReasonsReload
  <1>4. CASE ReconnectReplaces
    BY <1>4, ReasonsReplace
  <1>5. CASE Shutdown
    BY <1>5 DEF Shutdown, Reasons
  <1>6. CASE \/ Launch \/ ShowMenu \/ Command \/ ReconnectChecks
             \/ ReconnectGivesUp \/ WatchConfig \/ Save \/ PortChanges
             \/ \E th \in Threads :
                   LoadConfig(th) \/ ReloadLocks(th) \/ ReloadRefused(th)
             \/ UNCHANGED vars
    <2>1. UNCHANGED <<stopped, listenFail, closed, proxy, inForce>>
      BY <1>6 DEF Launch, ShowMenu, Command, ReconnectChecks, ReconnectGivesUp,
                  notUI, WatchConfig, FirstStamp, Poll, Settle, Stamps,
                  Save, PortChanges, LoadConfig, ReloadLocks, ReloadRefused,
                  notReload
    <2>2. QED
      BY <2>1, ReasonsSame
  <1>7. QED
    BY <1>1, <1>2, <1>3, <1>4, <1>5, <1>6 DEF Next, Reload, UI, Reconnect

-----------------------------------------------------------------------------
(* Who may have which port. *)

LEMMA PortsInit == Init => PortsApart
  BY DEF Init, PortsApart, Alive, ToStart

\* Nobody comes to life or into the list, and who is waited for goes on
\* waiting, or is dead.
LEMMA PortsShrink ==
  ASSUME PortsApart, UNCHANGED <<proxy, tunnels>>,
         \A t \in Tunnels : Alive(t)' => Alive(t),
         \A th \in Threads : stopped[th] \subseteq Tunnels,
         \A th \in Threads : stopped'[th] \subseteq stopped[th],
         \A th \in Threads : \A u \in stopped[th] :
            Alive(u)' => u \in stopped'[th] /\ started'[th] = started[th]
  PROVE  PortsApart'
  <1>1. ASSUME NEW t \in Tunnels, NEW u \in Tunnels,
               Alive(t)', Alive(u)', SameListen(t, u)'
        PROVE  \E th \in Threads : \/ t \in started'[th] /\ u \in stopped'[th]
                                   \/ u \in started'[th] /\ t \in stopped'[th]
    <2>1. Alive(t) /\ Alive(u) /\ SameListen(t, u)
      BY <1>1 DEF SameListen
    <2>2. PICK th \in Threads : \/ t \in started[th] /\ u \in stopped[th]
                                \/ u \in started[th] /\ t \in stopped[th]
      BY <2>1 DEF PortsApart
    <2>3. QED
      BY <1>1, <2>2
  <1>2. ASSUME NEW th \in Threads, NEW u \in stopped'[th], NEW v \in tunnels',
               Alive(u)', SameListen(u, v)'
        PROVE  v \in started'[th]
    <2>1. u \in stopped[th] /\ v \in tunnels /\ Alive(u) /\ SameListen(u, v)
      BY <1>2 DEF SameListen
    <2>2. v \in started[th]
      BY <2>1 DEF PortsApart
    <2>3. QED
      BY <1>2, <2>1, <2>2
  <1>3. QED
    BY <1>1, <1>2 DEF PortsApart

\* The new tunnels share their ports with nobody but those that are stopped.
LEMMA PortsSwaps ==
  ASSUME TypeOK, Control, PortsApart, \A t \in Tunnels : About(t),
         NEW th \in Threads, NEW N, NEW made, NEW gone,
         Swaps(th, N, made, gone), pc[th] \in {"swap", "replace"},
         \A t \in N, u \in Tunnels \ N :
            Alive(u) /\ made[t].listen = proxy[u].listen => u \in gone,
         \A t, u \in N : made[t].listen = made[u].listen => t = u,
         \A t, u \in tunnels : proxy[t].listen = proxy[u].listen => t = u
  PROVE  PortsApart'
  <1>1. /\ N \subseteq Tunnels /\ gone \subseteq tunnels /\ tunnels \subseteq Tunnels
        /\ tunnels' = (tunnels \ gone) \cup N
        /\ \A o \in Threads : stopped[o] \subseteq Tunnels \ N
        /\ gone \cap N = {}
    BY SwapsSets DEF TypeOK, ToStop
  <1>2. /\ started[th] = {} /\ stopped[th] = {}
        /\ started'[th] = N /\ stopped'[th] = gone
        /\ \A o \in Threads \ {th} :
              started'[o] = started[o] /\ stopped'[o] = stopped[o]
    BY SwapsSets
  <1>3. \A t \in Tunnels \ N :
          proxy'[t] = proxy[t] /\ (Alive(t)' <=> Alive(t))
    BY SwapsOld DEF Alive
  <1>4. \A t \in N : proxy'[t] = made[t]
    BY <1>1, SwapsNew
  <1>5. \A u \in Tunnels \ N, o \in Threads \ {th} :
           u \in stopped[o] => u \notin gone
    BY <1>1 DEF About, ToStop
  <1>6. ASSUME NEW t \in Tunnels, NEW u \in Tunnels,
               Alive(t)', Alive(u)', SameListen(t, u)'
        PROVE  \E o \in Threads : \/ t \in started'[o] /\ u \in stopped'[o]
                                  \/ u \in started'[o] /\ t \in stopped'[o]
    <2>1. t # u /\ proxy'[t].listen = proxy'[u].listen
      BY <1>6 DEF SameListen
    <2>2. CASE t \in N /\ u \in N
      BY <2>1, <2>2, <1>4
    <2>3. CASE t \in N /\ u \notin N
      <3>1. Alive(u) /\ made[t].listen = proxy[u].listen
        BY <2>1, <2>3, <1>3, <1>4, <1>6
      <3>2. u \in gone
        BY <2>3, <3>1
      <3>3. QED
        BY <3>2, <2>3, <1>2
    <2>4. CASE t \notin N /\ u \in N
      <3>1. Alive(t) /\ made[u].listen = proxy[t].listen
        BY <2>1, <2>4, <1>3, <1>4, <1>6
      <3>2. t \in gone
        BY <2>4, <3>1
      <3>3. QED
        BY <3>2, <2>4, <1>2
    <2>5. CASE t \notin N /\ u \notin N
      <3>1. Alive(t) /\ Alive(u) /\ SameListen(t, u)
        BY <2>1, <2>5, <1>3, <1>6 DEF SameListen
      <3>2. PICK o \in Threads : \/ t \in started[o] /\ u \in stopped[o]
                                 \/ u \in started[o] /\ t \in stopped[o]
        BY <3>1 DEF PortsApart
      <3>3. QED
        BY <3>2, <1>2
    <2>6. QED
      BY <2>2, <2>3, <2>4, <2>5
  <1>7. ASSUME NEW o \in Threads, NEW u \in stopped'[o], NEW v \in tunnels',
               Alive(u)', SameListen(u, v)'
        PROVE  v \in started'[o]
    <2>1. u # v /\ proxy'[u].listen = proxy'[v].listen
      BY <1>7 DEF SameListen
    <2>2. u \in Tunnels \ N
      BY <1>1, <1>2
    <2>3. Alive(u) /\ proxy'[u] = proxy[u]
      BY <2>2, <1>3, <1>7
    <2>4. CASE o = th /\ v \notin N
      <3>1. u \in tunnels /\ v \in tunnels
        BY <2>4, <1>1, <1>2
      <3>2. proxy'[v] = proxy[v]
        BY <3>1, <2>4, <1>1, <1>3
      <3>3. QED
        BY <3>1, <3>2, <2>1, <2>3
    <2>5. CASE o # th /\ v \notin N
      <3>1. u \in stopped[o] /\ v \in tunnels
        BY <2>5, <1>1, <1>2
      <3>2. SameListen(u, v)
        BY <3>1, <2>1, <2>3, <2>5, <1>1, <1>3 DEF SameListen
      <3>3. v \in started[o]
        BY <3>1, <3>2, <2>3 DEF PortsApart
      <3>4. QED
        BY <3>3, <2>5, <1>2
    <2>6. CASE v \in N
      <3>1. u \in gone
        BY <2>1, <2>2, <2>3, <2>6, <1>4
      <3>2. o = th
        BY <3>1, <2>2, <1>2, <1>5
      <3>3. QED
        BY <3>2, <2>6, <1>2
    <2>7. QED
      BY <2>4, <2>5, <2>6
  <1>8. QED
    BY <1>6, <1>7 DEF PortsApart

LEMMA ListedApart ==
  ASSUME TypeOK, ListMatchesConfig
  PROVE  \A t, u \in tunnels : proxy[t].listen = proxy[u].listen => t = u
  <1> SUFFICES ASSUME NEW t \in tunnels, NEW u \in tunnels,
                      proxy[t].listen = proxy[u].listen
               PROVE  t = u
    OBVIOUS
  <1>1. proxy[t] \in inForce /\ proxy[u] \in inForce
    BY DEF ListMatchesConfig
  <1>2. proxy[t] = proxy[u]
    BY <1>1 DEF TypeOK, Configs
  <1>3. QED
    BY <1>2 DEF ListMatchesConfig

\* Who listens, or is yet to, and is being stopped has not lost its port.
LEMMA NotFailed ==
  ASSUME NEW t \in Tunnels, About(t), Alive(t)
  PROVE  t \notin listenFail
  BY DEF About, Alive

LEMMA PortsReload ==
  ASSUME TypeOK, Control, ListMatchesConfig, Reasons, PortsApart,
         \A t \in Tunnels : About(t), NEW th \in Threads, ReloadSwaps(th)
  PROVE  PortsApart'
  <1> DEFINE c == cfg[th]
  <1>1. PICK N, made :
           /\ Swaps(th, N, made, Gone(c))
           /\ {made[t] : t \in N} = c \ Old(c)
           /\ \A t, u \in N : made[t] = made[u] => t = u
           /\ pc[th] = "swap" /\ c \in Configs
    BY ReloadSwapsIs
  <1>2. ~closed
    BY <1>1 DEF Swaps
  <1>3. \A t \in N : made[t] \in c \ Old(c)
    BY <1>1
  <1>4. \A p, q \in c : p.listen = q.listen => p = q
    BY <1>1 DEF Configs
  <1>5. \A t, u \in N : made[t].listen = made[u].listen => t = u
    BY <1>1, <1>3, <1>4
  <1>6. ASSUME NEW t \in N, NEW u \in Tunnels \ N,
               Alive(u), made[t].listen = proxy[u].listen
        PROVE  u \in Gone(c)
    <2>1. u \notin listenFail
      BY <1>6, NotFailed
    <2>2. CASE u \in tunnels
      <3>1. SUFFICES ASSUME u \notin Gone(c) PROVE FALSE
        OBVIOUS
      <3>2. u \in Kept(c)
        BY <3>1, <2>1, <2>2 DEF Gone, Kept
      <3>3. proxy[u] \in c /\ proxy[u] \in Old(c)
        BY <3>2 DEF Kept, Old
      <3>4. QED
        BY <3>3, <1>3, <1>4, <1>6
    <2>3. CASE ToStop(u)
      <3>1. PICK o \in Threads : u \in stopped[o]
        BY <2>3 DEF ToStop
      <3>2. pc[o] = "stop"
        BY <3>1 DEF Control
      <3>3. o # "ui"
        BY <3>1, <2>1, <1>2 DEF Reasons
      <3>4. o # "watch" \/ th # "ui"
        BY <3>2, <1>1 DEF Control
      <3>5. QED
        BY <3>2, <3>3, <3>4, <1>1, ThreadsApart
    <2>4. QED
      BY <1>6, <2>2, <2>3 DEF About
  <1> HIDE DEF c
  <1>7. QED
    BY <1>1, <1>5, <1>6, ListedApart, PortsSwaps

LEMMA PortsReplace ==
  ASSUME TypeOK, Control, ListMatchesConfig, Reasons, PortsApart,
         \A t \in Tunnels : About(t), ReconnectReplaces
  PROVE  PortsApart'
  <1> DEFINE v == cur["ui"]
  <1>1. v \in tunnels
    BY DEF ReconnectReplaces, Listed
  <1>2. PICK nt, made :
          /\ nt \in Tunnels /\ Swaps("ui", {nt}, made, {v})
          /\ made[nt] = proxy[v] /\ pc["ui"] = "replace"
    BY <1>1, ListedProxies, ReconnectReplacesIs
  <1>3. v \in Tunnels /\ v \in listenFail
    BY <1>1, <1>2, ThreadsApart DEF Control, TypeOK
  <1> HIDE DEF v
  <1>4. ASSUME NEW u \in Tunnels, Alive(u), made[nt].listen = proxy[u].listen
        PROVE  u = v
    <2>1. CASE u \in tunnels
      BY <1>1, <1>2, <1>4, <2>1, ListedApart
    <2>2. CASE ToStop(u) /\ u # v
      <3>1. PICK o \in Threads : u \in stopped[o]
        BY <2>2 DEF ToStop
      <3>2. SameListen(u, v)
        BY <1>2, <1>4, <2>2 DEF SameListen
      <3>3. v \in started[o]
        BY <1>1, <1>4, <3>1, <3>2 DEF PortsApart
      <3>4. QED
        BY <1>3, <3>3 DEF About, ToStart
    <2>3. QED
      BY <1>4, <2>1, <2>2 DEF About
  <1>5. QED
    <2>1. \A t \in {nt}, u \in Tunnels \ {nt} :
             Alive(u) /\ made[t].listen = proxy[u].listen => u \in {v}
      BY <1>4
    <2>2. \A t, u \in {nt} : made[t].listen = made[u].listen => t = u
      OBVIOUS
    <2>3. QED
      BY <1>2, <2>1, <2>2, ThreadsApart, ListedApart, PortsSwaps

LEMMA PortsWork ==
  ASSUME TypeOK, Control, PortsApart, \A t \in Tunnels : About(t),
         NEW th \in Threads, Work(th)
  PROVE  PortsApart'
  <1>0. \A o \in Threads : stopped[o] \subseteq Tunnels
    BY DEF TypeOK
  <1>1. CASE AllStopped(th)
    <2>1. /\ UNCHANGED <<ln, cancelled, proxy, tunnels, started>>
          /\ \A o \in Threads \ {th} : stopped'[o] = stopped[o]
          /\ stopped'[th] = {}
          /\ \A t \in stopped[th] : stop[t] = "done"
      BY <1>1 DEF AllStopped, TypeOK
    <2>2. \A t \in stopped[th] : t \in cancelled
      BY <1>0, <2>1 DEF About
    <2>3. \A t \in Tunnels : Alive(t)' <=> Alive(t)
      BY <2>1 DEF Alive, ToStart
    <2>4. \A t \in stopped[th] : ~Alive(t)
      BY <2>2 DEF Alive
    <2>5. \A o \in Threads : \A u \in stopped[o] :
            Alive(u)' => u \in stopped'[o] /\ started'[o] = started[o]
      BY <1>0, <2>1, <2>3, <2>4
    <2>6. \A o \in Threads : stopped'[o] \subseteq stopped[o]
      BY <2>1
    <2>7. QED
      BY <1>0, <2>1, <2>3, <2>5, <2>6, PortsShrink
  <1>2. CASE StartListens(th) \/ StartFails(th)
    <2>1. stopped[th] = {}
      BY <1>2 DEF StartListens, StartFails, Goes, Control
    <2>2. /\ \A o \in Threads \ {th} : started'[o] = started[o]
          /\ \A o \in Threads : started'[o] \subseteq started[o]
          /\ UNCHANGED <<cancelled, proxy, tunnels, stopped>>
      BY <1>2 DEF StartListens, StartFails, TypeOK
    <2>3. \A t \in Tunnels : ln'[t] = "open" => ln[t] = "open" \/ ToStart(t)
      BY <1>2 DEF StartListens, StartFails, TypeOK, ToStart
    <2>4. \A t \in Tunnels : Alive(t)' => Alive(t)
      BY <2>2, <2>3 DEF Alive, ToStart
    <2>5. \A o \in Threads : \A u \in stopped[o] :
            Alive(u)' => u \in stopped'[o] /\ started'[o] = started[o]
      BY <2>1, <2>2
    <2>6. QED
      BY <1>0, <2>2, <2>4, <2>5, PortsShrink
  <1>3. CASE \/ StartReportsFailure(th) \/ StartReadsStatus(th)
             \/ StartTells(th) \/ AllStarted(th)
    BY <1>3 DEF StartReportsFailure, StartReadsStatus, ReadStatus, StartTells,
                AllStarted, PortsApart, Alive, ToStart, SameListen
  <1>4. QED
    BY <1>1, <1>2, <1>3 DEF Work

LEMMA PortsTunnel ==
  ASSUME TypeOK, PortsApart, NEW me \in Tunnels, Tunnel(me)
  PROVE  PortsApart'
  <1>1. UNCHANGED <<proxy, tunnels, started, stopped>>
    BY TunnelAlone
  <1>2. \A t \in Tunnels : /\ ln'[t] = "open" => ln[t] = "open"
                           /\ t \in cancelled => t \in cancelled'
    BY DEF Tunnel, StateChanges, MaintainTells, MaintainReturns, StopCancels,
           StopWaits, StopTells, ReadsStatus, ReadStatus, TypeOK
  <1>3. \A t \in Tunnels : Alive(t)' => Alive(t)
    BY <1>1, <1>2 DEF Alive, ToStart
  <1>4. \A th \in Threads : stopped[th] \subseteq Tunnels
    BY DEF TypeOK
  <1>5. QED
    BY <1>1, <1>3, <1>4, PortsShrink

LEMMA PortsShutdown ==
  ASSUME TypeOK, Control, PortsApart, Shutdown
  PROVE  PortsApart'
  <1>1. /\ UNCHANGED <<proxy, ln, cancelled, started>> /\ tunnels' = {}
        /\ stopped["ui"] = {} /\ stopped'["watch"] = stopped["watch"]
    BY ShutdownSets
  <1>2. \A th \in Threads : stopped[th] \subseteq stopped'[th]
    BY <1>1, ThreadsApart
  <1>3. \A t \in Tunnels : Alive(t)' <=> Alive(t)
    BY <1>1 DEF Alive, ToStart
  <1>4. ASSUME NEW t \in Tunnels, NEW u \in Tunnels,
               Alive(t)', Alive(u)', SameListen(t, u)'
        PROVE  \E th \in Threads : \/ t \in started'[th] /\ u \in stopped'[th]
                                   \/ u \in started'[th] /\ t \in stopped'[th]
    <2>1. Alive(t) /\ Alive(u) /\ SameListen(t, u)
      BY <1>1, <1>3, <1>4 DEF SameListen
    <2>2. QED
      BY <1>1, <1>2, <2>1 DEF PortsApart
  <1>5. QED
    BY <1>1, <1>4 DEF PortsApart

LEMMA PortsStep ==
  ASSUME TypeOK, Control, ListMatchesConfig, Reasons, PortsApart,
         \A t \in Tunnels : About(t), [Next]_vars
  PROVE  PortsApart'
  <1>1. CASE \E t \in Tunnels : Tunnel(t)
    BY <1>1, PortsTunnel
  <1>2. CASE \E th \in Threads : Work(th)
    BY <1>2, PortsWork
  <1>3. CASE \E th \in Threads : ReloadSwaps(th)
    BY <1>3, PortsReload
  <1>4. CASE ReconnectReplaces
    BY <1>4, PortsReplace
  <1>5. CASE Shutdown
    BY <1>5, PortsShutdown
  <1>6. CASE \/ Launch \/ ShowMenu \/ Command \/ ReconnectChecks
             \/ ReconnectGivesUp \/ WatchConfig \/ Save \/ PortChanges
             \/ \E th \in Threads :
                   LoadConfig(th) \/ ReloadLocks(th) \/ ReloadRefused(th)
             \/ UNCHANGED vars
    <2>1. UNCHANGED <<tunnels, proxy, ln, cancelled, started, stopped>>
      BY <1>6 DEF Launch, ShowMenu, Command, ReconnectChecks, ReconnectGivesUp,
                  notUI, WatchConfig, FirstStamp, Poll, Settle, Stamps,
                  Save, PortChanges, LoadConfig, ReloadLocks, ReloadRefused,
                  notReload
    <2>2. QED
      BY <2>1 DEF PortsApart, Alive, ToStart, SameListen
  <1>7. QED
    BY <1>1, <1>2, <1>3, <1>4, <1>5, <1>6 DEF Next, Reload, UI, Reconnect

-----------------------------------------------------------------------------
(* The stamps of watchConfig. *)

LEMMA StampedInit == Init => Stamped
  BY AppAssumption DEF Init, Stamped, Threads, Starting

\* How the threads move, and that they do not touch the stamps.
LEMMA WorkMoves ==
  ASSUME TypeOK, NEW th \in Threads, Work(th)
  PROVE  /\ UNCHANGED <<edits, seen, loaded>>
         /\ \A o \in Threads : pc'[o] # pc[o] => pc[o] \in Starting
  <1> USE DEF Goes, Starting, TypeOK
  <1>1. CASE AllStopped(th) \/ AllStarted(th)
    BY <1>1 DEF AllStopped, AllStarted
  <1>2. CASE StartListens(th) \/ StartFails(th)
    BY <1>2 DEF StartListens, StartFails
  <1>3. CASE StartReportsFailure(th) \/ StartReadsStatus(th) \/ StartTells(th)
    BY <1>3 DEF StartReportsFailure, StartReadsStatus, ReadStatus, StartTells
  <1>4. QED
    BY <1>1, <1>2, <1>3 DEF Work

LEMMA ReloadMoves ==
  ASSUME TypeOK, NEW th \in Threads, Reload(th)
  PROVE  /\ UNCHANGED <<edits, seen>>
         /\ loaded' = loaded \/ LoadConfig(th)
         /\ \A o \in Threads : pc'[o] # pc[o] =>
               pc[o] \in {"lock", "swap"} \/ (pc[o] = "reload" /\ pc'[o] = "lock")
         /\ ~LoadConfig(th) => \A o \in Threads :
               pc'[o] # pc[o] => pc[o] \in {"lock", "swap"}
  <1> USE DEF Goes, notReload, TypeOK
  <1>1. CASE LoadConfig(th)
    BY <1>1 DEF LoadConfig
  <1>2. CASE ReloadLocks(th)
    BY <1>2 DEF ReloadLocks
  <1>3. CASE ReloadRefused(th)
    BY <1>3 DEF ReloadRefused
  <1>4. CASE ReloadSwaps(th)
    BY <1>4 DEF ReloadSwaps
  <1>5. QED
    BY <1>1, <1>2, <1>3, <1>4 DEF Reload

LEMMA StampedStep ==
  ASSUME TypeOK, Control, ListMatchesConfig, Stamped, [Next]_vars
  PROVE  Stamped'
  <1>0. /\ seen \in Nat /\ edits \in Nat /\ loaded \in Nat
        /\ seen <= edits /\ loaded <= edits
    BY AppAssumption DEF TypeOK, Stamped
  <1>1. CASE Save
    <2>1. edits' = edits + 1 /\ UNCHANGED <<seen, loaded, pc>>
      BY <1>1 DEF Save
    <2>2. QED
      BY <1>0, <2>1 DEF Stamped
  <1>2. CASE FirstStamp \/ Settle
    <2>1. /\ seen' = edits /\ pc'["watch"] \in {"poll", "reload"}
          /\ UNCHANGED <<edits, loaded>>
      BY <1>2, ThreadsApart DEF FirstStamp, Settle, Stamps, Goes, TypeOK
    <2>2. QED
      BY <1>0, <2>1 DEF Stamped, Starting
  <1>3. CASE \E th \in Threads : LoadConfig(th)
    <2>1. loaded' = edits /\ UNCHANGED <<edits, seen>>
      BY <1>3 DEF LoadConfig, notReload
    <2>2. QED
      BY <1>0, <2>1 DEF Stamped
  <1>4. ASSUME UNCHANGED <<edits, seen, loaded>>,
               pc'["watch"] \in {"lock", "swap"} \cup Starting =>
                  pc["watch"] \in {"lock", "swap"} \cup Starting
        PROVE  Stamped'
    BY <1>4 DEF Stamped
  <1>5. CASE \E t \in Tunnels : Tunnel(t)
    BY <1>4, <1>5, TunnelAlone
  <1>6. CASE \E th \in Threads : Work(th)
    <2>1. /\ UNCHANGED <<edits, seen, loaded>>
          /\ pc'["watch"] # pc["watch"] => pc["watch"] \in Starting
      BY <1>6, ThreadsApart, WorkMoves
    <2>2. QED
      BY <2>1, <1>4
  <1>7. CASE \E th \in Threads : Reload(th) /\ ~LoadConfig(th)
    <2>1. /\ UNCHANGED <<edits, seen, loaded>>
          /\ pc'["watch"] # pc["watch"] => pc["watch"] \in {"lock", "swap"}
      BY <1>7, ThreadsApart, ReloadMoves
    <2>2. QED
      BY <2>1, <1>4
  <1>8. CASE UI
    <2>1. /\ UNCHANGED <<edits, seen, loaded>>
          /\ pc["watch"] # pc'["watch"] => pc'["watch"] = "stamp"
      BY <1>8, ThreadsApart DEF UI, Launch, ShowMenu, Command, Reconnect,
            ReconnectChecks, ReconnectGivesUp, ReconnectReplaces, Shutdown,
            notUI, Goes, TypeOK
    <2>2. QED
      BY <2>1, <1>4 DEF Starting
  <1>9. CASE Poll
    BY <1>4, <1>9, ThreadsApart DEF Poll, Goes, TypeOK, Starting
  <1>10. CASE PortChanges \/ UNCHANGED vars
    BY <1>4, <1>10 DEF PortChanges
  <1>11. QED
    BY <1>1, <1>2, <1>3, <1>5, <1>6, <1>7, <1>8, <1>9, <1>10
       DEF Next, WatchConfig

-----------------------------------------------------------------------------
(* The inductive invariant. *)

LEMMA IInvInit == Init => IInv
  BY TypeInit, ControlInit, ListInit, ReasonsInit, PortsInit, StampedInit,
     AboutInit, AlarmInit DEF IInv

LEMMA IInvStep == IInv /\ [Next]_vars => IInv'
  <1> SUFFICES ASSUME IInv, [Next]_vars PROVE IInv'
    OBVIOUS
  <1>1. /\ TypeOK /\ Control /\ ListMatchesConfig /\ Reasons /\ PortsApart
        /\ Stamped
        /\ \A t \in Tunnels : About(t) /\ Alarm(t)
    BY DEF IInv
  <1>2. TypeOK' /\ Control' /\ Stamped' /\ Reasons'
    BY <1>1, TypeStep, ControlStep, StampedStep, ReasonsStep
  <1>3. \A t \in Tunnels : About(t)'
    BY <1>1, AboutStep
  <1>4. \A t \in Tunnels : Alarm(t)'
    BY <1>1, AlarmStep
  <1>5. ListMatchesConfig' /\ PortsApart'
    BY <1>1, ListStep, PortsStep
  <1>6. QED
    BY <1>2, <1>3, <1>4, <1>5 DEF IInv

LEMMA Inductive == Spec => []IInv
  BY IInvInit, IInvStep, PTL DEF Spec

-----------------------------------------------------------------------------
(* What follows. *)

\* The types, of any size.
THEOREM TypeCorrect == Spec => []TypeOK
  <1>1. IInv => TypeOK
    BY DEF IInv
  <1>2. QED
    BY <1>1, Inductive, PTL

\* app_windows.go:118, 234-240, 288: what Reload, Reconnect and Shutdown do to
\* the list at the same time never loses a tunnel that listens.
THEOREM NoTunnelLost == Spec => []NoOrphan
  <1>1. IInv => NoOrphan
    BY DEF IInv, NoOrphan, About, Alive, ToStop
  <1>2. QED
    BY <1>1, Inductive, PTL

\* Reload and Reconnect: one tunnel for each proxy of the last configuration
\* that was accepted, and no other.
THEOREM ListAlwaysMatches == Spec => []ListMatchesConfig
  <1>1. IInv => ListMatchesConfig
    BY DEF IInv
  <1>2. QED
    BY <1>1, Inductive, PTL

\* onTunnelChange: the icon shows an alarm for the tunnels that failed.
THEOREM AlarmAlwaysRight == Spec => []AlarmIsRight
  <1>1. ASSUME IInv, NEW t \in Tunnels, mpc[t] = "run", t \notin cancelled
        PROVE  /\ state[t] = "Failed" => t \in notified
               /\ state[t] = "Connected" => t \notin notified
    BY <1>1 DEF IInv, Alarm
  <1>2. IInv => AlarmIsRight
    BY <1>1 DEF AlarmIsRight
  <1>3. QED
    BY <1>2, Inductive, PTL

\* Only StopCancels stops a tunnel.
LEMMA WhoStops ==
  ASSUME TypeOK, Control, ListMatchesConfig, \A t \in Tunnels : About(t),
         [Next]_vars, NEW t \in Tunnels, stop[t] = "no", stop'[t] = "asked"
  PROVE  StopCancels(t)
  <1>1. CASE \E u \in Tunnels : Tunnel(u)
    BY <1>1 DEF Tunnel, StateChanges, MaintainTells, MaintainReturns, StopCancels,
                StopWaits, StopTells, ReadsStatus, ReadStatus, TypeOK
  <1>2. CASE \E th \in Threads : ReloadSwaps(th)
    <2>1. PICK th, N, made, gone :
            /\ th \in Threads
            /\ Swaps(th, N, made, gone) /\ pc[th] = "swap"
      BY <1>2, ReloadSwapsIs
    <2>2. QED
      BY <2>1, SwapsOld, SwapsNew
  <1>3. CASE ReconnectReplaces
    <2>1. cur["ui"] \in tunnels
      BY <1>3 DEF ReconnectReplaces, Listed
    <2>2. PICK nt, made :
            /\ nt \in Tunnels
            /\ Swaps("ui", {nt}, made, {cur["ui"]}) /\ pc["ui"] = "replace"
      BY <1>3, <2>1, ListedProxies, ReconnectReplacesIs
    <2>3. QED
      BY <2>2, ThreadsApart, SwapsOld, SwapsNew
  <1>4. CASE \/ Launch \/ ShowMenu \/ Command \/ ReconnectChecks
             \/ ReconnectGivesUp \/ Shutdown \/ WatchConfig \/ Save \/ PortChanges
             \/ \E th \in Threads :
                   LoadConfig(th) \/ ReloadLocks(th) \/ ReloadRefused(th)
             \/ \E th \in Threads : Work(th)
             \/ UNCHANGED vars
    <2>1. UNCHANGED stop
      BY <1>4 DEF Launch, ShowMenu, Command, ReconnectChecks, ReconnectGivesUp,
                  Shutdown, notUI, WatchConfig, FirstStamp, Poll, Settle, Stamps,
                  Save, PortChanges, LoadConfig, ReloadLocks, ReloadRefused,
                  notReload, Work, AllStopped, StartListens, StartFails,
                  StartReportsFailure, StartReadsStatus, ReadStatus, StartTells,
                  AllStarted
    <2>2. QED
      BY <2>1
  <1>5. QED
    BY <1>1, <1>2, <1>3, <1>4 DEF Next, Reload, UI, Reconnect

\* app_windows.go:80: a proxy that the new configuration has, too, goes on.
THEOREM UnchangedAlwaysGoesOn == Spec => UnchangedGoesOn
  <1>1. ASSUME IInv, [Next]_vars, NEW t \in Tunnels,
               stop[t] = "no", stop'[t] = "asked"
        PROVE  closed \/ proxy[t] \notin inForce \/ t \in listenFail
    <2>1. PICK th \in Threads : t \in stopped[th]
      BY <1>1, WhoStops DEF IInv, StopCancels
    <2>2. QED
      BY <1>1, <2>1, ThreadsApart DEF IInv, Reasons
  <1>2. IInv /\ [Next]_vars =>
          [\A t \in Tunnels :
             stop[t] = "no" /\ stop'[t] = "asked" =>
                 closed \/ proxy[t] \notin inForce \/ t \in listenFail]_vars
    BY <1>1
  <1>3. QED
    BY <1>2, Inductive, PTL DEF Spec, UnchangedGoesOn

\* Who loses its port.
LEMMA WhoFails ==
  ASSUME TypeOK, Control, ListMatchesConfig, \A t \in Tunnels : About(t),
         [Next]_vars, NEW t \in Tunnels, t \notin listenFail, t \in listenFail'
  PROVE  \E th \in Threads : /\ pc[th] = "start" /\ t \in started[th]
                             /\ PortTaken(proxy[t].listen)
  <1>1. CASE \E th \in Threads : StartFails(th)
    BY <1>1 DEF StartFails, Goes
  <1>2. CASE \E th \in Threads : ReloadSwaps(th)
    <2>1. PICK th, N, made, gone :
            /\ th \in Threads
            /\ Swaps(th, N, made, gone) /\ pc[th] = "swap"
      BY <1>2, ReloadSwapsIs
    <2>2. QED
      BY <2>1, SwapsOld, SwapsNew
  <1>3. CASE ReconnectReplaces
    <2>1. cur["ui"] \in tunnels
      BY <1>3 DEF ReconnectReplaces, Listed
    <2>2. PICK nt, made :
            /\ nt \in Tunnels
            /\ Swaps("ui", {nt}, made, {cur["ui"]}) /\ pc["ui"] = "replace"
      BY <1>3, <2>1, ListedProxies, ReconnectReplacesIs
    <2>3. QED
      BY <2>2, ThreadsApart, SwapsOld, SwapsNew
  <1>4. CASE \/ \E u \in Tunnels : Tunnel(u)
             \/ Launch \/ ShowMenu \/ Command \/ ReconnectChecks
             \/ ReconnectGivesUp \/ Shutdown \/ WatchConfig \/ Save \/ PortChanges
             \/ \E th \in Threads :
                   LoadConfig(th) \/ ReloadLocks(th) \/ ReloadRefused(th)
             \/ \E th \in Threads :
                   \/ AllStopped(th) \/ StartListens(th)
                   \/ StartReportsFailure(th) \/ StartReadsStatus(th)
                   \/ StartTells(th) \/ AllStarted(th)
             \/ UNCHANGED vars
    <2>1. UNCHANGED listenFail
      BY <1>4, TunnelAlone
         DEF Launch, ShowMenu, Command, ReconnectChecks, ReconnectGivesUp,
             Shutdown, notUI, WatchConfig, FirstStamp, Poll, Settle, Stamps,
             Save, PortChanges, LoadConfig, ReloadLocks, ReloadRefused,
             notReload, AllStopped, StartListens, StartReportsFailure,
             StartReadsStatus, ReadStatus, StartTells, AllStarted
    <2>2. QED
      BY <2>1
  <1>5. QED
    BY <1>1, <1>2, <1>3, <1>4 DEF Next, Work, Reload, UI, Reconnect

\* stopAll before the loop of Starts: a tunnel in use never loses its port to
\* another one of this program.
THEOREM PortAlwaysFree == Spec => PortIsFree
  <1>1. ASSUME IInv, [Next]_vars, NEW t \in Tunnels,
               t \notin listenFail, t \in listenFail', t \notin cancelled
        PROVE  \/ proxy[t].listen \in busy
               \/ \E u \in Tunnels :
                     /\ ln[u] = "open" /\ proxy[u].listen = proxy[t].listen
                     /\ u \in cancelled
    <2>1. PICK th \in Threads : /\ pc[th] = "start" /\ t \in started[th]
                                /\ PortTaken(proxy[t].listen)
      BY <1>1, WhoFails DEF IInv
    <2>2. About(t) /\ Control /\ PortsApart /\ \A u \in Tunnels : About(u)
      BY <1>1 DEF IInv
    <2>3. SUFFICES ASSUME NEW u \in Tunnels,
                          ln[u] = "open", proxy[u].listen = proxy[t].listen,
                          u \notin cancelled
                   PROVE  FALSE
      BY <2>1 DEF PortTaken
    <2>4. ToStart(t) /\ ln[t] # "open"
      BY <2>1, <2>2 DEF ToStart, About
    <2>5. Alive(t) /\ Alive(u) /\ SameListen(t, u)
      BY <1>1, <2>3, <2>4 DEF Alive, SameListen
    <2>6. PICK o \in Threads : \/ t \in started[o] /\ u \in stopped[o]
                               \/ u \in started[o] /\ t \in stopped[o]
      BY <2>2, <2>5 DEF PortsApart
    <2>7. CASE t \in started[o] /\ u \in stopped[o]
      <3>1. o = th
        BY <2>1, <2>2, <2>7 DEF About
      <3>2. pc[o] = "stop"
        BY <2>2, <2>7 DEF Control
      <3>3. QED
        BY <2>1, <3>1, <3>2
    <2>8. CASE u \in started[o] /\ t \in stopped[o]
      BY <2>2, <2>3, <2>8 DEF About, ToStart
    <2>9. QED
      BY <2>6, <2>7, <2>8
  <1>2. IInv /\ [Next]_vars =>
          [\A t \in Tunnels :
             t \notin listenFail /\ t \in listenFail' /\ t \notin cancelled =>
               \/ proxy[t].listen \in busy
               \/ \E u \in Tunnels :
                     /\ ln[u] = "open" /\ proxy[u].listen = proxy[t].listen
                     /\ u \in cancelled]_vars
    BY <1>1
  <1>3. QED
    BY <1>2, Inductive, PTL DEF Spec, PortIsFree

\* app_windows.go:155: watchConfig misses no save of the file.
THEOREM SavesAlwaysRead == Spec => SavesAreRead
  <1>1. ASSUME IInv, [Next]_vars, pc["watch"] \notin {"stamp", "poll"},
               pc'["watch"] = "poll"
        PROVE  loaded >= seen'
    <2>1. TypeOK /\ Control /\ Stamped
      BY <1>1 DEF IInv
    <2>2. /\ seen' = seen /\ pc["watch"] \in {"lock", "swap"} \cup Starting
      <3>1. CASE \E t \in Tunnels : Tunnel(t)
        BY <1>1, <3>1, TunnelAlone
      <3>2. CASE \E th \in Threads : Work(th)
        BY <1>1, <2>1, <3>2, ThreadsApart, WorkMoves
      <3>3. CASE \E th \in Threads : Reload(th)
        BY <1>1, <2>1, <3>3, ThreadsApart, ReloadMoves
      <3>4. CASE UI
        BY <1>1, <2>1, <3>4, ThreadsApart
           DEF UI, Launch, ShowMenu, Command, Reconnect, ReconnectChecks,
               ReconnectGivesUp, ReconnectReplaces, Shutdown, notUI, Goes, TypeOK
      <3>5. CASE WatchConfig
        BY <1>1, <2>1, <3>5, ThreadsApart
           DEF WatchConfig, FirstStamp, Poll, Settle, Stamps, Goes, TypeOK
      <3>6. CASE Save \/ PortChanges \/ UNCHANGED vars
        BY <1>1, <3>6 DEF Save, PortChanges
      <3>7. QED
        BY <1>1, <3>1, <3>2, <3>3, <3>4, <3>5, <3>6 DEF Next
    <2>3. QED
      BY <2>1, <2>2, AppAssumption DEF Stamped, TypeOK
  <1>2. IInv /\ [Next]_vars =>
          [pc["watch"] \notin {"stamp", "poll"} /\ pc'["watch"] = "poll" =>
             loaded >= seen']_vars
    BY <1>1
  <1>3. QED
    BY <1>2, Inductive, PTL DEF Spec, SavesAreRead

===============================================================================
