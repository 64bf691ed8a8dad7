---------------------------- MODULE SysProxyProofs ----------------------------
(***************************************************************************)
(* Proofs about SysProxy, for any addresses, servers and number of Reloads. *)
(*                                                                          *)
(* The argument.  Unless two calls overlap, at most one thread is in a call *)
(* (OneCall), and every place in it has its facts (Form, Place): what was   *)
(* read is what orig remembers, the registry is not yet or already whole.   *)
(* While Windows shows what the program has made of its settings, the saved *)
(* ones are there (Backed), and the address is the one that the registry    *)
(* and the program know (PrefKnown, MemKnown): so releaseSystemProxy cannot *)
(* take its own setting for another's.  If nothing has gone wrong, saved    *)
(* settings and the choice come and go together (SavedInv), and an exit,    *)
(* which then meets no other call, restores what was read (ExitInv).        *)
(***************************************************************************)
EXTENDS SysProxy, TLAPS

USE DEF vars, regVars, appVars, callVars, history

Busy(th) == pc[th] \in Procedure

Fine == hurt \cap {"race", "misread", "stale"} = {}

Orderly == hurt \subseteq {"late"}

\* What a place in a call says about the thread alone.
Form(th) ==
    /\ pc[th] \in {"enable", "query", "saveServer", "saveFlags"} => Enabling(th)
    /\ pc[th] \in {"release", "disable", "current", "clearFlags", "clearServer",
                   "forget"} => ~Enabling(th)
    /\ pc[th] \in {"saveServer", "saveFlags"} => read[th] \in Settings
    /\ pc[th] = "apply" /\ ~Enabling(th) => read[th] \in Settings
    /\ pc[th] = "release" => arg[th] \in Listens /\ op[th] \in {"boot", "exit"}
    /\ pc[th] \in {"pref", "mem"} => op[th] = "set"
    /\ pc[th] = "forget" => op[th] = "boot"

WatchForm ==
    /\ op["watch"] = "set"
    /\ Busy("watch") => arg["watch"] = None
    /\ pc["watch"] \notin {"boot", "ended"}
    /\ pc["ui"] # "check"

TypeInv == TypeOK /\ (\A th \in Threads : Form(th)) /\ WatchForm

OneCall == \A th, other \in Threads : Busy(th) /\ Busy(other) => th = other

Backed ==
    /\ Ours => sys.on /\ savedFlags # None
    /\ savedFlags # None => Saved = orig

Place(th) ==
    /\ pc[th] \in {"query", "saveServer", "saveFlags", "current",
                  "clearServer"} => savedFlags = None
    /\ pc[th] \in {"saveServer", "saveFlags"} => read[th] = orig
    /\ pc[th] = "saveFlags" => savedServer = orig.server
    /\ pc[th] = "apply" /\ Enabling(th) => savedFlags # None
    /\ pc[th] = "release" => (Ours => sys.server = systemProxyAddr(arg[th]))
    /\ pc[th] \in {"clearFlags", "clearServer"} => ~Ours
    /\ pc[th] \in {"pref", "mem"} =>
          IF Enabling(th) THEN Ours => sys.server = systemProxyAddr(arg[th])
          ELSE ~Ours

Known(l, places) ==
    l # None /\ Ours =>
        \/ sys.server = systemProxyAddr(l)
        \/ \E th \in Threads : pc[th] \in places /\ Enabling(th)

PrefKnown == Known(pref, {"pref"})

MemKnown == Known(sysProxy, {"pref", "mem"})

KeptInv ==
    Fine =>
        /\ OneCall /\ Backed /\ PrefKnown /\ MemKnown
        /\ \A th \in Threads : Place(th)

\* What a process that was never hurt knows, besides.
BootForm ==
    pc["ui"] \in {"down", "boot"} \/ (op["ui"] = "boot" /\ Busy("ui")) =>
        pc["watch"] = "down" /\ sysProxy = None

PrefNamesIt ==
    Ours =>
        \/ pref # None
        \/ \E th \in Threads : pc[th] = "pref" /\ Enabling(th)

MemFollows ==
    \/ sysProxy = pref
    \/ pc["ui"] \in {"down", "boot", "ended"}
    \/ \E th \in Threads : Busy(th) /\ (arg[th] = pref \/ op[th] = "boot")

Gone == pc["ui"] \in {"ended", "forget"} => ~Ours

OrderlyInv ==
    Orderly =>
        /\ PrefNamesIt /\ MemFollows /\ Gone
        /\ \A th \in Threads : pc[th] = "mem" => pref = arg[th]

\* When the registry holds saved settings, and when it does not.
SavedInv ==
    Orderly =>
        /\ pc["ui"] \in {"ended", "forget"} => savedFlags = None
        /\ pc["ui"] \in {"down", "boot"} /\ pref = None => savedFlags = None
        /\ pc["ui"] = "idle" /\ ~Busy("watch") =>
              (sysProxy = None <=> savedFlags = None)
        /\ Busy("watch") /\ sysProxy = None => savedFlags = None
        /\ \A th \in Threads : pc[th] \in {"pref", "mem"} =>
              (arg[th] = None <=> savedFlags = None)

\* A proxy that is known as turned on has not been turned off since.
Switched ==
    /\ by = "disable" /\ sysProxy # None =>
          pc["ui"] = "ended" \/ \E th \in Threads : Busy(th)
    /\ \A th \in Threads :
          pc[th] \in {"pref", "mem"} /\ Enabling(th) => by # "disable"

\* The way of an exit, which nothing meets.
ExitInv ==
    hurt = {} =>
        /\ Switched
        /\ op["ui"] = "exit" =>
            /\ ~Busy("watch")
            /\ pc["ui"] \in {"release", "disable", "apply", "clearFlags",
                             "clearServer", "ended"}
            /\ pc["ui"] \in {"release", "disable"} =>
                  savedFlags # None /\ by # "disable"
            /\ pc["ui"] = "apply" => read["ui"] = orig
            /\ pc["ui"] \in {"clearFlags", "clearServer", "ended"} =>
                  (by = "disable" => sys = orig)

IInv == TypeInv /\ BootForm /\ KeptInv /\ OrderlyInv /\ SavedInv /\ ExitInv

-----------------------------------------------------------------------------
(* Addresses and settings. *)

LEMMA AddrOf == \A l \in Listens : systemProxyAddr(l) \in Addrs
  BY SysProxyAssumption DEF systemProxyAddr, Addrs, Ports

LEMMA OnAtSettings ==
  ASSUME NEW l \in Listens
  PROVE  OnAt(l) \in Settings /\ OnAt(l).server = systemProxyAddr(l)
                              /\ OnAt(l).on
  BY AddrOf DEF OnAt, Settings, Servers

LEMMA NoneIsApart ==
  /\ None \notin Listens
  /\ None \notin BOOLEAN
  /\ None \notin Addrs
  BY SysProxyAssumption

\* What is in the registry is settings, even if the server is not read.
LEMMA SavedSettings ==
  ASSUME TypeOK, savedFlags # None, NEW server \in {savedServer, None}
  PROVE  [on |-> savedFlags, server |-> server] \in Settings
  <1>1. savedFlags \in BOOLEAN
    BY Zenon DEF TypeOK
  <1>2. server \in Servers
    BY DEF TypeOK, Servers
  <1>3. QED
    BY <1>1, <1>2, Zenon DEF Settings

LEMMA OffSettings ==
  ASSUME sys \in Settings
  PROVE  /\ [sys EXCEPT !.on = FALSE] \in Settings
         /\ [sys EXCEPT !.on = FALSE].server = sys.server
  BY DEF Settings

-----------------------------------------------------------------------------
(* Types, and what a place in a call says about its thread. *)

LEMMA TypeInit == Init => TypeInv
  <1> SUFFICES ASSUME Init PROVE TypeInv
    OBVIOUS
  <1>1. sys \in Settings
    BY DEF Init, Settings, Servers
  <1>2. 0 \in 0 .. MaxReloads
    BY SysProxyAssumption
  <1>3. TypeOK
    BY <1>1, <1>2 DEF Init, TypeOK, Servers, Writers, Hurts
  <1>4. QED
    BY <1>3 DEF Init, TypeInv, Form, WatchForm, Threads, Busy, Procedure

\* A step of one thread leaves the other where it is.
LEMMA OthersStay ==
  ASSUME TypeOK, NEW me \in Threads, Proceed(me), NEW th \in Threads, th # me
  PROVE  /\ pc'[th] = pc[th] /\ op'[th] = op[th] /\ arg'[th] = arg[th]
         /\ read'[th] = read[th]
  BY DEF Proceed, Enable, Query, SaveServer, SaveFlags, Release, Disable,
         Current, Apply, ClearFlags, ClearServer, SavePref, Remember, Fails,
         Drops, Goes, TypeOK

LEMMA ProceedIsBusy ==
  ASSUME NEW me \in Threads, Proceed(me)
  PROVE  Busy(me) /\ hurt \subseteq hurt' /\ op' = op /\ arg' = arg
  BY DEF Proceed, Enable, Query, SaveServer, SaveFlags, Release, Disable,
         Current, Apply, ClearFlags, ClearServer, SavePref, Remember, Fails,
         Drops, Goes, Busy, Procedure

\* The steps of a call that do not begin one.
LEMMA TypeProceed ==
  ASSUME TypeInv, NEW me \in Threads, Proceed(me)
  PROVE  TypeInv'
  <1> USE DEF TypeInv, Goes, Writers, Hurts
  <1>1. TypeOK'
    <2>1. CASE Enable(me)
      BY <2>1 DEF Enable, TypeOK, Procedure
    <2>2. CASE Query(me)
      BY <2>2 DEF Query, Drops, Fails, Return, TypeOK, Procedure
    <2>3. CASE SaveServer(me)
      BY <2>3 DEF SaveServer, Drops, Fails, Return, TypeOK, Procedure, Form,
                  Settings
    <2>4. CASE SaveFlags(me)
      BY <2>4 DEF SaveFlags, Drops, Fails, Return, TypeOK, Procedure, Form,
                  Settings
    <2>5. CASE Release(me)
      BY <2>5 DEF Release, TypeOK, Procedure
    <2>6. CASE Disable(me)
      <3>1. read' \in [Threads -> Settings \cup {None}]
        BY <2>6, SavedSettings DEF Disable, TypeOK
      <3>2. /\ pc' \in [Threads -> Procedure \cup {"down", "boot", "idle",
                                                  "check", "ended"}]
            /\ hurt' \subseteq Hurts
        BY <2>6 DEF Disable, TypeOK, Procedure
      <3>3. QED
        BY <2>6, <3>1, <3>2 DEF Disable, TypeOK
    <2>7. CASE Current(me)
      <3>1. read' \in [Threads -> Settings \cup {None}]
        BY <2>7, OffSettings DEF Current, Drops, Fails, TypeOK
      <3>2. /\ pc' \in [Threads -> Procedure \cup {"down", "boot", "idle",
                                                  "check", "ended"}]
            /\ hurt' \subseteq Hurts
        BY <2>7 DEF Current, Drops, Fails, Return, TypeOK, Procedure
      <3>3. QED
        BY <2>7, <3>1, <3>2 DEF Current, TypeOK
    <2>8. CASE Apply(me)
      BY <2>8, OnAtSettings DEF Apply, Enabling, Drops, Fails, Return, TypeOK,
                                Procedure, Form
    <2>9. CASE ClearFlags(me)
      BY <2>9 DEF ClearFlags, TypeOK, Procedure
    <2>10. CASE ClearServer(me)
      BY <2>10 DEF ClearServer, Return, TypeOK, Procedure, Servers
    <2>11. CASE SavePref(me)
      BY <2>11 DEF SavePref, Stale, TypeOK, Procedure
    <2>12. CASE Remember(me)
      BY <2>12 DEF Remember, TypeOK, Procedure
    <2>13. QED
      BY <2>1, <2>2, <2>3, <2>4, <2>5, <2>6, <2>7, <2>8, <2>9, <2>10, <2>11,
         <2>12 DEF Proceed
  <1>2. ASSUME NEW th \in Threads, th # me
        PROVE  /\ pc'[th] = pc[th] /\ op'[th] = op[th] /\ arg'[th] = arg[th]
               /\ read'[th] = read[th]
    BY <1>2, OthersStay
  <1>3. \A th \in Threads \ {me} : Form(th)'
    BY <1>2 DEF Form, Busy, Enabling
  <1>4. Form(me)'
    <2> USE DEF Form, Busy, Procedure, Enabling, Return
    <2>1. CASE Enable(me)
      BY <2>1 DEF Enable, TypeOK
    <2>2. CASE Query(me)
      BY <2>2 DEF Query, Drops, Fails, TypeOK
    <2>3. CASE SaveServer(me)
      BY <2>3 DEF SaveServer, Drops, Fails, TypeOK
    <2>4. CASE SaveFlags(me)
      BY <2>4, NoneIsApart DEF SaveFlags, Drops, Fails, TypeOK
    <2>5. CASE Release(me)
      BY <2>5 DEF Release, TypeOK
    <2>6. CASE Disable(me)
      BY <2>6, SavedSettings DEF Disable, TypeOK
    <2>7. CASE Current(me)
      BY <2>7, OffSettings DEF Current, Drops, Fails, TypeOK
    <2>8. CASE Apply(me)
      BY <2>8 DEF Apply, Drops, Fails, TypeOK
    <2>9. CASE ClearFlags(me)
      BY <2>9 DEF ClearFlags, TypeOK
    <2>10. CASE ClearServer(me)
      BY <2>10 DEF ClearServer, TypeOK
    <2>11. CASE SavePref(me)
      BY <2>11 DEF SavePref, TypeOK
    <2>12. CASE Remember(me)
      BY <2>12 DEF Remember, TypeOK
    <2>13. QED
      BY <2>1, <2>2, <2>3, <2>4, <2>5, <2>6, <2>7, <2>8, <2>9, <2>10, <2>11,
         <2>12 DEF Proceed
  <1>5. WatchForm'
    <2>1. op' = op /\ arg' = arg /\ pc[me] \in Procedure
      BY ProceedIsBusy DEF Busy
    <2>2. /\ me = "watch" => pc'[me] \notin {"boot", "ended"}
          /\ pc'[me] # "check"
      BY DEF Proceed, Enable, Query, SaveServer, SaveFlags, Release,
             Disable, Current, Apply, ClearFlags, ClearServer, SavePref,
             Remember, Fails, Return, WatchForm, TypeOK
    <2>3. QED
      BY <1>2, <2>1, <2>2 DEF WatchForm, Busy, Threads
  <1>6. QED
    BY <1>1, <1>3, <1>4, <1>5

\* A thread begins a call, or does not.
LEMMA TypeCall ==
  ASSUME TypeInv, NEW me \in Threads, NEW l \in Listens \cup {None},
         NEW procedure \in {"enable", "disable", "release"},
         NEW o \in {"set", "boot", "exit"},
         procedure = "enable" => o = "set" /\ l # None,
         procedure = "disable" => o = "set" /\ l = None,
         procedure = "release" => o # "set" /\ l # None,
         me = "watch" => procedure = "disable",
         Call(me, procedure, o, l),
         UNCHANGED <<sys, regVars, read, by, orig>>,
         sysProxy' = sysProxy, config' = config, closed' \in BOOLEAN,
         menu' \subseteq Listens, reloads' = reloads
  PROVE  TypeInv'
  <1>1. read' \in [Threads -> Settings \cup {None}]
    BY DEF TypeInv, TypeOK
  <1>2. hurt' \subseteq Hurts
    BY DEF Call, Meets, Hurts, TypeInv, TypeOK
  <1>3. TypeOK'
    BY <1>1, <1>2 DEF Call, TypeInv, TypeOK, Procedure
  <1>4. ASSUME NEW th \in Threads, th # me
        PROVE  Form(th)'
    BY <1>4 DEF Call, TypeInv, TypeOK, Form, Busy, Enabling
  <1>5. Form(me)'
    BY DEF Call, TypeInv, TypeOK, Form, Busy, Enabling
  <1>6. WatchForm'
    <2>1. CASE me = "watch"
      BY <2>1 DEF Call, TypeInv, TypeOK, WatchForm, Busy
    <2>2. CASE me # "watch"
      BY <2>2 DEF Call, TypeInv, TypeOK, WatchForm, Busy, Threads
    <2>3. QED
      BY <2>1, <2>2
  <1>7. QED
    BY <1>3, <1>4, <1>5, <1>6 DEF TypeInv

LEMMA TypeApp ==
  ASSUME TypeInv,
         \/ Boot \/ Start \/ Forget \/ Launch \/ ShowMenu \/ Choose \/ Shutdown
         \/ ReloadSwaps \/ ReloadChecks
  PROVE  TypeInv'
  <1> USE DEF TypeInv, Form, WatchForm, Busy, Enabling, Procedure, Goes
  <1>0. "ui" \in Threads /\ "watch" \in Threads
    BY DEF Threads
  <1>1. CASE Boot
    BY <1>0, <1>1 DEF Boot, TypeOK
  <1>2. CASE Start
    <2>1. CASE /\ pc' = [pc EXCEPT !["ui"] = "idle"]
               /\ UNCHANGED <<op, arg>>
      <3>1. hurt' \subseteq Hurts
        BY <1>2 DEF Start, SetSystemProxy, Call, Meets, TypeOK, Hurts
      <3>2. QED
        BY <1>0, <1>2, <2>1, <3>1 DEF Start, TypeOK, Threads
    <2>2. CASE pref # None /\ SetSystemProxy("ui", pref)
      BY <1>0, <1>2, <2>2, TypeCall DEF Start, SetSystemProxy, TypeOK
    <2>3. CASE pref # None /\ Call("ui", "release", "boot", pref)
      BY <1>0, <1>2, <2>3, TypeCall DEF Start, TypeOK
    <2>4. QED
      BY <1>2, <2>1, <2>2, <2>3 DEF Start
  <1>3. CASE Forget
    BY <1>0, <1>3 DEF Forget, TypeOK, Threads, Hurts
  <1>4. CASE Launch
    BY <1>0, <1>4 DEF Launch, TypeOK, Threads
  <1>5. CASE ShowMenu
    BY <1>5 DEF ShowMenu, TypeOK
  <1>6. CASE Choose
    <2>1. PICK l \in menu \cup {None} : SetSystemProxy("ui", l)
      BY <1>6 DEF Choose
    <2>2. l \in Listens \cup {None}
      BY DEF TypeOK
    <2>3. QED
      BY <1>0, <1>6, <2>1, <2>2, TypeCall DEF Choose, SetSystemProxy, TypeOK
  <1>7. CASE Shutdown
    <2>1. CASE sysProxy = None
      <3>1. TypeOK'
        BY <1>0, <1>7, <2>1 DEF Shutdown, TypeOK
      <3>2. /\ pc' = [pc EXCEPT !["ui"] = "ended"]
            /\ op' = op /\ arg' = arg /\ read' = read
        BY <1>7, <2>1 DEF Shutdown
      <3>3. \A th \in Threads : Form(th)'
        BY <3>2 DEF TypeOK, Threads
      <3>4. WatchForm'
        BY <3>2 DEF TypeOK, Threads
      <3>5. QED
        BY <3>1, <3>3, <3>4
    <2>2. CASE sysProxy # None
      BY <1>0, <1>7, <2>2, TypeCall DEF Shutdown, TypeOK
    <2>3. QED
      BY <2>1, <2>2
  <1>8. CASE ReloadSwaps
    BY <1>0, <1>8, SysProxyAssumption DEF ReloadSwaps, TypeOK, Threads
  <1>9. CASE ReloadChecks
    <2>1. CASE arg["watch"] # None /\ ~HasListen(arg["watch"])
      BY <1>0, <1>9, <2>1, TypeCall DEF ReloadChecks, SetSystemProxy, TypeOK
    <2>2. CASE ~(arg["watch"] # None /\ ~HasListen(arg["watch"]))
      <3>1. TypeOK'
        BY <1>0, <1>9, <2>2 DEF ReloadChecks, TypeOK
      <3>2. /\ pc' = [pc EXCEPT !["watch"] = "idle"]
            /\ op' = op /\ arg' = arg /\ read' = read
        BY <1>9, <2>2 DEF ReloadChecks
      <3>3. \A th \in Threads : Form(th)'
        BY <3>2 DEF TypeOK, Threads
      <3>4. WatchForm'
        BY <3>2 DEF TypeOK, Threads
      <3>5. QED
        BY <3>1, <3>3, <3>4
    <2>3. QED
      BY <2>1, <2>2
  <1>10. QED
    BY <1>1, <1>2, <1>3, <1>4, <1>5, <1>6, <1>7, <1>8, <1>9

LEMMA TypeStep == TypeInv /\ [Next]_vars => TypeInv'
  <1> SUFFICES ASSUME TypeInv, [Next]_vars PROVE TypeInv'
    OBVIOUS
  <1>1. CASE \E th \in Threads : Proceed(th)
    BY <1>1, TypeProceed
  <1>2. CASE \/ Boot \/ Start \/ Forget \/ Launch \/ ShowMenu \/ Choose
             \/ Shutdown \/ ReloadSwaps \/ ReloadChecks
    BY <1>2, TypeApp
  <1> USE DEF TypeInv, Form, WatchForm, Busy, Enabling, Procedure
  <1>3. CASE Dies
    <2>1. hurt' \subseteq Hurts
      BY <1>3 DEF Dies, Stale, TypeOK, Hurts
    <2>2. 0 \in 0 .. MaxReloads
      BY SysProxyAssumption
    <2>3. TypeOK'
      BY <1>3, <2>1, <2>2 DEF Dies, TypeOK
    <2>4. \A th \in Threads : Form(th)' /\ pc'[th] = "down" /\ op'[th] = "set"
      BY <1>3 DEF Dies
    <2>5. QED
      BY <2>3, <2>4 DEF Threads
  <1>4. CASE OtherProgram
    BY <1>4 DEF OtherProgram, TypeOK, Writers
  <1>5. CASE UNCHANGED vars
    BY <1>5 DEF TypeOK, Settings, Servers, Addrs
  <1>6. QED
    BY <1>1, <1>2, <1>3, <1>4, <1>5 DEF Next

\* The registry, the settings and the program's variables have the types the
\* code gives them; in particular what a call applies is settings.
THEOREM TypeCorrect == Spec => []TypeOK
  <1>1. Spec => []TypeInv
    BY TypeInit, TypeStep, PTL DEF Spec
  <1>2. TypeInv => TypeOK
    BY DEF TypeInv
  <1>3. QED
    BY <1>1, <1>2, PTL

-----------------------------------------------------------------------------
(* What holds unless two calls overlap or a stale choice is left behind.    *)

\* KeptInv as the one thread that is in a call sees it.
Sees(me, l, places) ==
    l # None /\ Ours =>
        \/ sys.server = systemProxyAddr(l)
        \/ pc[me] \in places /\ Enabling(me)

Mine(me) ==
    /\ Backed /\ Place(me)
    /\ Sees(me, pref, {"pref"})
    /\ Sees(me, sysProxy, {"pref", "mem"})

LEMMA MineIsAll ==
  ASSUME NEW me \in Threads, \A th \in Threads \ {me} : ~Busy(th)
  PROVE  /\ KeptInv /\ Fine => Mine(me)
         /\ Mine(me) => KeptInv
  <1> USE DEF Busy, Procedure
  <1>1. \A th \in Threads \ {me} : Place(th)
    BY DEF Place
  <1>2. OneCall
    BY DEF OneCall
  <1>3. PrefKnown <=> Sees(me, pref, {"pref"})
    BY DEF PrefKnown, Known, Sees
  <1>4. MemKnown <=> Sees(me, sysProxy, {"pref", "mem"})
    BY DEF MemKnown, Known, Sees
  <1>5. QED
    BY <1>1, <1>2, <1>3, <1>4 DEF KeptInv, Mine

\* The same of the next state.
LEMMA MineIsAllNext ==
  ASSUME NEW me \in Threads, \A th \in Threads \ {me} : ~Busy(th)', Mine(me)'
  PROVE  KeptInv'
  <1> USE DEF Busy, Procedure
  <1>1. \A th \in Threads \ {me} : Place(th)'
    BY DEF Place
  <1>2. OneCall'
    BY DEF OneCall
  <1>3. Sees(me, pref, {"pref"})' => PrefKnown'
    BY DEF PrefKnown, Known, Sees
  <1>4. Sees(me, sysProxy, {"pref", "mem"})' => MemKnown'
    BY DEF MemKnown, Known, Sees
  <1>5. QED
    BY <1>1, <1>2, <1>3, <1>4 DEF KeptInv, Mine

LEMMA KeptProceed ==
  ASSUME TypeInv, NEW me \in Threads, Proceed(me), Mine(me), Fine'
  PROVE  Mine(me)'
  <1> USE DEF TypeInv, Mine, Sees, Place, Form, Backed, Ours, Enabling, Saved,
              Goes, Return
  <1>0. op' = op /\ arg' = arg /\ Busy(me)
    BY ProceedIsBusy
  <1>1. CASE Enable(me)
    BY <1>1 DEF Enable, TypeOK, Fine
  <1>2. CASE Query(me)
    BY <1>2 DEF Query, Drops, Fails, TypeOK
  <1>3. CASE SaveServer(me)
    BY <1>3 DEF SaveServer, Drops, Fails, TypeOK
  <1>4. CASE SaveFlags(me)
    BY <1>4, NoneIsApart DEF SaveFlags, Drops, Fails, TypeOK, Settings
  <1>5. CASE Release(me)
    BY <1>5 DEF Release, TypeOK, PointsTo
  <1>6. CASE Disable(me)
    BY <1>6 DEF Disable, TypeOK, Fine
  <1>7. CASE Current(me)
    BY <1>7, OffSettings DEF Current, Drops, Fails, TypeOK
  <1>8. CASE Apply(me)
    BY <1>8, OnAtSettings DEF Apply, Drops, Fails, TypeOK, Busy
  <1>9. CASE ClearFlags(me)
    BY <1>9 DEF ClearFlags, TypeOK, Fine
  <1>10. CASE ClearServer(me)
    BY <1>10 DEF ClearServer, TypeOK
  <1>11. CASE SavePref(me)
    <2>1. pc[me] = "pref" /\ pc' = [pc EXCEPT ![me] = "mem"]
      BY <1>11 DEF SavePref
    <2>2. UNCHANGED <<sys, savedServer, savedFlags, sysProxy, read, by, orig>>
      BY <1>11 DEF SavePref
    <2>3. CASE pref' = arg[me]
      BY <1>0, <2>1, <2>2, <2>3 DEF TypeOK
    <2>4. CASE pref' = pref /\ hurt' = hurt \cup {"fault"} \cup Stale
      <3>1. ~Outdated(me)
        BY <2>4 DEF Fine, Stale
      <3>2. Enabling(me) /\ pref # None =>
              systemProxyAddr(pref) = systemProxyAddr(arg[me])
        BY <1>0, <2>1, <3>1, OnAtSettings DEF Outdated, TypeOK, Busy
      <3>3. QED
        BY <1>0, <2>1, <2>2, <2>4, <3>2 DEF TypeOK
    <2>5. QED
      BY <1>11, <2>3, <2>4 DEF SavePref
  <1>12. CASE Remember(me)
    BY <1>12 DEF Remember, TypeOK
  <1>13. QED
    BY <1>1, <1>2, <1>3, <1>4, <1>5, <1>6, <1>7, <1>8, <1>9, <1>10, <1>11,
       <1>12 DEF Proceed

\* A call begins, and no other is under way.
LEMMA KeptCall ==
  ASSUME TypeInv, KeptInv, NEW me \in Threads, ~Busy(me),
         NEW l \in Listens \cup {None},
         NEW procedure \in {"enable", "disable", "release"}, NEW o,
         procedure = "release" => l \in {pref, sysProxy} /\ l # None,
         Call(me, procedure, o, l), Fine',
         UNCHANGED <<sys, regVars, read, by, orig>>, sysProxy' = sysProxy
  PROVE  KeptInv'
  <1>1. Fine /\ \A th \in Threads : ~Busy(th)
    BY DEF Call, Meets, Fine, Busy
  <1>2. /\ pref # None /\ Ours => sys.server = systemProxyAddr(pref)
        /\ sysProxy # None /\ Ours => sys.server = systemProxyAddr(sysProxy)
        /\ Backed
    BY <1>1 DEF KeptInv, PrefKnown, MemKnown, Known, Busy, Procedure
  <1>3. pc'[me] = procedure /\ arg'[me] = l
    BY DEF Call, TypeInv, TypeOK
  <1>4. Mine(me)'
    BY <1>2, <1>3 DEF Mine, Sees, Place, Backed, Ours, Saved
  <1>5. \A th \in Threads \ {me} : ~Busy(th)'
    BY <1>1 DEF Call, Busy, TypeInv, TypeOK
  <1>6. QED
    BY <1>4, <1>5, MineIsAllNext

\* A step outside of the calls, which may at most forget.
LEMMA KeptQuiet ==
  ASSUME KeptInv, Fine,
         UNCHANGED <<sys, savedServer, savedFlags, by, orig>>,
         pref' \in {pref, None}, sysProxy' \in {sysProxy, None},
         \A th \in Threads :
            /\ Busy(th)' => /\ pc'[th] = pc[th] /\ op'[th] = op[th]
                            /\ arg'[th] = arg[th] /\ read'[th] = read[th]
            /\ pc[th] \in {"pref", "mem"} => pc'[th] = pc[th]
  PROVE  KeptInv'
  <1> USE DEF Busy, Procedure
  <1>1. OneCall'
    BY DEF OneCall, KeptInv
  <1>2. Backed'
    BY DEF Backed, KeptInv, Ours, Saved
  <1>3. PrefKnown'
    BY DEF PrefKnown, Known, KeptInv, Ours, Enabling
  <1>4. MemKnown'
    BY DEF MemKnown, Known, KeptInv, Ours, Enabling
  <1>5. ASSUME NEW th \in Threads PROVE Place(th)'
    <2>1. CASE ~Busy(th)'
      BY <2>1 DEF Place
    <2>2. CASE Busy(th)'
      <3>1. Place(th)
        BY DEF KeptInv
      <3>2. /\ pc'[th] = pc[th] /\ op'[th] = op[th] /\ arg'[th] = arg[th]
            /\ read'[th] = read[th]
        BY <2>2
      <3>3. QED
        BY <3>1, <3>2 DEF Place, Ours, Enabling
    <2>3. QED
      BY <2>1, <2>2
  <1>6. QED
    BY <1>1, <1>2, <1>3, <1>4, <1>5 DEF KeptInv

LEMMA KeptApp ==
  ASSUME TypeInv, KeptInv, Fine',
         \/ Boot \/ Start \/ Forget \/ Launch \/ ShowMenu \/ Choose \/ Shutdown
         \/ ReloadSwaps \/ ReloadChecks
  PROVE  KeptInv'
  <1> USE DEF TypeInv, Goes
  <1>0. "ui" \in Threads /\ "watch" \in Threads /\ Threads = {"ui", "watch"}
    BY DEF Threads
  <1>a. Fine
    BY DEF Fine, Boot, Start, Forget, Launch, ShowMenu, Choose, Shutdown,
           ReloadSwaps, ReloadChecks, SetSystemProxy, Call
  <1>1. CASE Boot
    BY <1>0, <1>1, <1>a, KeptQuiet DEF Boot, TypeOK, Busy, Procedure
  <1>2. CASE Start
    <2>0. ~Busy("ui")
      BY <1>2 DEF Start, Busy, Procedure
    <2>1. CASE /\ pc' = [pc EXCEPT !["ui"] = "idle"]
               /\ UNCHANGED <<op, arg>>
      BY <1>0, <1>2, <1>a, <2>0, <2>1, KeptQuiet
         DEF Start, TypeOK, Busy, Procedure
    <2>2. CASE pref # None /\ SetSystemProxy("ui", pref)
      BY <1>0, <1>2, <2>0, <2>2, KeptCall DEF Start, SetSystemProxy, TypeOK
    <2>3. CASE pref # None /\ Call("ui", "release", "boot", pref)
      BY <1>0, <1>2, <2>0, <2>3, KeptCall DEF Start, TypeOK
    <2>4. QED
      BY <1>2, <2>1, <2>2, <2>3 DEF Start
  <1>3. CASE Forget
    BY <1>0, <1>3, <1>a, KeptQuiet DEF Forget, TypeOK, Busy, Procedure
  <1>4. CASE Launch
    BY <1>0, <1>4, <1>a, KeptQuiet DEF Launch, TypeOK, Busy, Procedure
  <1>5. CASE ShowMenu
    BY <1>0, <1>5, <1>a, KeptQuiet DEF ShowMenu
  <1>6. CASE Choose
    <2>1. PICK l \in menu \cup {None} : SetSystemProxy("ui", l)
      BY <1>6 DEF Choose
    <2>2. l \in Listens \cup {None} /\ ~Busy("ui")
      BY <1>6 DEF Choose, TypeOK, Busy, Procedure
    <2>3. QED
      BY <1>0, <1>6, <2>1, <2>2, KeptCall DEF Choose, SetSystemProxy
  <1>7. CASE Shutdown
    <2>0. ~Busy("ui")
      BY <1>7 DEF Shutdown, Busy, Procedure
    <2>1. CASE sysProxy = None
      BY <1>0, <1>7, <1>a, <2>1, KeptQuiet
         DEF Shutdown, TypeOK, Busy, Procedure
    <2>2. CASE sysProxy # None
      BY <1>0, <1>7, <2>0, <2>2, KeptCall DEF Shutdown, TypeOK
    <2>3. QED
      BY <2>1, <2>2
  <1>8. CASE ReloadSwaps
    BY <1>0, <1>8, <1>a, KeptQuiet DEF ReloadSwaps, TypeOK, Busy, Procedure
  <1>9. CASE ReloadChecks
    <2>0. ~Busy("watch")
      BY <1>9 DEF ReloadChecks, Busy, Procedure
    <2>1. CASE arg["watch"] # None /\ ~HasListen(arg["watch"])
      BY <1>0, <1>9, <2>0, <2>1, KeptCall DEF ReloadChecks, SetSystemProxy
    <2>2. CASE ~(arg["watch"] # None /\ ~HasListen(arg["watch"]))
      BY <1>0, <1>9, <1>a, <2>2, KeptQuiet
         DEF ReloadChecks, TypeOK, Busy, Procedure
    <2>3. QED
      BY <2>1, <2>2
  <1>10. QED
    BY <1>1, <1>2, <1>3, <1>4, <1>5, <1>6, <1>7, <1>8, <1>9

LEMMA KeptInit == Init => KeptInv
  <1> SUFFICES ASSUME Init PROVE KeptInv
    OBVIOUS
  <1>1. ~Ours
    BY DEF Init, Ours
  <1>2. pc = [th \in Threads |-> "down"] /\ savedFlags = None
    BY DEF Init
  <1>3. QED
    BY <1>1, <1>2 DEF KeptInv, OneCall, Backed, PrefKnown, MemKnown, Known,
                      Place, Busy, Procedure

LEMMA KeptStep == TypeInv /\ KeptInv /\ [Next]_vars => KeptInv'
  <1> SUFFICES ASSUME TypeInv, KeptInv, [Next]_vars, Fine' PROVE KeptInv'
    BY DEF KeptInv
  <1>1. CASE \E me \in Threads : Proceed(me)
    <2>1. PICK me \in Threads : Proceed(me)
      BY <1>1
    <2>2. Busy(me) /\ Fine
      BY <2>1, ProceedIsBusy DEF Fine
    <2>3. \A th \in Threads \ {me} : ~Busy(th)
      BY <2>2 DEF KeptInv, OneCall
    <2>4. \A th \in Threads \ {me} : ~Busy(th)'
      BY <2>1, <2>3, OthersStay DEF Busy, TypeInv
    <2>5. Mine(me)'
      BY <2>1, <2>2, <2>3, MineIsAll, KeptProceed
    <2>6. QED
      BY <2>4, <2>5, MineIsAllNext
  <1>2. CASE \/ Boot \/ Start \/ Forget \/ Launch \/ ShowMenu \/ Choose
             \/ Shutdown \/ ReloadSwaps \/ ReloadChecks
    BY <1>2, KeptApp
  <1>3. CASE Dies
    <2>1. Fine /\ \A th \in Threads : ~Outdated(th)
      BY <1>3 DEF Dies, Stale, Fine, Outdated, Procedure
    <2>2. \A th \in Threads : ~Busy(th)'
      BY <1>3 DEF Dies, Busy, Procedure
    <2>3. Backed'
      BY <1>3, <2>1 DEF Dies, KeptInv, Backed, Ours, Saved
    <2>4. ASSUME pref # None, Ours
          PROVE  sys.server = systemProxyAddr(pref)
      <3>1. CASE \E th \in Threads : pc[th] = "pref" /\ Enabling(th)
        <4>1. PICK th \in Threads : pc[th] = "pref" /\ Enabling(th)
          BY <3>1
        <4>2. Place(th)
          BY <2>1, <4>1 DEF KeptInv
        <4>3. arg[th] \in Listens
          BY <4>1 DEF Enabling, TypeInv, TypeOK
        <4>4. systemProxyAddr(pref) = systemProxyAddr(arg[th])
          BY <2>1, <2>4, <4>1, <4>2, <4>3, OnAtSettings DEF Outdated
        <4>5. QED
          BY <2>4, <4>1, <4>2, <4>4 DEF Place
      <3>2. QED
        BY <2>1, <2>4, <3>1 DEF KeptInv, PrefKnown, Known
    <2>5. PrefKnown' /\ MemKnown'
      BY <1>3, <2>4 DEF Dies, PrefKnown, MemKnown, Known, Ours
    <2>6. QED
      BY <2>2, <2>3, <2>5 DEF KeptInv, OneCall, Place, Busy, Procedure
  <1>4. CASE OtherProgram
    <2>1. ~Ours'
      BY <1>4 DEF OtherProgram, Ours
    <2>2. QED
      BY <1>4, <2>1 DEF OtherProgram, KeptInv, Fine, OneCall, Backed, PrefKnown,
                        MemKnown, Known, Place, Busy, Saved, Enabling
  <1>5. CASE UNCHANGED vars
    BY <1>5 DEF KeptInv, Fine, OneCall, Backed, PrefKnown, MemKnown, Known,
                Place, Ours, Busy, Saved, Enabling
  <1>6. QED
    BY <1>1, <1>2, <1>3, <1>4, <1>5 DEF Next

\* What the registry holds as saved is, whole, what was there before the
\* program changed it, and it holds that while Windows shows what the program
\* has made of it: as long as no two calls meet, saved settings can be read
\* and nothing stale is left in the registry; whenever the process dies,
\* whatever else fails and whatever others do (sysproxy_windows.go:120, 175).
THEOREM OriginalAlwaysKept == Spec => []OriginalKept
  <1>1. Init => TypeInv /\ KeptInv
    BY TypeInit, KeptInit
  <1>2. TypeInv /\ KeptInv /\ [Next]_vars => TypeInv' /\ KeptInv'
    BY TypeStep, KeptStep
  <1>3. KeptInv => OriginalKept
    BY DEF KeptInv, Fine, Backed, OriginalKept, Ours
  <1>4. QED
    BY <1>1, <1>2, <1>3, PTL DEF Spec

-----------------------------------------------------------------------------
(* What holds as long as nothing has gone wrong.                            *)

LEMMA BootStep == TypeInv /\ BootForm /\ [Next]_vars => BootForm'
  <1> SUFFICES ASSUME TypeInv, BootForm, [Next]_vars PROVE BootForm'
    OBVIOUS
  <1> USE DEF BootForm, TypeInv, Goes
  <1>0. "ui" \in Threads /\ "watch" \in Threads /\ Threads = {"ui", "watch"}
    BY DEF Threads
  <1>1. CASE \E me \in Threads : Proceed(me)
    <2>1. PICK me \in Threads : Proceed(me)
      BY <1>1
    <2>2. Busy(me) /\ op' = op
      BY <2>1, ProceedIsBusy
    <2>3. sysProxy' = sysProxy \/ (pc[me] = "mem" /\ pc'[me] = "idle")
      BY <2>1 DEF Proceed, Enable, Query, SaveServer, SaveFlags, Release,
                  Disable, Current, Apply, ClearFlags, ClearServer, SavePref,
                  Remember, Fails, TypeOK
    <2>4. CASE me = "ui"
      <3>1. pc'["watch"] = pc["watch"]
        BY <1>0, <2>1, <2>4, OthersStay
      <3>2. pc'["ui"] \notin {"down", "boot"}
        BY <2>1, <2>4 DEF Proceed, Enable, Query, SaveServer, SaveFlags,
           Release, Disable, Current, Apply, ClearFlags, ClearServer, SavePref,
           Remember, Fails, Return, TypeOK
      <3>3. pc["ui"] = "mem" => op["ui"] = "set"
        BY <1>0 DEF Form
      <3>4. QED
        BY <2>2, <2>3, <2>4, <3>1, <3>2, <3>3 DEF Busy
    <2>5. CASE me = "watch"
      <3>1. pc'["ui"] = pc["ui"]
        BY <1>0, <2>1, <2>5, OthersStay
      <3>2. pc["watch"] # "down"
        BY <2>2, <2>5 DEF Busy, Procedure
      <3>3. QED
        BY <2>2, <3>1, <3>2 DEF Busy
    <2>6. QED
      BY <1>0, <2>4, <2>5
  <1>2. CASE Boot
    BY <1>2 DEF Boot, TypeOK, Threads, Busy, Procedure
  <1>3. CASE Start
    BY <1>0, <1>3 DEF Start, SetSystemProxy, Call, TypeOK, Busy, Procedure
  <1>4. CASE Forget
    BY <1>0, <1>4 DEF Forget, TypeOK, Busy, Procedure
  <1>5. CASE Launch
    BY <1>0, <1>5 DEF Launch, TypeOK, Busy, Procedure
  <1>6. CASE ShowMenu
    BY <1>6 DEF ShowMenu, Busy
  <1>7. CASE Choose
    <2>1. PICK l \in menu \cup {None} : SetSystemProxy("ui", l)
      BY <1>7 DEF Choose
    <2>2. op'["ui"] = "set" /\ pc'["ui"] \in {"enable", "disable"}
      BY <1>0, <2>1 DEF SetSystemProxy, Call, TypeOK
    <2>3. QED
      BY <2>2
  <1>8. CASE Shutdown
    <2>1. CASE sysProxy = None
      BY <1>0, <1>8, <2>1 DEF Shutdown, TypeOK, Busy, Procedure
    <2>2. CASE sysProxy # None
      BY <1>0, <1>8, <2>2 DEF Shutdown, Call, TypeOK, Busy, Procedure
    <2>3. QED
      BY <2>1, <2>2
  <1>9. CASE ReloadSwaps
    BY <1>0, <1>9 DEF ReloadSwaps, TypeOK, Busy, Procedure
  <1>10. CASE ReloadChecks
    <2>1. pc["watch"] = "check" /\ sysProxy' = sysProxy
      BY <1>10 DEF ReloadChecks
    <2>2. pc'["ui"] = pc["ui"] /\ op'["ui"] = op["ui"]
      BY <1>0, <1>10 DEF ReloadChecks, SetSystemProxy, Call, TypeOK
    <2>3. QED
      BY <2>1, <2>2 DEF Busy
  <1>11. CASE Dies
    BY <1>0, <1>11 DEF Dies
  <1>12. CASE OtherProgram \/ UNCHANGED vars
    BY <1>12 DEF OtherProgram, Busy
  <1>13. QED
    BY <1>1, <1>2, <1>3, <1>4, <1>5, <1>6, <1>7, <1>8, <1>9, <1>10, <1>11,
       <1>12 DEF Next

\* OrderlyInv as the one thread that is in a call sees it.
OrderlyMine(me) ==
    /\ Ours => pref # None \/ (pc[me] = "pref" /\ Enabling(me))
    /\ \/ sysProxy = pref
       \/ pc["ui"] \in {"down", "boot", "ended"}
       \/ Busy(me) /\ (arg[me] = pref \/ op[me] = "boot")
    /\ Gone
    /\ pc[me] = "mem" => pref = arg[me]

LEMMA OrderlyProceed ==
  ASSUME TypeInv, NEW me \in Threads, Proceed(me), Mine(me), OrderlyMine(me),
         \A th \in Threads \ {me} : ~Busy(th), Orderly'
  PROVE  OrderlyMine(me)'
  <1> USE DEF OrderlyMine, Ours, Enabling, Goes, TypeInv
  <1>0. op' = op /\ arg' = arg /\ Busy(me)
    BY ProceedIsBusy
  <1>1. Orderly
    BY ProceedIsBusy DEF Orderly
  <1>2. Place(me) /\ Form(me)
    BY DEF Mine
  <1>3. \A th \in Threads \ {me} : pc'[th] = pc[th] /\ pc[th] # "forget"
    BY OthersStay DEF Busy, Procedure
  <1>4. CASE \/ Enable(me) \/ Query(me) \/ SaveServer(me) \/ SaveFlags(me)
             \/ Release(me) \/ Disable(me) \/ Current(me) \/ ClearFlags(me)
    <2>1. /\ UNCHANGED <<by, sys, pref, sysProxy>>
          /\ Busy(me)' /\ pc'[me] \notin {"mem", "forget", "ended"}
          /\ pc[me] # "pref"
      BY <1>1, <1>4 DEF Enable, Query, SaveServer, SaveFlags, Release, Disable,
           Current, ClearFlags, Fails, Busy, Procedure, TypeOK, Orderly
    <2>2. QED
      BY <1>0, <1>3, <2>1 DEF Gone, Threads, Busy, Procedure
  <1>5. CASE Apply(me)
    <2>1. /\ pc[me] = "apply" /\ UNCHANGED <<pref, sysProxy>>
          /\ pc'[me] = IF Enabling(me) THEN "pref" ELSE "clearFlags"
          /\ by' = IF Enabling(me) THEN "enable" ELSE "disable"
      BY <1>1, <1>5 DEF Apply, Fails, TypeOK, Orderly
    <2>2. CASE Enabling(me)
      <3>1. me = "ui"
        BY <1>0, <2>2 DEF WatchForm, Threads
      <3>2. QED
        BY <1>0, <1>3, <2>1, <2>2, <3>1 DEF Gone, Busy, Procedure
    <2>3. CASE ~Enabling(me)
      <3>1. ~Ours'
        BY <2>1, <2>3
      <3>2. QED
        BY <1>0, <1>3, <2>1, <2>3, <3>1 DEF Gone, Busy, Procedure, Threads
    <2>4. QED
      BY <2>2, <2>3
  <1>6. CASE ClearServer(me)
    <2>1. /\ pc[me] = "clearServer" /\ UNCHANGED <<by, sys, pref, sysProxy>>
          /\ ~Ours
      BY <1>2, <1>6 DEF ClearServer, Place
    <2>2. pc'[me] = IF op[me] = "set" THEN "pref" ELSE Return(me)
      BY <1>6 DEF ClearServer, TypeOK
    <2>3. CASE op[me] = "exit"
      <3>1. pc'["ui"] = "ended"
        BY <2>2, <2>3 DEF Return, WatchForm, Threads
      <3>2. QED
        BY <1>0, <2>1, <2>2, <2>3, <3>1 DEF Gone, Return
    <2>4. CASE op[me] # "exit"
      <3>1. Busy(me)' /\ pc'[me] # "mem"
        BY <2>2, <2>4 DEF Return, Busy, Procedure, TypeOK
      <3>2. pc["ui"] = "ended" => pc'["ui"] = "ended"
        BY <1>3, <2>1 DEF Threads
      <3>3. pc["ui"] \notin {"down", "boot"} \/ me = "watch"
        BY <2>1, <1>0 DEF Busy, Procedure, Threads
      <3>4. me = "watch" => pc'["ui"] = pc["ui"]
        BY <1>3 DEF Threads
      <3>5. QED
        BY <1>0, <2>1, <3>1, <3>2, <3>3, <3>4 DEF Gone
    <2>5. QED
      BY <2>3, <2>4
  <1>7. CASE SavePref(me)
    <2>1. /\ pc[me] = "pref" /\ UNCHANGED <<by, sys, sysProxy>>
          /\ pc'[me] = "mem" /\ pref' = arg[me]
      BY <1>1, <1>7 DEF SavePref, TypeOK, Orderly
    <2>2. ~Enabling(me) => ~Ours
      BY <1>2, <2>1 DEF Place
    <2>3. op[me] = "set"
      BY <1>2, <2>1 DEF Form
    <2>4. pc'["ui"] \in {"ended", "forget"} => pc["ui"] \in {"ended", "forget"}
      BY <1>3, <2>1 DEF Threads
    <2>5. QED
      BY <1>0, <2>1, <2>2, <2>3, <2>4 DEF Gone, Busy, Procedure
  <1>8. CASE Remember(me)
    <2>1. /\ pc[me] = "mem" /\ UNCHANGED <<by, sys, pref>>
          /\ pc'[me] = "idle" /\ sysProxy' = arg[me]
      BY <1>8 DEF Remember, TypeOK
    <2>2. pc'["ui"] \in {"ended", "forget"} => pc["ui"] \in {"ended", "forget"}
      BY <1>3, <2>1 DEF Threads
    <2>3. QED
      BY <1>0, <2>1, <2>2 DEF Gone
  <1>9. QED
    BY <1>4, <1>5, <1>6, <1>7, <1>8 DEF Proceed

LEMMA OrderlyMineIsAll ==
  ASSUME NEW me \in Threads, \A th \in Threads \ {me} : ~Busy(th), Orderly
  PROVE  OrderlyInv <=> OrderlyMine(me)
  BY DEF OrderlyInv, OrderlyMine, PrefNamesIt, MemFollows, Busy, Procedure

LEMMA OrderlyMineIsAllNext ==
  ASSUME NEW me \in Threads, \A th \in Threads \ {me} : ~Busy(th)',
         OrderlyMine(me)'
  PROVE  OrderlyInv'
  BY DEF OrderlyInv, OrderlyMine, PrefNamesIt, MemFollows, Busy, Procedure

\* A call begins, and no other is under way.
LEMMA OrderlyCall ==
  ASSUME TypeInv, OrderlyInv, NEW me \in Threads, ~Busy(me),
         NEW l, NEW o,
         NEW procedure \in {"enable", "disable", "release"},
         me = "ui" /\ pc["ui"] \in {"down", "boot", "ended"} =>
            l = pref \/ o = "boot",
         Call(me, procedure, o, l), Orderly',
         UNCHANGED <<by, sys, pref>>, sysProxy' = sysProxy
  PROVE  OrderlyInv'
  <1>1. Orderly /\ \A th \in Threads : ~Busy(th)
    BY DEF Call, Meets, Busy, Orderly
  <1>2. \A th \in Threads \ {me} : pc'[th] = pc[th] /\ ~Busy(th)'
    BY <1>1 DEF Call, Busy, TypeInv, TypeOK
  <1>3. pc'[me] = procedure /\ op'[me] = o /\ arg'[me] = l
    BY DEF Call, TypeInv, TypeOK
  <1>4. /\ Ours => pref # None
        /\ sysProxy = pref \/ pc["ui"] \in {"down", "boot", "ended"}
        /\ Gone
    BY <1>1 DEF OrderlyInv, PrefNamesIt, MemFollows, Busy, Procedure
  <1>5. OrderlyMine(me)'
    BY <1>2, <1>3, <1>4 DEF OrderlyMine, Ours, Gone, Busy, Procedure, Threads
  <1>6. QED
    BY <1>2, <1>5, OrderlyMineIsAllNext

\* A step outside of the calls that knows or forgets enough.
LEMMA OrderlyQuiet ==
  ASSUME OrderlyInv, Orderly, UNCHANGED <<by, sys, pref, sysProxy>>,
         pc'["ui"] \in {"ended", "forget"} => ~Ours,
         sysProxy = pref \/ pc["ui"] \notin {"down", "boot", "ended"}
                        \/ pc'["ui"] \in {"down", "boot", "ended"},
         \A th \in Threads :
            /\ Busy(th) \/ Busy(th)' =>
                 pc'[th] = pc[th] /\ op'[th] = op[th] /\ arg'[th] = arg[th]
  PROVE  OrderlyInv'
  <1>1. PrefNamesIt'
    BY DEF OrderlyInv, PrefNamesIt, Ours, Enabling, Busy, Procedure
  <1>2. MemFollows'
    BY DEF OrderlyInv, MemFollows, Busy
  <1>3. Gone'
    BY DEF Gone, Ours
  <1>4. \A th \in Threads : pc'[th] = "mem" => pref' = arg'[th]
    BY DEF OrderlyInv, Busy, Procedure
  <1>5. QED
    BY <1>1, <1>2, <1>3, <1>4 DEF OrderlyInv

LEMMA OrderlyApp ==
  ASSUME TypeInv, BootForm, KeptInv, OrderlyInv, Orderly',
         \/ Boot \/ Start \/ Forget \/ Launch \/ ShowMenu \/ Choose \/ Shutdown
         \/ ReloadSwaps \/ ReloadChecks
  PROVE  OrderlyInv'
  <1> USE DEF TypeInv, Goes
  <1>0. "ui" \in Threads /\ "watch" \in Threads /\ Threads = {"ui", "watch"}
    BY DEF Threads
  <1>a. Orderly /\ Gone
    BY DEF Boot, Start, Forget, Launch, ShowMenu, Choose, Shutdown,
           ReloadSwaps, ReloadChecks, SetSystemProxy, Call, OrderlyInv, Orderly
  <1>1. CASE Boot
    BY <1>0, <1>1, <1>a, OrderlyQuiet DEF Boot, TypeOK, Busy, Procedure
  <1>2. CASE Start
    <2>0. ~Busy("ui") /\ pc["ui"] = "boot" /\ sysProxy = None
      BY <1>2 DEF Start, Busy, Procedure, BootForm
    <2>1. CASE /\ pc' = [pc EXCEPT !["ui"] = "idle"]
               /\ UNCHANGED <<op, arg>>
               /\ hurt' = IF pref = None THEN hurt ELSE hurt \cup {"fault"}
      <3>1. pref = None
        BY <2>1 DEF Orderly
      <3>2. QED
        BY <1>0, <1>2, <1>a, <2>0, <2>1, <3>1, OrderlyQuiet
           DEF Start, TypeOK, Busy, Procedure
    <2>2. CASE SetSystemProxy("ui", pref) /\ pref # None
      BY <1>0, <1>2, <2>0, <2>2, OrderlyCall DEF Start, SetSystemProxy
    <2>3. CASE Call("ui", "release", "boot", pref)
      BY <1>0, <1>2, <2>0, <2>3, OrderlyCall DEF Start
    <2>4. QED
      BY <1>2, <2>1, <2>2, <2>3 DEF Start
  <1>3. CASE Forget
    <2>1. pc["ui"] = "forget" /\ pc["watch"] = "down" /\ sysProxy = None
      BY <1>0, <1>3 DEF Forget, Form, BootForm, Busy, Procedure
    <2>2. ~Ours'
      BY <1>3, <1>a, <2>1 DEF Forget, Gone, Ours
    <2>3. pref' = None /\ sysProxy' = None
      BY <1>3, <2>1 DEF Forget, Orderly
    <2>4. pc'["ui"] = "idle" /\ pc'["watch"] = "down"
      BY <1>0, <1>3, <2>1 DEF Forget, TypeOK
    <2>5. QED
      BY <1>0, <2>2, <2>3, <2>4 DEF OrderlyInv, PrefNamesIt, MemFollows, Gone
  <1>4. CASE Launch
    BY <1>0, <1>4, <1>a, OrderlyQuiet DEF Launch, TypeOK, Busy, Procedure
  <1>5. CASE ShowMenu
    BY <1>0, <1>5, <1>a, OrderlyQuiet DEF ShowMenu, Gone
  <1>6. CASE Choose
    <2>1. PICK l \in menu \cup {None} : SetSystemProxy("ui", l)
      BY <1>6 DEF Choose
    <2>2. pc["ui"] = "idle" /\ ~Busy("ui")
      BY <1>6 DEF Choose, Busy, Procedure
    <2>3. QED
      BY <1>0, <1>6, <2>1, <2>2, OrderlyCall DEF Choose, SetSystemProxy
  <1>7. CASE Shutdown
    <2>0. pc["ui"] = "idle" /\ ~Busy("ui")
      BY <1>7 DEF Shutdown, Busy, Procedure
    <2>1. CASE sysProxy = None
      <3>1. ~Ours
        BY <1>0, <1>a, <2>0, <2>1
           DEF OrderlyInv, PrefNamesIt, MemFollows, WatchForm, Busy, Procedure,
               Enabling
      <3>2. QED
        BY <1>0, <1>7, <1>a, <2>0, <2>1, <3>1, OrderlyQuiet
           DEF Shutdown, TypeOK, Busy, Procedure
    <2>2. CASE sysProxy # None
      BY <1>0, <1>7, <2>0, <2>2, OrderlyCall DEF Shutdown
    <2>3. QED
      BY <2>1, <2>2
  <1>8. CASE ReloadSwaps
    BY <1>0, <1>8, <1>a, OrderlyQuiet
       DEF ReloadSwaps, TypeOK, Busy, Procedure, Gone
  <1>9. CASE ReloadChecks
    <2>0. ~Busy("watch")
      BY <1>9 DEF ReloadChecks, Busy, Procedure
    <2>1. CASE arg["watch"] # None /\ ~HasListen(arg["watch"])
      BY <1>0, <1>9, <2>0, <2>1, OrderlyCall DEF ReloadChecks, SetSystemProxy
    <2>2. CASE ~(arg["watch"] # None /\ ~HasListen(arg["watch"]))
      BY <1>0, <1>9, <1>a, <2>2, OrderlyQuiet
         DEF ReloadChecks, TypeOK, Busy, Procedure, Gone
    <2>3. QED
      BY <2>1, <2>2
  <1>10. QED
    BY <1>1, <1>2, <1>3, <1>4, <1>5, <1>6, <1>7, <1>8, <1>9

LEMMA OrderlyStep ==
  TypeInv /\ BootForm /\ KeptInv /\ OrderlyInv /\ [Next]_vars => OrderlyInv'
  <1> SUFFICES ASSUME TypeInv, BootForm, KeptInv, OrderlyInv, [Next]_vars,
                      Orderly'
               PROVE  OrderlyInv'
    BY DEF OrderlyInv
  <1>1. CASE \E me \in Threads : Proceed(me)
    <2>1. PICK me \in Threads : Proceed(me)
      BY <1>1
    <2>2. Busy(me) /\ Orderly /\ Fine
      BY <2>1, ProceedIsBusy DEF Fine, Orderly
    <2>3. \A th \in Threads \ {me} : ~Busy(th)
      BY <2>2 DEF KeptInv, OneCall
    <2>4. \A th \in Threads \ {me} : ~Busy(th)'
      BY <2>1, <2>3, OthersStay DEF Busy, TypeInv
    <2>5. Mine(me) /\ OrderlyMine(me)
      BY <2>2, <2>3, MineIsAll, OrderlyMineIsAll
    <2>6. OrderlyMine(me)'
      BY <2>1, <2>3, <2>5, OrderlyProceed
    <2>7. QED
      BY <2>4, <2>6, OrderlyMineIsAllNext
  <1>2. CASE \/ Boot \/ Start \/ Forget \/ Launch \/ ShowMenu \/ Choose
             \/ Shutdown \/ ReloadSwaps \/ ReloadChecks
    BY <1>2, OrderlyApp
  <1>3. CASE Dies
    <2>1. Orderly /\ \A th \in Threads : ~Busy(th)
      BY <1>3 DEF Dies, Busy, Orderly
    <2>2. Ours => pref # None
      BY <2>1 DEF OrderlyInv, PrefNamesIt, Busy, Procedure
    <2>3. UNCHANGED <<by, sys, pref>> /\ pc' = [th \in Threads |-> "down"]
      BY <1>3 DEF Dies
    <2>4. QED
      BY <2>2, <2>3 DEF OrderlyInv, PrefNamesIt, MemFollows, Gone, Ours,
                        Threads
  <1>4. CASE OtherProgram
    <2>1. ~Ours'
      BY <1>4 DEF OtherProgram, Ours
    <2>2. QED
      BY <1>4, <2>1 DEF OtherProgram, OrderlyInv, Orderly, PrefNamesIt,
                        MemFollows, Gone, Busy, Ours
  <1>5. CASE UNCHANGED vars
    BY <1>5 DEF OrderlyInv, Orderly, PrefNamesIt, MemFollows, Gone, Ours, Busy,
                Enabling
  <1>6. QED
    BY <1>1, <1>2, <1>3, <1>4, <1>5 DEF Next

LEMMA SavedProceed ==
  ASSUME TypeInv, BootForm, SavedInv, Orderly', NEW me \in Threads, Proceed(me),
         Mine(me), \A th \in Threads \ {me} : ~Busy(th)
  PROVE  SavedInv'
  <1> USE DEF TypeInv, Goes
  <1>0. "ui" \in Threads /\ "watch" \in Threads /\ Threads = {"ui", "watch"}
    BY DEF Threads
  <1>1. Orderly /\ Busy(me) /\ op' = op /\ arg' = arg
    BY ProceedIsBusy DEF Orderly
  <1>2. \A th \in Threads \ {me} : pc'[th] = pc[th] /\ ~Busy(th)'
    BY OthersStay DEF Busy
  <1>3. Place(me) /\ Form(me)
    BY DEF Mine
  <1>4. pc["ui"] \notin {"down", "boot"}
    BY <1>0, <1>1 DEF BootForm, Busy, Procedure
  <1> USE DEF SavedInv, Busy, Procedure
  <1>5. CASE \/ Enable(me) \/ Query(me) \/ SaveServer(me) \/ Release(me)
             \/ Disable(me) \/ Current(me)
    <2>1. /\ UNCHANGED <<savedFlags, sysProxy>>
          /\ pc'[me] \in {"query", "saveServer", "saveFlags", "disable",
                          "current", "apply", "clearFlags"}
      BY <1>5 DEF Enable, Query, SaveServer, Release, Disable, Current, Fails,
                  TypeOK, Orderly
    <2>2. QED
      BY <1>0, <1>1, <1>2, <1>4, <2>1
  <1>6. CASE SaveFlags(me)
    <2>1. me = "ui" /\ pc'[me] = "apply"
      BY <1>0, <1>3, <1>6 DEF SaveFlags, Fails, TypeOK, Orderly, Form, Enabling,
                              WatchForm
    <2>2. QED
      BY <1>0, <1>2, <2>1
  <1>7. CASE Apply(me)
    <2>1. /\ UNCHANGED <<savedFlags, sysProxy>> /\ pc[me] = "apply"
          /\ pc'[me] = IF Enabling(me) THEN "pref" ELSE "clearFlags"
      BY <1>7 DEF Apply, Fails, TypeOK, Orderly
    <2>2. Enabling(me) => arg[me] # None /\ savedFlags # None
      BY <1>3, <2>1 DEF Enabling, Place
    <2>3. QED
      BY <1>0, <1>1, <1>2, <1>4, <2>1, <2>2
  <1>8. CASE ClearFlags(me)
    <2>1. /\ savedFlags' = None /\ sysProxy' = sysProxy
          /\ pc'[me] = "clearServer"
      BY <1>8 DEF ClearFlags, TypeOK, Orderly
    <2>2. QED
      BY <1>0, <1>1, <1>2, <1>4, <2>1
  <1>9. CASE ClearServer(me)
    <2>1. /\ UNCHANGED <<savedFlags, sysProxy>> /\ savedFlags = None
          /\ pc[me] = "clearServer"
          /\ pc'[me] = IF op[me] = "set" THEN "pref" ELSE Return(me)
      BY <1>3, <1>9 DEF ClearServer, TypeOK, Place
    <2>2. op[me] = "set" => arg[me] = None
      BY <1>3, <2>1 DEF Form, Enabling
    <2>3. IF op[me] = "set" THEN pc'[me] = "pref"
          ELSE me # "watch" /\ pc'[me] \in {"forget", "ended"}
      BY <2>1 DEF Return, TypeOK, WatchForm
    <2>4. QED
      BY <1>0, <1>1, <1>2, <1>4, <2>1, <2>2, <2>3
  <1>10. CASE SavePref(me)
    <2>1. /\ UNCHANGED <<savedFlags, sysProxy>>
          /\ pc[me] = "pref" /\ pc'[me] = "mem"
      BY <1>10 DEF SavePref, TypeOK
    <2>2. QED
      BY <1>0, <1>1, <1>2, <1>4, <2>1
  <1>11. CASE Remember(me)
    <2>1. /\ savedFlags' = savedFlags /\ sysProxy' = arg[me]
          /\ pc[me] = "mem" /\ pc'[me] = "idle"
      BY <1>11 DEF Remember, TypeOK
    <2>2. QED
      BY <1>0, <1>1, <1>2, <1>4, <2>1
  <1>12. QED
    BY <1>5, <1>6, <1>7, <1>8, <1>9, <1>10, <1>11 DEF Proceed

\* A call begins, and no other is under way.
LEMMA SavedCall ==
  ASSUME TypeInv, BootForm, SavedInv, Orderly', NEW me \in Threads,
         pc[me] \in {"boot", "idle", "check"}, NEW l, NEW o,
         NEW procedure \in {"enable", "disable", "release"},
         Call(me, procedure, o, l), UNCHANGED <<savedFlags, sysProxy>>
  PROVE  SavedInv'
  <1> USE DEF TypeInv, SavedInv, Busy, Procedure
  <1>0. "ui" \in Threads /\ "watch" \in Threads /\ Threads = {"ui", "watch"}
    BY DEF Threads
  <1>1. Orderly /\ \A th \in Threads : ~Busy(th)
    BY DEF Call, Meets, Orderly
  <1>2. pc'[me] = procedure /\ \A th \in Threads \ {me} : pc'[th] = pc[th]
    BY DEF Call, TypeOK
  <1>3. CASE me = "ui"
    BY <1>0, <1>1, <1>2, <1>3
  <1>4. CASE me = "watch"
    <2>1. pc["ui"] \in {"idle", "ended"}
      BY <1>0, <1>1, <1>4 DEF TypeOK, WatchForm, BootForm
    <2>2. QED
      BY <1>0, <1>1, <1>2, <1>4, <2>1
  <1>5. QED
    BY <1>0, <1>3, <1>4

LEMMA SavedApp ==
  ASSUME TypeInv, BootForm, SavedInv, Orderly',
         \/ Boot \/ Start \/ Forget \/ Launch \/ ShowMenu \/ Choose \/ Shutdown
         \/ ReloadSwaps \/ ReloadChecks
  PROVE  SavedInv'
  <1> USE DEF TypeInv, Goes
  <1>0. "ui" \in Threads /\ "watch" \in Threads /\ Threads = {"ui", "watch"}
    BY DEF Threads
  <1>a. Orderly
    BY DEF Boot, Start, Forget, Launch, ShowMenu, Choose, Shutdown,
           ReloadSwaps, ReloadChecks, SetSystemProxy, Call, Orderly
  <1>1. CASE Boot
    BY <1>0, <1>1, <1>a DEF Boot, TypeOK, SavedInv, Busy, Procedure
  <1>2. CASE Start
    <2>1. CASE /\ pc' = [pc EXCEPT !["ui"] = "idle"]
               /\ UNCHANGED <<op, arg>>
               /\ hurt' = IF pref = None THEN hurt ELSE hurt \cup {"fault"}
      <3>1. pref = None
        BY <2>1 DEF Orderly
      <3>2. savedFlags = None /\ sysProxy = None /\ pc["watch"] = "down"
        BY <1>2, <1>a, <3>1 DEF Start, SavedInv, BootForm
      <3>3. QED
        BY <1>0, <1>2, <2>1, <3>2 DEF Start, TypeOK, SavedInv, Busy, Procedure
    <2>2. CASE SetSystemProxy("ui", pref) /\ pref # None
      BY <1>0, <1>2, <2>2, SavedCall DEF Start, SetSystemProxy
    <2>3. CASE Call("ui", "release", "boot", pref)
      BY <1>0, <1>2, <2>3, SavedCall DEF Start
    <2>4. QED
      BY <1>2, <2>1, <2>2, <2>3 DEF Start
  <1>3. CASE Forget
    <2>1. pc["ui"] = "forget" /\ pc["watch"] = "down" /\ sysProxy = None
      BY <1>0, <1>3 DEF Forget, Form, BootForm, Busy, Procedure
    <2>2. QED
      BY <1>0, <1>3, <1>a, <2>1 DEF Forget, TypeOK, SavedInv, Busy, Procedure
  <1>4. CASE Launch
    BY <1>0, <1>4, <1>a DEF Launch, TypeOK, SavedInv, Busy, Procedure
  <1>5. CASE ShowMenu
    BY <1>0, <1>5, <1>a DEF ShowMenu, SavedInv, Busy
  <1>6. CASE Choose
    <2>1. PICK l \in menu \cup {None} : SetSystemProxy("ui", l)
      BY <1>6 DEF Choose
    <2>2. QED
      BY <1>0, <1>6, <2>1, SavedCall DEF Choose, SetSystemProxy
  <1>7. CASE Shutdown
    <2>1. CASE sysProxy = None
      <3>1. savedFlags = None
        BY <1>7, <1>a, <2>1 DEF Shutdown, SavedInv
      <3>2. QED
        BY <1>0, <1>7, <1>a, <2>1, <3>1
           DEF Shutdown, TypeOK, SavedInv, Busy, Procedure
    <2>2. CASE sysProxy # None
      BY <1>0, <1>7, <2>2, SavedCall DEF Shutdown
    <2>3. QED
      BY <2>1, <2>2
  <1>8. CASE ReloadSwaps
    BY <1>0, <1>8, <1>a DEF ReloadSwaps, TypeOK, SavedInv, Busy, Procedure
  <1>9. CASE ReloadChecks
    <2>1. CASE arg["watch"] # None /\ ~HasListen(arg["watch"])
      BY <1>0, <1>9, <2>1, SavedCall DEF ReloadChecks, SetSystemProxy
    <2>2. CASE ~(arg["watch"] # None /\ ~HasListen(arg["watch"]))
      BY <1>0, <1>9, <1>a, <2>2
         DEF ReloadChecks, TypeOK, SavedInv, Busy, Procedure
    <2>3. QED
      BY <2>1, <2>2
  <1>10. QED
    BY <1>1, <1>2, <1>3, <1>4, <1>5, <1>6, <1>7, <1>8, <1>9

LEMMA SavedStep ==
  ASSUME TypeInv, BootForm, KeptInv, OrderlyInv, SavedInv, [Next]_vars
  PROVE  SavedInv'
  <1> SUFFICES ASSUME Orderly' PROVE SavedInv'
    BY DEF SavedInv
  <1>1. CASE \E me \in Threads : Proceed(me)
    <2>1. PICK me \in Threads : Proceed(me)
      BY <1>1
    <2>2. Busy(me) /\ Fine
      BY <2>1, ProceedIsBusy DEF Fine, Orderly
    <2>3. \A th \in Threads \ {me} : ~Busy(th)
      BY <2>2 DEF KeptInv, OneCall
    <2>4. QED
      BY <2>1, <2>2, <2>3, MineIsAll, SavedProceed
  <1>2. CASE \/ Boot \/ Start \/ Forget \/ Launch \/ ShowMenu \/ Choose
             \/ Shutdown \/ ReloadSwaps \/ ReloadChecks
    BY <1>2, SavedApp
  <1>3. CASE Dies
    <2>1. Orderly /\ \A th \in Threads : ~Busy(th)
      BY <1>3 DEF Dies, Busy, Orderly
    <2>2. pc["ui"] \in {"boot", "idle", "ended"}
      BY <1>3, <2>1 DEF Dies, TypeInv, TypeOK, WatchForm, Busy, Threads
    <2>3. pc["ui"] = "idle" => sysProxy = pref
      BY <2>1 DEF OrderlyInv, MemFollows
    <2>4. pref = None => savedFlags = None
      BY <2>1, <2>2, <2>3 DEF SavedInv, Threads
    <2>5. /\ pc' = [th \in Threads |-> "down"]
          /\ UNCHANGED <<savedFlags, pref>>
      BY <1>3 DEF Dies
    <2>6. QED
      BY <2>4, <2>5 DEF SavedInv, Busy, Procedure, Threads
  <1>4. CASE OtherProgram \/ UNCHANGED vars
    BY <1>4 DEF OtherProgram, SavedInv, Orderly, Busy
  <1>5. QED
    BY <1>1, <1>2, <1>3, <1>4 DEF Next

LEMMA ExitProceed ==
  ASSUME TypeInv, ExitInv, hurt' = {}, NEW me \in Threads, Proceed(me),
         Mine(me), \A th \in Threads \ {me} : ~Busy(th)
  PROVE  ExitInv'
  <1> USE DEF TypeInv, Goes
  <1>0. "ui" \in Threads /\ "watch" \in Threads /\ Threads = {"ui", "watch"}
    BY DEF Threads
  <1>1. hurt = {} /\ Busy(me) /\ op' = op /\ arg' = arg
    BY ProceedIsBusy
  <1>2. \A th \in Threads \ {me} :
           pc'[th] = pc[th] /\ ~Busy(th)' /\ read'[th] = read[th]
    BY OthersStay DEF Busy
  <1>3. Place(me) /\ Form(me) /\ Backed
    BY DEF Mine
  <1>4. op["ui"] = "exit" => me = "ui"
    BY <1>0, <1>1 DEF ExitInv
  <1> USE DEF ExitInv, Switched, Busy, Procedure
  <1>5. CASE Enable(me) \/ Query(me) \/ SaveServer(me) \/ SaveFlags(me)
    <2>1. /\ UNCHANGED <<by, sysProxy>>
          /\ pc'[me] \in {"query", "saveServer", "saveFlags", "apply"}
          /\ pc[me] \in {"enable", "query", "saveServer", "saveFlags"}
      BY <1>5 DEF Enable, Query, SaveServer, SaveFlags, Fails, TypeOK
    <2>2. op["ui"] # "exit"
      BY <1>1, <1>4, <2>1
    <2>3. QED
      BY <1>0, <1>1, <1>2, <2>1, <2>2
  <1>6. CASE Release(me)
    <2>1. /\ UNCHANGED <<by, sysProxy, savedFlags>>
          /\ pc[me] = "release" /\ pc'[me] \in {"disable", "clearFlags"}
      BY <1>6 DEF Release, TypeOK
    <2>2. QED
      BY <1>0, <1>1, <1>2, <1>4, <2>1
  <1>7. CASE Disable(me)
    <2>1. /\ UNCHANGED <<by, sysProxy, orig>>
          /\ pc[me] = "disable" /\ pc'[me] \in {"current", "apply"}
      BY <1>7 DEF Disable, TypeOK
    <2>2. savedFlags # None => pc'[me] = "apply" /\ read'[me] = Saved
      BY <1>1, <1>7 DEF Disable, TypeOK, Saved
    <2>3. op["ui"] = "exit" => pc'[me] = "apply" /\ read'[me] = orig
      BY <1>1, <1>3, <1>4, <2>1, <2>2 DEF Backed
    <2>4. QED
      BY <1>0, <1>1, <1>2, <1>4, <2>1, <2>3
  <1>8. CASE Current(me)
    <2>1. /\ UNCHANGED <<by, sysProxy>>
          /\ pc[me] = "current" /\ pc'[me] = "apply"
      BY <1>8 DEF Current, Fails, TypeOK
    <2>2. op["ui"] # "exit"
      BY <1>1, <1>4, <2>1
    <2>3. QED
      BY <1>0, <1>1, <1>2, <2>1, <2>2
  <1>9. CASE Apply(me)
    <2>1. /\ UNCHANGED <<sysProxy, orig>> /\ pc[me] = "apply"
          /\ pc'[me] = IF Enabling(me) THEN "pref" ELSE "clearFlags"
          /\ Enabling(me) => by' = "enable"
          /\ ~Enabling(me) => sys' = read[me]
      BY <1>9 DEF Apply, Fails, TypeOK
    <2>2. op["ui"] = "exit" => ~Enabling(me) /\ sys' = orig
      BY <1>1, <1>4, <2>1 DEF Enabling
    <2>3. QED
      BY <1>0, <1>1, <1>2, <1>4, <2>1, <2>2 DEF Enabling
  <1>10. CASE ClearFlags(me) \/ ClearServer(me)
    <2>1. /\ UNCHANGED <<by, sysProxy, sys, orig>>
          /\ pc[me] \in {"clearFlags", "clearServer"}
      BY <1>10 DEF ClearFlags, ClearServer
    <2>2. \/ pc'[me] = "clearServer"
          \/ pc'[me] = "pref" /\ ~Enabling(me) /\ op[me] = "set"
          \/ pc'[me] = "forget" /\ op[me] = "boot"
          \/ pc'[me] = "ended" /\ op[me] = "exit" /\ me = "ui"
      BY <1>0, <1>3, <1>10 DEF ClearFlags, ClearServer, Return, TypeOK, Form,
                               WatchForm
    <2>3. QED
      BY <1>0, <1>1, <1>2, <1>4, <2>1, <2>2 DEF Enabling
  <1>11. CASE SavePref(me)
    <2>1. /\ UNCHANGED <<by, sysProxy>> /\ pc[me] = "pref" /\ pc'[me] = "mem"
      BY <1>11 DEF SavePref, TypeOK
    <2>2. op["ui"] # "exit"
      BY <1>1, <1>4, <2>1
    <2>3. QED
      BY <1>0, <1>1, <1>2, <2>1, <2>2 DEF Enabling
  <1>12. CASE Remember(me)
    <2>1. /\ by' = by /\ sysProxy' = arg[me]
          /\ pc[me] = "mem" /\ pc'[me] = "idle"
      BY <1>12 DEF Remember, TypeOK
    <2>2. op["ui"] # "exit"
      BY <1>1, <1>4, <2>1
    <2>3. arg[me] # None => Enabling(me)
      BY <1>3, <2>1 DEF Enabling, Form
    <2>4. QED
      BY <1>0, <1>1, <1>2, <2>1, <2>2, <2>3
  <1>13. QED
    BY <1>5, <1>6, <1>7, <1>8, <1>9, <1>10, <1>11, <1>12 DEF Proceed

\* A call begins, and no other is under way.
LEMMA ExitCall ==
  ASSUME TypeInv, ExitInv, hurt' = {}, NEW me \in Threads,
         pc[me] \in {"boot", "idle", "check"}, NEW l, NEW o,
         NEW procedure \in {"enable", "disable", "release"},
         o = "exit" => /\ me = "ui" /\ procedure = "release"
                       /\ savedFlags # None /\ by # "disable",
         Call(me, procedure, o, l),
         UNCHANGED <<by, sys, savedFlags, sysProxy, read, orig>>
  PROVE  ExitInv'
  <1> USE DEF TypeInv, ExitInv, Switched, Busy, Procedure
  <1>0. "ui" \in Threads /\ "watch" \in Threads /\ Threads = {"ui", "watch"}
    BY DEF Threads
  <1>1. /\ hurt = {} /\ \A th \in Threads : ~Busy(th)
        /\ \A th \in Threads \ {me} : pc[th] # "ended"
    BY DEF Call, Meets
  <1>2. /\ pc'[me] = procedure /\ op'[me] = o
        /\ \A th \in Threads \ {me} : pc'[th] = pc[th] /\ op'[th] = op[th]
    BY DEF Call, TypeOK
  <1>3. op["ui"] # "exit"
    BY <1>0, <1>1 DEF WatchForm
  <1>4. QED
    BY <1>0, <1>1, <1>2, <1>3

LEMMA ExitApp ==
  ASSUME TypeInv, BootForm, SavedInv, ExitInv, hurt' = {},
         \/ Boot \/ Start \/ Forget \/ Launch \/ ShowMenu \/ Choose \/ Shutdown
         \/ ReloadSwaps \/ ReloadChecks
  PROVE  ExitInv'
  <1> USE DEF TypeInv, Goes
  <1>0. "ui" \in Threads /\ "watch" \in Threads /\ Threads = {"ui", "watch"}
    BY DEF Threads
  <1>a. hurt = {}
    BY DEF Boot, Start, Forget, Launch, ShowMenu, Choose, Shutdown,
           ReloadSwaps, ReloadChecks, SetSystemProxy, Call
  <1>1. CASE Boot
    BY <1>0, <1>1, <1>a
       DEF Boot, TypeOK, ExitInv, Switched, BootForm, Busy, Procedure
  <1>2. CASE Start
    <2>1. CASE /\ pc' = [pc EXCEPT !["ui"] = "idle"]
               /\ UNCHANGED <<op, arg>>
      BY <1>0, <1>2, <1>a, <2>1
         DEF Start, TypeOK, ExitInv, Switched, BootForm, Busy, Procedure
    <2>2. CASE SetSystemProxy("ui", pref) /\ pref # None
      BY <1>0, <1>2, <2>2, ExitCall DEF Start, SetSystemProxy
    <2>3. CASE Call("ui", "release", "boot", pref)
      BY <1>0, <1>2, <2>3, ExitCall DEF Start
    <2>4. QED
      BY <1>2, <2>1, <2>2, <2>3 DEF Start
  <1>3. CASE Forget
    <2>1. pc["ui"] = "forget" /\ pc["watch"] = "down" /\ sysProxy = None
      BY <1>0, <1>3 DEF Forget, Form, BootForm, Busy, Procedure
    <2>2. QED
      BY <1>0, <1>3, <1>a, <2>1
         DEF Forget, TypeOK, ExitInv, Switched, Busy, Procedure
  <1>4. CASE Launch
    BY <1>0, <1>4, <1>a
       DEF Launch, TypeOK, ExitInv, Switched, Busy, Procedure, Enabling
  <1>5. CASE ShowMenu
    BY <1>0, <1>5, <1>a DEF ShowMenu, ExitInv, Switched, Busy, Enabling
  <1>6. CASE Choose
    <2>1. PICK l \in menu \cup {None} : SetSystemProxy("ui", l)
      BY <1>6 DEF Choose
    <2>2. QED
      BY <1>0, <1>6, <2>1, ExitCall DEF Choose, SetSystemProxy
  <1>7. CASE Shutdown
    <2>1. CASE sysProxy = None
      BY <1>0, <1>7, <1>a, <2>1
         DEF Shutdown, TypeOK, ExitInv, Switched, Busy, Procedure, Enabling
    <2>2. CASE sysProxy # None
      <3>1. Call("ui", "release", "exit", sysProxy) /\ pc["ui"] = "idle"
        BY <1>7, <2>2 DEF Shutdown
      <3>2. ~Busy("watch") /\ ~Busy("ui")
        BY <1>0, <3>1 DEF Call, Meets, Busy, Procedure
      <3>3. savedFlags # None
        BY <1>a, <2>2, <3>1, <3>2 DEF SavedInv, Orderly
      <3>4. by # "disable"
        BY <1>0, <1>a, <2>2, <3>1, <3>2 DEF ExitInv, Switched
      <3>5. QED
        BY <1>0, <1>7, <3>1, <3>3, <3>4, ExitCall DEF Shutdown
    <2>3. QED
      BY <2>1, <2>2
  <1>8. CASE ReloadSwaps
    BY <1>0, <1>8, <1>a
       DEF ReloadSwaps, TypeOK, ExitInv, Switched, Busy, Procedure, Enabling
  <1>9. CASE ReloadChecks
    <2>1. CASE arg["watch"] # None /\ ~HasListen(arg["watch"])
      BY <1>0, <1>9, <2>1, ExitCall DEF ReloadChecks, SetSystemProxy
    <2>2. CASE ~(arg["watch"] # None /\ ~HasListen(arg["watch"]))
      BY <1>0, <1>9, <1>a, <2>2
         DEF ReloadChecks, TypeOK, ExitInv, Switched, Busy, Procedure, Enabling
    <2>3. QED
      BY <2>1, <2>2
  <1>10. QED
    BY <1>1, <1>2, <1>3, <1>4, <1>5, <1>6, <1>7, <1>8, <1>9

LEMMA ExitStep ==
  ASSUME TypeInv, BootForm, KeptInv, SavedInv, ExitInv, [Next]_vars
  PROVE  ExitInv'
  <1> SUFFICES ASSUME hurt' = {} PROVE ExitInv'
    BY DEF ExitInv
  <1>1. CASE \E me \in Threads : Proceed(me)
    <2>1. PICK me \in Threads : Proceed(me)
      BY <1>1
    <2>2. Busy(me) /\ Fine
      BY <2>1, ProceedIsBusy DEF Fine
    <2>3. \A th \in Threads \ {me} : ~Busy(th)
      BY <2>2 DEF KeptInv, OneCall
    <2>4. QED
      BY <2>1, <2>2, <2>3, MineIsAll, ExitProceed
  <1>2. CASE \/ Boot \/ Start \/ Forget \/ Launch \/ ShowMenu \/ Choose
             \/ Shutdown \/ ReloadSwaps \/ ReloadChecks
    BY <1>2, ExitApp
  <1>3. CASE Dies
    <2>1. /\ pc' = [th \in Threads |-> "down"] /\ sysProxy' = None
          /\ op' = [th \in Threads |-> "set"]
      BY <1>3 DEF Dies
    <2>2. QED
      BY <2>1 DEF ExitInv, Switched, Threads
  <1>4. CASE OtherProgram
    BY <1>4 DEF OtherProgram, ExitInv, Switched, Busy
  <1>5. CASE UNCHANGED vars
    BY <1>5 DEF ExitInv, Switched, Busy, Enabling
  <1>6. QED
    BY <1>1, <1>2, <1>3, <1>4, <1>5 DEF Next

LEMMA IInvInit == Init => IInv
  <1> SUFFICES ASSUME Init PROVE IInv
    OBVIOUS
  <1>1. ~Ours
    BY DEF Init, Ours
  <1>2. BootForm /\ OrderlyInv
    BY <1>1 DEF Init, BootForm, OrderlyInv, PrefNamesIt, MemFollows, Gone,
                Threads
  <1>3. SavedInv /\ ExitInv
    BY DEF Init, SavedInv, ExitInv, Switched, Busy, Procedure, Threads
  <1>4. QED
    BY <1>2, <1>3, TypeInit, KeptInit DEF IInv

LEMMA IInvStep == IInv /\ [Next]_vars => IInv'
  BY TypeStep, BootStep, KeptStep, OrderlyStep, SavedStep, ExitStep DEF IInv

\* Between calls, what the program remembers is what it keeps in the registry
\* for the next start and what Windows shows, if nobody has changed that; and
\* what is to be restored is in the registry exactly while the program has
\* turned the proxy on: as long as no call has failed, been cut off or met
\* another, whatever others make of the settings (app_windows.go:59-67,
\* 203-218).
THEOREM ChoiceAlwaysKnown == Spec => []ChoiceIsKnown
  <1>1. IInv => ChoiceIsKnown
    <2> SUFFICES ASSUME IInv, pc["ui"] = "idle", pc["watch"] = "idle", hurt = {}
                 PROVE  /\ pref = sysProxy
                        /\ Ours => /\ sysProxy # None
                                   /\ sys.server = systemProxyAddr(sysProxy)
                        /\ sysProxy = None => savedFlags = None
                        /\ sysProxy # None => savedFlags # None /\ Saved = orig
      BY DEF ChoiceIsKnown
    <2>1. Orderly /\ Fine /\ \A th \in Threads : pc[th] = "idle" /\ ~Busy(th)
      BY DEF Threads, Busy, Procedure, Orderly, Fine
    <2>2. pref = sysProxy /\ (Ours => pref # None)
      BY <2>1 DEF IInv, OrderlyInv, MemFollows, PrefNamesIt
    <2>3. pref # None /\ Ours => sys.server = systemProxyAddr(pref)
      BY <2>1 DEF IInv, KeptInv, PrefKnown, Known
    <2>4. sysProxy = None <=> savedFlags = None
      BY <2>1 DEF IInv, SavedInv, Threads
    <2>5. savedFlags # None => Saved = orig
      BY <2>1 DEF IInv, KeptInv, Backed
    <2>6. QED
      BY <2>2, <2>3, <2>4, <2>5
  <1>2. QED
    BY <1>1, IInvInit, IInvStep, PTL DEF Spec

\* When the program has ended in order, nothing that it has made of the
\* settings is left; and if the exit has restored anything, it is what had been
\* there (app_windows.go:292).
THEOREM ExitAlwaysRestores == Spec => []ExitRestores
  <1>1. IInv => ExitRestores
    <2> SUFFICES ASSUME IInv, pc["ui"] = "ended", Orderly
                 PROVE  /\ ~Ours
                        /\ op["ui"] = "exit" /\ by = "disable" /\ hurt = {}
                              => sys = orig
      BY DEF ExitRestores, Orderly
    <2>1. ~Ours
      BY DEF IInv, OrderlyInv, Gone
    <2>2. op["ui"] = "exit" /\ by = "disable" /\ hurt = {} => sys = orig
      BY DEF IInv, ExitInv
    <2>3. QED
      BY <2>1, <2>2
  <1>2. QED
    BY <1>1, IInvInit, IInvStep, PTL DEF Spec

=============================================================================
