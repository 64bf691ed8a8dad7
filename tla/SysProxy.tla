------------------------------- MODULE SysProxy -------------------------------
(***************************************************************************)
(* The system proxy: enableSystemProxy, disableSystemProxy and              *)
(* releaseSystemProxy (sysproxy_windows.go), and what App does with them in *)
(* Start, Reload, SetSystemProxy and Shutdown (app_windows.go).             *)
(*                                                                          *)
(* Two threads use them without a lock: the user interface ("ui") and       *)
(* watchConfig ("watch").  The settings of Windows and the program's key in *)
(* the registry outlive the process, which may die at any moment; the user  *)
(* and other programs change the settings of Windows as they like, this     *)
(* program's addresses not excepted: the switch in the Windows settings     *)
(* leaves the server as it is.  Of the settings the model keeps the flag    *)
(* and the server; of the flags, PROXY_TYPE_PROXY.  Every call of Windows   *)
(* and of the registry may fail.                                            *)
(***************************************************************************)
EXTENDS Naturals

CONSTANTS
    Listens,    \* listen addresses of this program's proxies
    Foreign,    \* other servers
    MaxReloads, \* bound: Reloads of watchConfig in the life of a process
    None        \* nothing, or the empty string

Ports == {l.port : l \in Listens}
Addrs == [ip : {"loopback"}, port : Ports]

ASSUME SysProxyAssumption ==
    /\ Listens \subseteq [ip : {"loopback", "any"}, port : Ports]
    /\ None \notin Listens \cup Addrs \cup Foreign \cup BOOLEAN
    /\ MaxReloads \in Nat

Servers == Addrs \cup Foreign \cup {None}
Settings == [on : BOOLEAN, server : Servers]
Threads == {"ui", "watch"}

VARIABLES
    sys,         \* the settings of Windows
    savedServer, \* registry: SavedProxyServer
    savedFlags,  \* registry: SavedProxyFlags
    pref,        \* registry: SystemProxy
    sysProxy,    \* a.sysProxy
    config,      \* the addresses of the configuration in force
    closed,      \* a.closed
    menu,        \* the addresses of the menu that is shown
    reloads,     \* Reloads so far
    pc,          \* pc[th]: where a thread is; "down" if there is no process
    op,          \* op[th]: "set", or releaseSystemProxy in "boot" or "exit"
    arg,         \* arg[th]: the listen address it is about
    read,        \* read[th]: the settings it has queried or loaded (orig)
    by,          \* history: who wrote the settings of Windows last
    orig,        \* history: the settings last read in order to save them,
                 \* those excepted that the program itself had made
    hurt         \* history: what went wrong so far, see Hurts

history == <<by, orig, hurt>>

regVars  == <<savedServer, savedFlags, pref>>
appVars  == <<sysProxy, config, closed, menu, reloads>>
callVars == <<op, arg, read>>
vars == <<sys, regVars, appVars, pc, callVars, history>>

Procedure == {"enable", "query", "saveServer", "saveFlags", "release",
              "disable", "current", "apply", "clearFlags", "clearServer",
              "pref", "mem", "forget"}

Writers == {"others", "enable", "disable"}

\* "race": two threads were at it at once; "crash": the process died halfway;
\* "late": a Reload turned the proxy off after Shutdown had ended; "misread":
\* the saved settings could not be read; "stale": the registry was left with
\* another choice than Windows has, or with saved settings that were over;
\* "fault": any other call failed.
Hurts == {"race", "crash", "late", "misread", "stale", "fault"}

TypeOK ==
    /\ sys \in Settings
    /\ savedServer \in Servers
    /\ savedFlags \in BOOLEAN \cup {None}
    /\ pref \in Listens \cup {None}
    /\ sysProxy \in Listens \cup {None}
    /\ config \subseteq Listens
    /\ closed \in BOOLEAN
    /\ menu \subseteq Listens
    /\ reloads \in 0 .. MaxReloads
    /\ pc \in [Threads -> Procedure \cup {"down", "boot", "idle", "check",
                                          "ended"}]
    /\ op \in [Threads -> {"set", "boot", "exit"}]
    /\ arg \in [Threads -> Listens \cup {None}]
    /\ read \in [Threads -> Settings \cup {None}]
    /\ orig \in Settings \cup {None}
    /\ by \in Writers
    /\ hurt \subseteq Hurts

Init ==
    /\ sys \in Settings
    /\ savedServer = None
    /\ savedFlags = None
    /\ pref = None
    /\ sysProxy = None
    /\ config = {}
    /\ closed = FALSE
    /\ menu = {}
    /\ reloads = 0
    /\ pc = [th \in Threads |-> "down"]
    /\ op = [th \in Threads |-> "set"]
    /\ arg = [th \in Threads |-> None]
    /\ read = [th \in Threads |-> None]
    /\ by = "others"
    /\ orig = None
    /\ hurt = {}

\* systemProxyAddr: what listens everywhere is reached on the loopback.
systemProxyAddr(l) == [l EXCEPT !.ip = "loopback"]

OnAt(l) == [on |-> TRUE, server |-> systemProxyAddr(l)]

PointsTo(s, a) == s.on /\ s.server = a

HasListen(l) == ~closed /\ l \in config

Goes(th, from, to) == pc[th] = from /\ pc' = [pc EXCEPT ![th] = to]

\* Where a thread goes when the call is over.
Return(th) ==
    CASE op[th] = "boot" -> "forget" [] op[th] = "exit" -> "ended"
      [] OTHER -> "idle"

Meets(th, places, h) ==
    IF \E other \in Threads \ {th} : pc[other] \in places THEN {h} ELSE {}

\* A call begins, perhaps while the other thread is in one, or has ended.
Call(th, procedure, o, l) ==
    /\ pc' = [pc EXCEPT ![th] = procedure]
    /\ op' = [op EXCEPT ![th] = o]
    /\ arg' = [arg EXCEPT ![th] = l]
    /\ hurt' = hurt \cup Meets(th, Procedure, "race")
                    \cup Meets(th, {"ended"}, "late")

SetSystemProxy(th, l) ==
    Call(th, IF l = None THEN "disable" ELSE "enable", "set", l)

\* A call ends with the settings it has read.
Drops(th) == read' = [read EXCEPT ![th] = None]

\* An error: the call is given up.
Fails(th) ==
    /\ pc' = [pc EXCEPT ![th] = Return(th)]
    /\ Drops(th)
    /\ hurt' = hurt \cup {"fault"}

-----------------------------------------------------------------------------
(* enableSystemProxy, and saveProxy, which writes the flags last. *)

\* Saved settings that loadSavedProxy cannot read count as none.
Enable(th) ==
    /\ pc[th] = "enable"
    /\ \/ /\ pc' = [pc EXCEPT ![th] = IF savedFlags = None THEN "query"
                                      ELSE "apply"]
          /\ hurt' = hurt
       \/ /\ savedFlags # None
          /\ pc' = [pc EXCEPT ![th] = "query"]
          /\ hurt' = hurt \cup {"misread"}
    /\ UNCHANGED <<sys, regVars, appVars, callVars, by, orig>>

Query(th) ==
    /\ pc[th] = "query"
    /\ \/ /\ pc' = [pc EXCEPT ![th] = "saveServer"]
          /\ read' = [read EXCEPT ![th] = sys]
          /\ orig' = IF by = "enable" THEN orig ELSE sys
          /\ hurt' = hurt
       \/ Fails(th) /\ UNCHANGED orig
    /\ UNCHANGED <<sys, regVars, appVars, op, arg, by>>

\* Broken variant: the flags, by which the rest is recognised, come first.
SaveServerLate(th) ==
    /\ Goes(th, "saveServer", "saveFlags")
    /\ savedFlags' = read[th].on
    /\ UNCHANGED <<sys, savedServer, pref, appVars, callVars, history>>

SaveServer(th) ==
    /\ pc[th] = "saveServer"
    /\ \/ /\ pc' = [pc EXCEPT ![th] = "saveFlags"]
          /\ savedServer' = read[th].server
          /\ UNCHANGED <<read, hurt>>
       \/ Fails(th) /\ UNCHANGED savedServer
    /\ UNCHANGED <<sys, savedFlags, pref, appVars, op, arg, by, orig>>

SaveFlags(th) ==
    /\ pc[th] = "saveFlags"
    /\ \/ /\ pc' = [pc EXCEPT ![th] = "apply"]
          /\ savedFlags' = read[th].on
          /\ Drops(th)
          /\ hurt' = hurt
       \/ Fails(th) /\ UNCHANGED savedFlags
    /\ UNCHANGED <<sys, savedServer, pref, appVars, op, arg, by, orig>>

-----------------------------------------------------------------------------
(* disableSystemProxy and releaseSystemProxy *)

\* Broken variant: what other programs have set is not looked at.
ReleaseBlindly(th) ==
    /\ Goes(th, "release", "clearFlags")
    /\ UNCHANGED <<sys, regVars, appVars, callVars, history>>

\* A query that fails counts as "still ours".
Release(th) ==
    /\ pc[th] = "release"
    /\ \/ /\ pc' = [pc EXCEPT ![th] =
                      IF PointsTo(sys, systemProxyAddr(arg[th])) THEN "disable"
                      ELSE "clearFlags"]
          /\ hurt' = hurt
       \/ /\ pc' = [pc EXCEPT ![th] = "disable"]
          /\ hurt' = hurt \cup {"fault"}
    /\ UNCHANGED <<sys, regVars, appVars, callVars, by, orig>>

\* loadSavedProxy may miss the flags, and so everything, or the server alone.
Disable(th) ==
    /\ pc[th] = "disable"
    /\ \/ /\ pc' = [pc EXCEPT ![th] = "current"]
          /\ hurt' = IF savedFlags = None THEN hurt ELSE hurt \cup {"misread"}
          /\ read' = read
       \/ /\ savedFlags # None
          /\ pc' = [pc EXCEPT ![th] = "apply"]
          /\ \E server \in {savedServer, None} :
                /\ read' = [read EXCEPT ![th] =
                              [on |-> savedFlags, server |-> server]]
                /\ hurt' = IF server = savedServer THEN hurt
                           ELSE hurt \cup {"misread"}
    /\ UNCHANGED <<sys, regVars, appVars, op, arg, by, orig>>

\* Nothing was saved: only the flag goes.
Current(th) ==
    /\ pc[th] = "current"
    /\ \/ /\ pc' = [pc EXCEPT ![th] = "apply"]
          /\ read' = [read EXCEPT ![th] = [sys EXCEPT !.on = FALSE]]
          /\ hurt' = hurt
       \/ Fails(th)
    /\ UNCHANGED <<sys, regVars, appVars, op, arg, by, orig>>

Enabling(th) == op[th] = "set" /\ arg[th] # None

\* applyProxySettings, for enable and disable.
Apply(th) ==
    /\ pc[th] = "apply"
    /\ \/ /\ pc' = [pc EXCEPT ![th] =
                      IF Enabling(th) THEN "pref" ELSE "clearFlags"]
          /\ sys' = IF Enabling(th) THEN OnAt(arg[th]) ELSE read[th]
          /\ Drops(th)
          /\ by' = IF Enabling(th) THEN "enable" ELSE "disable"
          /\ hurt' = hurt
       \/ Fails(th) /\ UNCHANGED <<sys, by>>
    /\ UNCHANGED <<regVars, appVars, op, arg, orig>>

\* clearSavedProxy deletes the flags first; nobody learns what it could not
\* delete.
ClearFlags(th) ==
    /\ Goes(th, "clearFlags", "clearServer")
    /\ \/ savedFlags' = None /\ hurt' = hurt
       \/ /\ savedFlags # None
          /\ savedFlags' = savedFlags /\ hurt' = hurt \cup {"stale"}
    /\ UNCHANGED <<sys, savedServer, pref, appVars, callVars, by, orig>>

ClearServer(th) ==
    /\ Goes(th, "clearServer", IF op[th] = "set" THEN "pref" ELSE Return(th))
    /\ \/ savedServer' = None /\ hurt' = hurt
       \/ savedServer' = savedServer /\ hurt' = hurt \cup {"fault"}
    /\ UNCHANGED <<sys, savedFlags, pref, appVars, callVars, by, orig>>

\* The registry still names an address that has just been replaced by
\* another one of this program.
Outdated(th) ==
    /\ pc[th] = "pref" /\ Enabling(th)
    /\ pref # None /\ systemProxyAddr(pref) # systemProxyAddr(arg[th])

Stale == IF \E th \in Threads : Outdated(th) THEN {"stale"} ELSE {}

\* The end of SetSystemProxy: saveSetting, whose errors nobody looks at, and
\* a.sysProxy.
SavePref(th) ==
    /\ Goes(th, "pref", "mem")
    /\ \/ pref' = arg[th] /\ hurt' = hurt
       \/ pref' = pref /\ hurt' = hurt \cup {"fault"} \cup Stale
    /\ UNCHANGED <<sys, savedServer, savedFlags, appVars, callVars, by, orig>>

Remember(th) ==
    /\ Goes(th, "mem", "idle")
    /\ sysProxy' = arg[th]
    /\ UNCHANGED <<sys, regVars, config, closed, menu, reloads, callVars,
                   history>>

Proceed(th) ==
    \/ Enable(th) \/ Query(th) \/ SaveServer(th) \/ SaveFlags(th)
    \/ Release(th) \/ Disable(th) \/ Current(th) \/ Apply(th)
    \/ ClearFlags(th) \/ ClearServer(th) \/ SavePref(th) \/ Remember(th)

-----------------------------------------------------------------------------
(* App: Start, the menu, Shutdown. *)

\* A process starts and loads its configuration.
Boot ==
    /\ pc = [th \in Threads |-> "down"]
    /\ pc' = [pc EXCEPT !["ui"] = "boot"]
    /\ config' \in SUBSET Listens
    /\ UNCHANGED <<sys, regVars, sysProxy, closed, menu, reloads, callVars,
                   history>>

\* Broken variant: a choice that cannot be met is passed over.
StartForgets ==
    /\ pc["ui"] = "boot"
    /\ IF pref # None /\ HasListen(pref) THEN SetSystemProxy("ui", pref)
       ELSE /\ pc' = [pc EXCEPT !["ui"] = "idle"]
            /\ UNCHANGED <<op, arg, hurt>>
    /\ UNCHANGED <<sys, regVars, appVars, read, by, orig>>

\* The rest of Start: turn on what was on, or restore what was before.  A
\* loadSetting that fails finds nothing.
Start ==
    /\ pc["ui"] = "boot"
    /\ \/ /\ pc' = [pc EXCEPT !["ui"] = "idle"]
          /\ hurt' = IF pref = None THEN hurt ELSE hurt \cup {"fault"}
          /\ UNCHANGED <<op, arg>>
       \/ pref # None /\ HasListen(pref) /\ SetSystemProxy("ui", pref)
       \/ /\ pref # None /\ ~HasListen(pref)
          /\ Call("ui", "release", "boot", pref)
    /\ UNCHANGED <<sys, regVars, appVars, read, by, orig>>

\* The last of it, a saveSetting whose error nobody looks at.
Forget ==
    /\ Goes("ui", "forget", "idle")
    /\ \/ pref' = None /\ hurt' = hurt
       \/ pref' = pref /\ hurt' = hurt \cup {"fault"}
    /\ UNCHANGED <<sys, savedServer, savedFlags, appVars, callVars, by, orig>>

\* go a.watchConfig()
Launch ==
    /\ pc["ui"] = "idle"
    /\ Goes("watch", "down", "idle")
    /\ UNCHANGED <<sys, regVars, appVars, callVars, history>>

ShowMenu ==
    /\ pc["ui"] = "idle" /\ pc["watch"] # "down"
    /\ ~closed /\ menu = {}
    /\ menu' = config
    /\ UNCHANGED <<sys, regVars, sysProxy, config, closed, reloads, pc,
                   callVars, history>>

\* The menu shows what there was when it was opened.
Choose ==
    /\ pc["ui"] = "idle" /\ pc["watch"] # "down"
    /\ \E l \in menu \cup {None} : SetSystemProxy("ui", l)
    /\ menu' = {}
    /\ UNCHANGED <<sys, regVars, sysProxy, config, closed, reloads, read, by,
                   orig>>

Shutdown ==
    /\ pc["ui"] = "idle" /\ pc["watch"] # "down"
    /\ ~closed
    /\ closed' = TRUE
    /\ menu' = {}
    /\ IF sysProxy = None
       THEN /\ pc' = [pc EXCEPT !["ui"] = "ended"]
            /\ UNCHANGED <<op, arg, hurt>>
       ELSE Call("ui", "release", "exit", sysProxy)
    /\ UNCHANGED <<sys, regVars, sysProxy, config, reloads, read, by, orig>>

-----------------------------------------------------------------------------
(* App: Reload in watchConfig.  It notes a.sysProxy together with the new    *)
(* list, and looks for it in the list when it has restarted the tunnels.     *)

ReloadSwaps ==
    /\ reloads < MaxReloads
    /\ ~closed
    /\ Goes("watch", "idle", "check")
    /\ reloads' = reloads + 1
    /\ config' \in SUBSET Listens
    /\ arg' = [arg EXCEPT !["watch"] = sysProxy]
    /\ UNCHANGED <<sys, regVars, sysProxy, closed, menu, op, read,
                   history>>

ReloadChecks ==
    /\ pc["watch"] = "check"
    /\ IF arg["watch"] # None /\ ~HasListen(arg["watch"])
       THEN SetSystemProxy("watch", None)
       ELSE /\ pc' = [pc EXCEPT !["watch"] = "idle"]
            /\ UNCHANGED <<op, arg, hurt>>
    /\ UNCHANGED <<sys, regVars, appVars, read, by, orig>>

-----------------------------------------------------------------------------
(* The end of a process, the user's switch in Windows, other programs. *)

\* Main returns, or the process dies: what it knew is gone, and a thread may
\* be halfway.
Dies ==
    /\ pc["ui"] # "down"
    /\ pc' = [th \in Threads |-> "down"]
    /\ hurt' = IF \E th \in Threads : pc[th] \in Procedure
               THEN hurt \cup {"crash"} \cup Stale ELSE hurt
    /\ sysProxy' = None
    /\ config' = {}
    /\ closed' = FALSE
    /\ menu' = {}
    /\ reloads' = 0
    /\ op' = [th \in Threads |-> "set"]
    /\ arg' = [th \in Threads |-> None]
    /\ read' = [th \in Threads |-> None]
    /\ UNCHANGED <<sys, regVars, by, orig>>

OtherProgram ==
    /\ sys' \in Settings
    /\ by' = "others"
    /\ UNCHANGED <<regVars, appVars, pc, callVars, orig, hurt>>

Next ==
    \/ \E th \in Threads : Proceed(th)
    \/ Boot \/ Start \/ Forget \/ Launch \/ ShowMenu \/ Choose \/ Shutdown
    \/ ReloadSwaps \/ ReloadChecks
    \/ Dies \/ OtherProgram

Spec == Init /\ [][Next]_vars

-----------------------------------------------------------------------------
\* What Windows shows is what this program has made of it.
Ours == by = "enable"

Saved == [on |-> savedFlags, server |-> savedServer]

\* What the registry holds as saved is, whole, what was there before and
\* nothing that the program had made; and it holds that as long as Windows
\* shows what the program has made of it: whenever the process dies, it can be
\* restored (sysproxy_windows.go:120, 175).
OriginalKept ==
    hurt \cap {"race", "misread", "stale"} = {} =>
        /\ Ours => savedFlags # None
        /\ savedFlags # None => Saved = orig

\* Between calls, the program knows the address it has set and has the same
\* one in the registry for the next start; and exactly then it holds what is
\* to be restored, whatever others have made of the settings meanwhile
\* (app_windows.go:203-218).
ChoiceIsKnown ==
    pc["ui"] = "idle" /\ pc["watch"] = "idle" /\ hurt = {} =>
        /\ Ours => sysProxy # None /\ sys.server = systemProxyAddr(sysProxy)
        /\ pref = sysProxy
        /\ IF sysProxy = None THEN savedFlags = None
           ELSE savedFlags # None /\ Saved = orig

\* When the program has ended in order, nothing of what it has made is left in
\* Windows; and what the exit has restored is what had been there, unless a
\* Reload came after it (app_windows.go:292).
ExitRestores ==
    pc["ui"] = "ended" /\ hurt \subseteq {"late"} =>
        /\ ~Ours
        /\ op["ui"] = "exit" /\ by = "disable" /\ hurt = {} => sys = orig

\* sysproxy_windows.go:120: what was saved at first is restored as it was.
OriginalNotLost == Ours => savedFlags # None

=============================================================================
