-------------------------------- MODULE Tray --------------------------------
(***************************************************************************)
(* The tray icon (src/tray_windows.go): any thread asks for a refresh, the *)
(* interface thread takes the messages one by one, Explorer's taskbar      *)
(* comes and goes, and the menu is a snapshot of the list of tunnels.      *)
(*                                                                         *)
(* What the icon shows is abstracted to the version of the App's status it *)
(* was drawn from.  Version v lists Counts[v] tunnels, and <<v, i>> is the *)
(* i-th of them.                                                           *)
(***************************************************************************)
EXTENDS Integers, Sequences, FiniteSets

CONSTANTS
    Threads,      \* the goroutines that change the status
    Counts,       \* how many tunnels each version of the status lists
    Gap,          \* how far two bases of menu commands are apart (100)
    MaxRetries,   \* how often addIcon retries (30)
    MaxRestarts,  \* bound: how often Explorer dies
    None

ASSUME TrayAssumption ==
    /\ Counts \in Seq(Nat) /\ Counts # <<>>
    /\ Gap \in Nat /\ Gap > 6
    /\ MaxRetries \in Nat /\ MaxRestarts \in Nat
    /\ None \notin Nat \X Nat

VARIABLES
    status,    \* the version of the App's status
    calling,   \* [Threads -> where a goroutine is in its call of Refresh]
    pending,   \* tr.refreshPending
    posted,    \* wmRefresh messages in the queue
    adds,      \* wmAddIcon messages in the queue
    created,   \* TaskbarCreated messages in the queue
    ui,        \* where the interface thread is
    look,      \* tr.color and tr.tip: the version they were taken from
    retries,   \* tr.addRetries
    timers,    \* armed timers of addIcon
    taskbar,   \* Explorer's taskbar is there
    icon,      \* the version the icon in the taskbar shows, None without one
    restarts,  \* how often Explorer has died
    mishap,    \* the call of Windows that has failed, "none" so far
    shown      \* the version the open menu was made from, None without one

appVars == <<status, calling, pending>>
queueVars == <<posted, adds, created>>
iconVars == <<look, retries, timers, icon>>
explorerVars == <<taskbar, restarts>>
vars == <<appVars, queueVars, ui, iconVars, explorerVars, mishap, shown>>

Versions == 1..Len(Counts)

-----------------------------------------------------------------------------
(* The menu's commands.                                                    *)

Fixed == <<"edit", "log", "reconnectAll", "autostart", "quit", "off">>
Verbs == <<"proxy", "copy", "reconnect", "error">>   \* in the order of their bases
MaxMenuTunnels == Gap

MinOf(a, b) == IF a < b THEN a ELSE b
Listed(v) == MinOf(Counts[v], MaxMenuTunnels)

\* An item says what it does, and to which tunnel (None for the fixed ones).
Items(v) ==
    [verb : {Fixed[k] : k \in DOMAIN Fixed}, tunnel : {None}]
        \cup [verb : {Verbs[k] : k \in DOMAIN Verbs}, tunnel : {v} \X (1..Listed(v))]

Position(seq, x) == CHOOSE k \in DOMAIN seq : seq[k] = x
Id(item) ==
    IF item.tunnel = None THEN Position(Fixed, item.verb)
    ELSE Gap * Position(Verbs, item.verb) + item.tunnel[2] - 1

Nothing == [verb |-> "nothing", tunnel |-> None]

\* command: the highest base that the number reaches, then the position.
Command(id, v) ==
    LET base == MinOf(id \div Gap, Len(Verbs))
        i == id - Gap * base + 1
    IN  IF id \in DOMAIN Fixed THEN [verb |-> Fixed[id], tunnel |-> None]
        ELSE IF base >= 1 /\ i <= Listed(v) THEN [verb |-> Verbs[base], tunnel |-> <<v, i>>]
        ELSE Nothing

\* Broken variant: the number is looked up in the list as it is now.
PickNow(id) == Command(id, status)

\* What a number returned by the open menu stands for: an item of the list
\* the menu was made from.
Pick(id) == Command(id, shown)

-----------------------------------------------------------------------------

Init ==
    /\ status = 1
    /\ calling = [t \in Threads |-> "idle"]
    /\ pending = FALSE
    /\ posted = 0 /\ adds = 0 /\ created = 0
    /\ ui = "delete"                     \* runTray: addIcon, then the loop
    /\ look = 1
    /\ retries = 0 /\ timers = 0
    /\ taskbar \in BOOLEAN
    /\ icon = None
    /\ restarts = 0
    /\ mishap = "none"
    /\ shown = None

\* The status changes (a tunnel's state, a reload): Refresh is called after
\* the locks are released.
Change(t) ==
    /\ calling[t] = "idle" /\ status < Len(Counts)
    /\ status' = status + 1
    /\ calling' = [calling EXCEPT ![t] = "changed"]
    /\ UNCHANGED <<pending, queueVars, ui, iconVars, explorerVars, mishap, shown>>

\* Refresh: refreshPending.Swap(true), and the message if it was false.
Refresh(t) ==
    /\ calling[t] = "changed"
    /\ pending' = TRUE
    /\ calling' = [calling EXCEPT ![t] = IF pending THEN "idle" ELSE "post"]
    /\ UNCHANGED <<status, queueVars, ui, iconVars, explorerVars, mishap, shown>>

\* One call of Windows fails in a behaviour at most; the code looks at none
\* of these results but Shell_NotifyIcon's answer to NIM_ADD.
Fails(call) == mishap = "none" /\ mishap' = call

Post(t) ==
    /\ calling[t] = "post"
    /\ calling' = [calling EXCEPT ![t] = "idle"]
    /\ \/ /\ posted' = IF ui = "gone" THEN 0 ELSE posted + 1
          /\ UNCHANGED mishap
       \/ Fails("post") /\ UNCHANGED posted
    /\ UNCHANGED <<status, pending, adds, created, ui, iconVars, explorerVars, shown>>

-----------------------------------------------------------------------------
(* The interface thread.  The menu runs a loop of its own that takes the   *)
(* same messages, so that an open menu stops none of these.                *)

\* Broken variant: the flag is cleared when the status has been read.
LookFirst == <<"update", "modify", "clear">>

\* The steps of a refresh (wndProc and update).
RefreshOrder == <<"clear", "update", "modify">>
Following(step) ==
    LET k == Position(RefreshOrder, step)
    IN  IF k = Len(RefreshOrder) THEN "loop" ELSE RefreshOrder[k + 1]

\* wndProc takes a wmRefresh: clears refreshPending, takes the Snapshot (the
\* version at the moment it begins), and modifies the icon.
TakeRefresh ==
    /\ ui = "loop" /\ posted > 0
    /\ posted' = posted - 1
    /\ ui' = RefreshOrder[1]
    /\ UNCHANGED <<appVars, adds, created, iconVars, explorerVars, mishap, shown>>

Clear ==
    /\ ui = "clear"
    /\ pending' = FALSE
    /\ ui' = Following("clear")
    /\ UNCHANGED <<status, calling, queueVars, iconVars, explorerVars, mishap, shown>>

Update ==
    /\ ui = "update"
    /\ look' = status
    /\ ui' = Following("update")
    /\ UNCHANGED <<appVars, queueVars, retries, timers, icon, explorerVars, mishap, shown>>

Modify ==
    /\ ui = "modify"
    /\ ui' = Following("modify")
    /\ \/ /\ icon' = IF icon = None THEN None ELSE look
          /\ UNCHANGED mishap
       \/ Fails("modify") /\ UNCHANGED icon
    /\ UNCHANGED <<appVars, queueVars, look, retries, timers, explorerVars, shown>>

\* addIcon, on a wmAddIcon or on TaskbarCreated: delete, add, and a timer if
\* the taskbar has not taken it.
TakeAdd ==
    /\ ui = "loop" /\ adds > 0
    /\ adds' = adds - 1
    /\ ui' = "delete"
    /\ UNCHANGED <<appVars, posted, created, iconVars, explorerVars, mishap, shown>>

TakeCreated ==
    /\ ui = "loop" /\ created > 0
    /\ created' = created - 1
    /\ ui' = "delete"
    /\ UNCHANGED <<appVars, posted, adds, iconVars, explorerVars, mishap, shown>>

Delete ==
    /\ ui = "delete"
    /\ icon' = None
    /\ ui' = "add"
    /\ UNCHANGED <<appVars, queueVars, look, retries, timers, explorerVars, mishap, shown>>

\* Broken variant: the retry is counted and no timer is armed.
RetryUnarmed ==
    /\ retries' = IF retries < MaxRetries THEN retries + 1 ELSE retries
    /\ UNCHANGED timers

Retry ==
    IF retries < MaxRetries
    THEN retries' = retries + 1 /\ timers' = timers + 1
    ELSE UNCHANGED <<retries, timers>>

Add ==
    /\ ui = "add"
    /\ ui' = "loop"
    /\ \/ /\ taskbar
          /\ icon' = look /\ retries' = 0
          /\ UNCHANGED <<timers, mishap>>
       \/ /\ IF taskbar THEN Fails("add") ELSE UNCHANGED mishap
          /\ Retry
          /\ UNCHANGED icon
    /\ UNCHANGED <<appVars, queueVars, look, explorerVars, shown>>

TimerFires ==
    /\ timers > 0
    /\ timers' = timers - 1
    /\ adds' = IF ui = "gone" THEN 0 ELSE adds + 1
    /\ UNCHANGED <<appVars, posted, created, ui, look, retries, icon, explorerVars, mishap, shown>>

\* The user chooses to quit, or WM_CLOSE: the window is destroyed, with its
\* queue and its menu.
Destroy ==
    /\ ui = "loop"
    /\ ui' = "gone"
    /\ icon' = None
    /\ posted' = 0 /\ adds' = 0 /\ created' = 0
    /\ shown' = None
    /\ UNCHANGED <<appVars, look, retries, timers, explorerVars, mishap>>

-----------------------------------------------------------------------------
(* Explorer, and the user at the menu.                                     *)

ExplorerDies ==
    /\ taskbar /\ restarts < MaxRestarts
    /\ taskbar' = FALSE /\ icon' = None
    /\ restarts' = restarts + 1
    /\ UNCHANGED <<appVars, queueVars, ui, look, retries, timers, mishap, shown>>

ExplorerStarts ==
    /\ ~taskbar
    /\ taskbar' = TRUE
    /\ created' = IF ui = "gone" THEN 0 ELSE created + 1
    /\ UNCHANGED <<appVars, posted, adds, ui, iconVars, restarts, mishap, shown>>

ShowMenu ==
    /\ ui = "loop" /\ icon # None /\ shown = None
    /\ shown' = status
    /\ UNCHANGED <<appVars, queueVars, ui, iconVars, explorerVars, mishap>>

\* The menu returns an item's number, for which the App is called (Pick), or
\* nothing.
Choose ==
    /\ ui = "loop" /\ shown # None
    /\ shown' = None
    /\ UNCHANGED <<appVars, queueVars, ui, iconVars, explorerVars, mishap>>

-----------------------------------------------------------------------------

ThreadNext(t) == Change(t) \/ Refresh(t) \/ Post(t)

Next ==
    \/ \E t \in Threads : ThreadNext(t)
    \/ TakeRefresh \/ Clear \/ Update \/ Modify
    \/ TakeAdd \/ TakeCreated \/ Delete \/ Add \/ TimerFires
    \/ Destroy \/ ExplorerDies \/ ExplorerStarts \/ ShowMenu \/ Choose

\* The interface thread runs, its queue is served in order, and a timer
\* fires.  Nothing makes Explorer start, or the user act.
Fairness ==
    /\ WF_vars(Clear \/ Update \/ Modify \/ Delete \/ Add)
    /\ WF_vars(TakeRefresh) /\ WF_vars(TakeAdd) /\ WF_vars(TakeCreated)
    /\ WF_vars(TimerFires)
    /\ \A t \in Threads : WF_vars(Refresh(t) \/ Post(t))

Spec == Init /\ [][Next]_vars /\ Fairness

-----------------------------------------------------------------------------
(* What it promises.                                                       *)

\* The state has its type; refreshPending keeps the queue at one wmRefresh,
\* however many changes there are (Refresh).
TypeOK ==
    /\ status \in Versions /\ look \in Versions
    /\ calling \in [Threads -> {"idle", "changed", "post"}]
    /\ pending \in BOOLEAN /\ taskbar \in BOOLEAN
    /\ posted + Cardinality({t \in Threads : calling[t] = "post"}) \in 0..1
    /\ adds \in Nat /\ created \in 0..MaxRestarts + 1
    /\ ui \in {"loop", "clear", "update", "modify", "delete", "add", "gone"}
    /\ retries \in 0..MaxRetries /\ timers \in Nat
    /\ icon \in Versions \cup {None} /\ shown \in Versions \cup {None}
    /\ restarts \in 0..MaxRestarts
    /\ mishap \in {"none", "post", "add", "modify"}

\* No change is lost between the threads and the icon: an icon, or a look
\* kept for the next icon, that is behind the status has a refresh on its way,
\* unless PostMessage or NIM_MODIFY has failed (Refresh, wndProc, update).
RefreshNotLost ==
    ui = "loop" /\ (look # status \/ icon \notin {None, look}) =>
        \/ posted > 0 \/ \E t \in Threads : calling[t] # "idle"
        \/ mishap \in {"post", "modify"}

\* A menu item does what it says to the tunnel it names, though the list has
\* changed while the menu was open, and though it is longer than the menu
\* (showMenu, command).
MenuDoesWhatItSays == shown # None => \A item \in Items(shown) : Pick(Id(item)) = item

\* Whenever the taskbar is there, the icon is in it at last, after a late
\* taskbar, after Explorer has restarted and after one refused NIM_ADD
\* (addIcon); only a refusal after the retries are used up ends it.
IconComesBack ==
    taskbar ~> \/ icon # None \/ ~taskbar \/ ui = "gone"
               \/ mishap = "add" /\ retries = MaxRetries

=============================================================================
