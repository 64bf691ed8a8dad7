--------------------------- MODULE DesktopProofs ----------------------------
(***************************************************************************)
(* Proofs about the tray, which loses no change and does what its menu     *)
(* says, for any threads, any history of the status, any number of retries *)
(* and any life of Explorer; and, at the end, about the log, which keeps   *)
(* the last lines, for any lengths, limit and number of ends.              *)
(***************************************************************************)
EXTENDS Tray, LogFile, FiniteSetTheorems, TLAPS

\* Only the types that the argument needs.
Typed ==
    /\ calling \in [Threads -> {"idle", "changed", "post"}]
    /\ pending \in BOOLEAN
    /\ posted \in Nat
    /\ ui \in {"loop", "clear", "update", "modify", "delete", "add", "gone"}

\* A refresh that nobody has begun yet: its message is in the queue or about
\* to be, or has been lost with the window or by PostMessage.
OnItsWay ==
    \/ posted > 0
    \/ \E t \in Threads : calling[t] = "post"
    \/ ui = "gone"
    \/ mishap = "post"

\* refreshPending promises that the status will be read again.
FlagInv == pending => OnItsWay \/ ui = "clear"

\* What tr.color and tr.tip do not show yet will be looked at.
NewsInv ==
    look # status =>
        \/ OnItsWay
        \/ \E t \in Threads : calling[t] = "changed"
        \/ ui \in {"clear", "update"}

\* The icon is behind them only until NIM_MODIFY, or because it has failed.
IconInv ==
    icon \notin {None, look} => ui \in {"modify", "gone"} \/ mishap = "modify"

IInv == Typed /\ FlagInv /\ NewsInv /\ IconInv

-----------------------------------------------------------------------------
USE DEF vars, appVars, queueVars, iconVars, explorerVars

\* The steps of a refresh follow each other as in wndProc and update.
LEMMA Order ==
    /\ RefreshOrder[1] = "clear"
    /\ Following("clear") = "update"
    /\ Following("update") = "modify"
    /\ Following("modify") = "loop"
<1>1. /\ Position(RefreshOrder, "clear") = 1
      /\ Position(RefreshOrder, "update") = 2
      /\ Position(RefreshOrder, "modify") = 3
  <2>1. /\ DOMAIN RefreshOrder = 1 .. 3
        /\ RefreshOrder[1] = "clear"
        /\ RefreshOrder[2] = "update"
        /\ RefreshOrder[3] = "modify"
      BY DEF RefreshOrder
  <2>2. 1 .. 3 = {1, 2, 3}
      OBVIOUS
  <2> QED
      BY <2>1, <2>2 DEF Position
<1> QED
    BY <1>1 DEF Following, RefreshOrder

\* Each step of the threads, of the interface thread and of Explorer keeps it.
LEMMA StepKeeps == IInv /\ [Next]_vars => IInv'
<1> SUFFICES ASSUME IInv, [Next]_vars PROVE IInv'
    OBVIOUS
<1> USE DEF IInv, Typed, FlagInv, NewsInv, IconInv, OnItsWay
<1>1. ASSUME NEW t \in Threads, ThreadNext(t) PROVE IInv'
  <2>1. CASE Change(t)
    <3>1. calling'[t] = "changed"
        BY <2>1 DEF Change
    <3>2. \A s \in Threads : calling[s] = "post" => calling'[s] = "post"
        BY <2>1 DEF Change
    <3> QED
        BY <2>1, <3>1, <3>2 DEF Change
  <2>2. CASE Refresh(t)
    <3>1. CASE pending
      <4>1. \A s \in Threads : calling[s] = "post" => calling'[s] = "post"
          BY <2>2 DEF Refresh
      <4> QED
          BY <2>2, <3>1, <4>1 DEF Refresh
    <3>2. CASE ~pending
      <4>1. calling'[t] = "post"
          BY <2>2, <3>2 DEF Refresh
      <4> QED
          BY <2>2, <3>2, <4>1 DEF Refresh
    <3> QED
        BY <3>1, <3>2
  <2>3. CASE Post(t)
    <3>1. \A s \in Threads : calling[s] = "changed" => calling'[s] = "changed"
        BY <2>3 DEF Post
    <3>2. posted' \in Nat /\ (posted' > 0 \/ ui' = "gone" \/ mishap' = "post")
        BY <2>3 DEF Post, Fails
    <3>3. mishap = "modify" => mishap' = "modify"
        BY <2>3 DEF Post, Fails
    <3> QED
        BY <2>3, <3>1, <3>2, <3>3 DEF Post
  <2> QED
      BY <1>1, <2>1, <2>2, <2>3 DEF ThreadNext
<1>2. CASE TakeRefresh
    BY <1>2, Order DEF TakeRefresh
<1>3. CASE Clear
    BY <1>3, Order DEF Clear
<1>4. CASE Update
    BY <1>4, Order DEF Update
<1>5. CASE Modify
    BY <1>5, Order DEF Modify, Fails
<1>6. CASE TakeAdd \/ TakeCreated \/ Delete
    BY <1>6 DEF TakeAdd, TakeCreated, Delete
<1>7. CASE Add
    BY <1>7 DEF Add, Fails
<1>8. CASE TimerFires
    BY <1>8 DEF TimerFires
<1>9. CASE Destroy
    BY <1>9 DEF Destroy
<1>10. CASE ExplorerDies \/ ExplorerStarts
    BY <1>10 DEF ExplorerDies, ExplorerStarts
<1>11. CASE ShowMenu \/ Choose
    BY <1>11 DEF ShowMenu, Choose
<1>12. CASE UNCHANGED vars
    BY <1>12
<1> QED
    BY <1>1, <1>2, <1>3, <1>4, <1>5, <1>6, <1>7, <1>8, <1>9, <1>10, <1>11, <1>12
       DEF Next

\* An icon that is behind the status has a refresh on its way, however the
\* threads' calls of Refresh and the messages interleave (refreshPending,
\* tray_windows.go).
THEOREM NoRefreshIsLost == Spec => []RefreshNotLost
<1>1. Init => IInv
  <2> SUFFICES ASSUME Init PROVE IInv
      OBVIOUS
  <2>1. Typed
      BY DEF Init, Typed
  <2>2. FlagInv
      BY DEF Init, FlagInv
  <2>3. NewsInv
      BY DEF Init, NewsInv
  <2>4. IconInv
      BY DEF Init, IconInv
  <2> QED
      BY <2>1, <2>2, <2>3, <2>4 DEF IInv
<1>2. IInv => RefreshNotLost
    BY DEF IInv, FlagInv, NewsInv, IconInv, OnItsWay, RefreshNotLost
<1> QED
    BY <1>1, <1>2, StepKeeps, PTL DEF Spec

-----------------------------------------------------------------------------
(* The menu.                                                               *)

\* Both lists have no name twice.
LEMMA Positions ==
    /\ DOMAIN Fixed = 1 .. 6 /\ DOMAIN Verbs = 1 .. 4 /\ Len(Verbs) = 4
    /\ \A k \in 1 .. 6 : Position(Fixed, Fixed[k]) = k
    /\ \A k \in 1 .. 4 : Position(Verbs, Verbs[k]) = k
<1>1. /\ DOMAIN Fixed = 1 .. 6 /\ DOMAIN Verbs = 1 .. 4 /\ Len(Verbs) = 4
      /\ 1 .. 6 = {1, 2, 3, 4, 5, 6} /\ 1 .. 4 = {1, 2, 3, 4}
    BY DEF Fixed, Verbs
<1>2. \A j, k \in 1 .. 6 : Fixed[j] = Fixed[k] => j = k
    BY DEF Fixed
<1>3. \A j, k \in 1 .. 4 : Verbs[j] = Verbs[k] => j = k
    BY DEF Verbs
<1> QED
    BY <1>1, <1>2, <1>3 DEF Position

\* The base of a number is found again.
LEMMA BaseOf ==
    ASSUME NEW g \in Nat, g > 0, NEW k \in Nat, NEW r \in 0 .. g - 1
    PROVE  (g * k + r) \div g = k
<1> DEFINE x == g * k + r
           q == x \div g
<1>1. x \in Int /\ q \in Int /\ g * q <= x /\ x < g * q + g
    OBVIOUS
<1>2. g * k <= x /\ x < g * k + g
    OBVIOUS
<1> HIDE DEF x, q
<1>3. ASSUME q >= k + 1 PROVE FALSE
  <2>1. g * q >= g * (k + 1)
      BY <1>1, <1>3
  <2> QED
      BY <1>1, <1>2, <2>1
<1>4. ASSUME k >= q + 1 PROVE FALSE
  <2>1. g * k >= g * (q + 1)
      BY <1>1, <1>4
  <2> QED
      BY <1>1, <1>2, <2>1
<1>5. q = k
    BY <1>1, <1>3, <1>4
<1> QED
    BY <1>5 DEF q, x

\* The number of an item of the menu stands for that item.
LEMMA CommandOfId ==
    ASSUME NEW v \in Versions, NEW item \in Items(v)
    PROVE  Command(Id(item), v) = item
<1>1. CASE item \in [verb : {Fixed[k] : k \in DOMAIN Fixed}, tunnel : {None}]
  <2>1. PICK k \in 1 .. 6 : item = [verb |-> Fixed[k], tunnel |-> None]
      BY <1>1, Positions
  <2>2. Id(item) = k
      BY <2>1, Positions DEF Id
  <2> QED
      BY <2>1, <2>2, Positions DEF Command
<1>2. CASE item \in [verb : {Verbs[k] : k \in DOMAIN Verbs},
                     tunnel : {v} \X (1 .. Listed(v))]
  <2>1. PICK k \in 1 .. 4, i \in 1 .. Listed(v) :
          item = [verb |-> Verbs[k], tunnel |-> <<v, i>>]
      BY <1>2, Positions
  <2>2. Gap \in Nat /\ Gap > 6 /\ Counts[v] \in Nat
      BY TrayAssumption DEF Versions
  <2>3. Listed(v) \in Nat /\ Listed(v) <= Gap
      BY <2>2 DEF Listed, MinOf, MaxMenuTunnels
  <2>4. i \in Nat /\ i >= 1 /\ i <= Listed(v) /\ v \in Nat
      BY <2>3 DEF Versions
  <2>5. Id(item) = Gap * k + i - 1
    <3>1. <<v, i>> # None
        BY <2>4, TrayAssumption
    <3> QED
        BY <2>1, <3>1, Positions DEF Id
  <2> DEFINE id == Gap * k + (i - 1)
  <2>6. id \div Gap = k
    <3>1. i - 1 \in 0 .. Gap - 1
        BY <2>2, <2>3, <2>4
    <3> QED
        BY <2>2, <3>1, BaseOf
  <2>7. id \in Int /\ id >= Gap /\ id - Gap * k + 1 = i
    <3>1. Gap * k \in Int /\ Gap * k >= Gap
        BY <2>2
    <3> QED
        BY <2>2, <2>4, <3>1
  <2>8. Id(item) = id
    <3>1. Gap * k \in Int
        BY <2>2
    <3> QED
        BY <2>4, <2>5, <3>1
  <2> HIDE DEF id
  <2>9. MinOf(id \div Gap, Len(Verbs)) = k /\ id \notin DOMAIN Fixed /\ k >= 1
      BY <2>2, <2>6, <2>7, Positions DEF MinOf
  <2>10. Command(id, v) = [verb |-> Verbs[k], tunnel |-> <<v, i>>]
      BY <2>4, <2>7, <2>9 DEF Command
  <2> QED
      BY <2>1, <2>8, <2>10
<1> QED
    BY <1>1, <1>2 DEF Items

MenuInv == status \in Versions /\ shown \in Versions \cup {None}

\* A command of the menu does what it says to the tunnel it names, for any
\* history of the list and however long it is (showMenu, command).
THEOREM MenuAlwaysDoesWhatItSays == Spec => []MenuDoesWhatItSays
<1>1. Init => MenuInv
  <2>1. Len(Counts) \in Nat /\ Len(Counts) >= 1
      BY TrayAssumption
  <2> QED
      BY <2>1 DEF Init, MenuInv, Versions
<1>2. MenuInv /\ [Next]_vars => MenuInv'
  <2> SUFFICES ASSUME MenuInv, [Next]_vars PROVE MenuInv'
      OBVIOUS
  <2> USE DEF MenuInv
  <2>1. CASE \E t \in Threads : Change(t)
    <3>1. Len(Counts) \in Nat /\ status < Len(Counts) /\ status' = status + 1
        BY <2>1, TrayAssumption DEF Change
    <3> QED
        BY <2>1, <3>1 DEF Change, Versions
  <2>2. CASE ShowMenu
      BY <2>2 DEF ShowMenu
  <2>3. CASE Choose \/ Destroy
      BY <2>3 DEF Choose, Destroy
  <2>4. CASE UNCHANGED <<status, shown>>
      BY <2>4
  <2> QED
      BY <2>1, <2>2, <2>3, <2>4
         DEF Next, ThreadNext, Refresh, Post, TakeRefresh, Clear, Update, Modify,
             TakeAdd, TakeCreated, Delete, Add, TimerFires, ExplorerDies,
             ExplorerStarts
<1>3. MenuInv => MenuDoesWhatItSays
    BY CommandOfId DEF MenuInv, MenuDoesWhatItSays, Pick
<1> QED
    BY <1>1, <1>2, <1>3, PTL DEF Spec

-----------------------------------------------------------------------------
(* The types, with the length of the queue.                                *)

Posting == {t \in Threads : calling[t] = "post"}

\* Who posts a refresh has set refreshPending, and nobody else does before the
\* message has been taken and the flag cleared.
OneRefresh ==
    /\ posted \in {0, 1}
    /\ \A t \in Posting : pending /\ posted = 0 /\ ui # "clear" /\ Posting = {t}
    /\ posted = 1 => pending /\ ui # "clear"
    /\ ui = "clear" => pending

\* Explorer announces a taskbar once for each of its lives.
OneTaskbar ==
    /\ created \in Nat /\ restarts \in 0 .. MaxRestarts
    /\ created + (IF taskbar THEN 0 ELSE 1) <= restarts + 1

Types ==
    /\ MenuInv
    /\ look \in Versions /\ icon \in Versions \cup {None}
    /\ calling \in [Threads -> {"idle", "changed", "post"}]
    /\ pending \in BOOLEAN /\ taskbar \in BOOLEAN
    /\ adds \in Nat
    /\ ui \in {"loop", "clear", "update", "modify", "delete", "add", "gone"}
    /\ retries \in 0 .. MaxRetries /\ timers \in Nat
    /\ mishap \in {"none", "post", "add", "modify"}

TypeInv == Types /\ OneRefresh /\ OneTaskbar

LEMMA TypesKept == TypeInv /\ [Next]_vars => Types'
<1> SUFFICES ASSUME TypeInv, [Next]_vars PROVE Types'
    OBVIOUS
<1> USE DEF TypeInv, Types, OneRefresh, OneTaskbar, MenuInv
<1>1. ASSUME NEW t \in Threads, Change(t) PROVE Types'
  <2>1. Len(Counts) \in Nat /\ status < Len(Counts) /\ status' = status + 1
      BY <1>1, TrayAssumption DEF Change
  <2> QED
      BY <1>1, <2>1 DEF Change, Versions
<1>2. ASSUME NEW t \in Threads, Refresh(t) \/ Post(t) PROVE Types'
    BY <1>2 DEF Refresh, Post, Fails, Versions
<1>3. CASE TakeRefresh \/ Clear \/ Update \/ Modify
    BY <1>3, Order DEF TakeRefresh, Clear, Update, Modify, Fails, Versions
<1>4. CASE TakeAdd \/ TakeCreated \/ Delete
  <2>1. /\ UNCHANGED <<appVars, look, retries, timers, taskbar, mishap, shown>>
        /\ icon' = icon \/ icon' = None
      BY <1>4 DEF TakeAdd, TakeCreated, Delete
  <2>2. adds' \in Nat /\ ui' \in {"delete", "add"}
      BY <1>4 DEF TakeAdd, TakeCreated, Delete
  <2> QED
      BY <2>1, <2>2 DEF Versions
<1>5. CASE Add
  <2>1. UNCHANGED <<status, shown, look, calling, pending, taskbar, adds>>
      BY <1>5 DEF Add
  <2>2. ui' = "loop" /\ (icon' = icon \/ icon' = look)
      BY <1>5 DEF Add
  <2>3. mishap' \in {mishap, "add"}
      BY <1>5 DEF Add, Fails
  <2>4. retries' \in 0 .. MaxRetries /\ timers' \in Nat
    <3>1. \/ retries' = 0 /\ timers' = timers
          \/ UNCHANGED <<retries, timers>>
          \/ retries < MaxRetries /\ retries' = retries + 1 /\ timers' = timers + 1
        BY <1>5 DEF Add, Retry
    <3> QED
        BY <3>1, TrayAssumption
  <2> QED
      BY <2>1, <2>2, <2>3, <2>4 DEF Versions
<1>6. CASE TimerFires
    BY <1>6 DEF TimerFires, Versions
<1>7. CASE Destroy
    BY <1>7 DEF Destroy, Versions
<1>8. CASE ExplorerDies \/ ExplorerStarts
    BY <1>8 DEF ExplorerDies, ExplorerStarts, Versions
<1>9. CASE ShowMenu \/ Choose \/ UNCHANGED vars
    BY <1>9 DEF ShowMenu, Choose, Versions
<1> QED
    BY <1>1, <1>2, <1>3, <1>4, <1>5, <1>6, <1>7, <1>8, <1>9 DEF Next, ThreadNext

LEMMA OneRefreshKept == TypeInv /\ [Next]_vars => OneRefresh'
<1> SUFFICES ASSUME TypeInv, [Next]_vars PROVE OneRefresh'
    OBVIOUS
<1> USE DEF TypeInv, Types, OneRefresh, Posting
<1>1. ASSUME NEW t \in Threads, Change(t) PROVE OneRefresh'
  <2>1. Posting' = Posting
      BY <1>1 DEF Change
  <2> QED
      BY <1>1, <2>1 DEF Change
<1>2. ASSUME NEW t \in Threads, Refresh(t) PROVE OneRefresh'
  <2>1. CASE pending
    <3>1. Posting' = Posting
        BY <1>2, <2>1 DEF Refresh
    <3> QED
        BY <1>2, <2>1, <3>1 DEF Refresh
  <2>2. CASE ~pending
    <3>1. Posting = {} /\ posted = 0
        BY <2>2
    <3>2. Posting' = {t}
        BY <1>2, <2>2, <3>1 DEF Refresh
    <3>3. ui # "clear"
        BY <2>2
    <3> QED
        BY <1>2, <2>2, <3>1, <3>2, <3>3 DEF Refresh
  <2> QED
      BY <2>1, <2>2
<1>3. ASSUME NEW t \in Threads, Post(t) PROVE OneRefresh'
  <2>1. Posting = {t}
      BY <1>3 DEF Post
  <2>2. Posting' = {}
      BY <1>3, <2>1 DEF Post
  <2> QED
      BY <1>3, <2>1, <2>2 DEF Post, Fails
<1>4. CASE TakeRefresh
  <2>1. posted = 1 /\ posted' = 0 /\ Posting = {}
      BY <1>4 DEF TakeRefresh
  <2> QED
      BY <1>4, <2>1 DEF TakeRefresh
<1>5. CASE Clear
    BY <1>5, Order DEF Clear
<1>6. CASE Update \/ Modify \/ Delete \/ Add
    BY <1>6, Order DEF Update, Modify, Delete, Add
<1>7. CASE TakeAdd \/ TakeCreated \/ TimerFires
    BY <1>7 DEF TakeAdd, TakeCreated, TimerFires
<1>8. CASE Destroy \/ ExplorerDies \/ ExplorerStarts
    BY <1>8 DEF Destroy, ExplorerDies, ExplorerStarts
<1>9. CASE ShowMenu \/ Choose \/ UNCHANGED vars
    BY <1>9 DEF ShowMenu, Choose
<1> QED
    BY <1>1, <1>2, <1>3, <1>4, <1>5, <1>6, <1>7, <1>8, <1>9 DEF Next, ThreadNext

LEMMA OneTaskbarKept == TypeInv /\ [Next]_vars => OneTaskbar'
<1> SUFFICES ASSUME TypeInv, [Next]_vars PROVE OneTaskbar'
    OBVIOUS
<1> USE DEF TypeInv, OneTaskbar
<1>1. CASE TakeCreated
    BY <1>1 DEF TakeCreated
<1>2. CASE Destroy
    BY <1>2 DEF Destroy
<1>3. CASE ExplorerDies
    BY <1>3, TrayAssumption DEF ExplorerDies
<1>4. CASE ExplorerStarts
    BY <1>4 DEF ExplorerStarts
<1>5. CASE UNCHANGED <<created, restarts, taskbar>>
    BY <1>5
<1> QED
    BY <1>1, <1>2, <1>3, <1>4, <1>5
       DEF Next, ThreadNext, Change, Refresh, Post, TakeRefresh, Clear, Update,
           Modify, TakeAdd, Delete, Add, TimerFires, ShowMenu, Choose

\* The types of the tray, and that its queue never holds more than one
\* wmRefresh, for any number of threads (Refresh, wndProc).
THEOREM TypeCorrect == Spec => []TypeOK
<1>1. Init => TypeInv
  <2>1. Len(Counts) \in Nat /\ Len(Counts) >= 1
      BY TrayAssumption
  <2>2. 1 \in Versions
      BY <2>1 DEF Versions
  <2>3. ASSUME Init PROVE Types
    <3>1. calling \in [Threads -> {"idle", "changed", "post"}]
        BY <2>3 DEF Init
    <3>2. 0 \in Nat /\ 0 \in 0 .. MaxRetries
        BY TrayAssumption
    <3> QED
        BY <2>2, <2>3, <3>1, <3>2 DEF Init, Types, MenuInv
  <2>4. ASSUME Init PROVE OneRefresh
      BY <2>4 DEF Init, OneRefresh, Posting
  <2>5. ASSUME Init PROVE OneTaskbar
      BY <2>5, TrayAssumption DEF Init, OneTaskbar
  <2> QED
      BY <2>3, <2>4, <2>5 DEF TypeInv
<1>2. TypeInv => TypeOK
  <2> SUFFICES ASSUME TypeInv PROVE TypeOK
      OBVIOUS
  <2>1. posted + Cardinality(Posting) \in 0 .. 1
    <3>1. CASE Posting = {}
      <4>1. Cardinality(Posting) = 0
          BY <3>1, FS_EmptySet
      <4> QED
          BY <4>1 DEF TypeInv, OneRefresh
    <3>2. CASE Posting # {}
      <4>1. PICK t \in Posting : posted = 0 /\ Posting = {t}
          BY <3>2 DEF TypeInv, OneRefresh
      <4>2. Cardinality(Posting) = 1
          BY <4>1, FS_Singleton
      <4> QED
          BY <4>1, <4>2
    <3> QED
        BY <3>1, <3>2
  <2>2. created \in 0 .. MaxRestarts + 1
      BY TrayAssumption DEF TypeInv, OneTaskbar
  <2> QED
      BY <2>1, <2>2 DEF TypeInv, Types, OneTaskbar, MenuInv, TypeOK, Posting
<1> QED
    BY <1>1, <1>2, TypesKept, OneRefreshKept, OneTaskbarKept, PTL DEF Spec, TypeInv

-----------------------------------------------------------------------------
(* The log.                                                                *)

\* The file in the buffer of l.f is never fuller than the limit, and a line
\* that is on its way fits when it comes to be written.
Sizes ==
    /\ size \in 0..MaxSize
    /\ writer \in {"renaming", "reopening", "writing"} =>
           length \in Lengths /\ count < MaxLines
    /\ writer \in {"renaming", "reopening"} => ~open
    /\ writer = "writing" /\ open => size + length <= MaxSize

\* While nothing has failed, l.size is right without a file open too, so that
\* a file that is renamed has lines in it, and nothing is written to a closed
\* one.
Untroubled ==
    /\ writer \in {"idle", "writing"} => open
    /\ writer \in {"idle", "writing", "renaming"} => size = Total(current)
    /\ writer = "renaming" => size + length > MaxSize
    /\ writer = "reopening" => current = <<>>

\* The two files are the last lines, in order; the older one was full.
Contiguous ==
    /\ \A k \in 1..Len(current) : current[k].number = count - Len(current) + k
    /\ \A k \in 1..Len(old) :
           old[k].number = count - Len(current) - Len(old) + k
    /\ old = <<>> => Len(current) = count
    /\ old # <<>> => \E n \in Lengths : Total(old) + n > MaxSize

LogInv == LogTypeOK /\ Sizes /\ (~spoilt => Untroubled /\ Contiguous)

-----------------------------------------------------------------------------
\* A file is as long as its last line says, and an empty one has no length.
LEMMA TotalOfFile ==
    ASSUME NEW file \in Seq(Lines), MaxSize \in Nat
    PROVE  /\ Total(file) \in 0..MaxSize
           /\ Total(file) > 0 => file # <<>>
<1>1. CASE file = <<>>
  BY <1>1 DEF Total
<1>2. CASE file # <<>>
  <2>1. Len(file) \in 1..Len(file)
    BY <1>2
  <2>2. file[Len(file)] \in Lines
    BY <2>1
  <2> QED BY <1>2, <2>2 DEF Total, Lines
<1> QED BY <1>1, <1>2

\* An empty file.
LEMMA EmptyFile ==
    <<>> \in Seq(Lines) /\ Len(<<>>) = 0 /\ Total(<<>>) = 0
BY DEF Total

\* A line at the end makes a file that much longer.
LEMMA TotalOfAppend ==
    ASSUME NEW file \in Seq(Lines), NEW line \in Lines
    PROVE  /\ Append(file, line) \in Seq(Lines)
           /\ Append(file, line) # <<>>
           /\ Len(Append(file, line)) = Len(file) + 1
           /\ Total(Append(file, line)) = line.end
           /\ \A k \in 1..Len(file) : Append(file, line)[k] = file[k]
           /\ Append(file, line)[Len(file) + 1] = line
BY DEF Total

\* The program starts without a log.
LEMMA InitLog == LogInit => LogInv
<1> SUFFICES ASSUME LogInit PROVE LogInv
  OBVIOUS
<1> USE LogAssumption, EmptyFile DEF LogInit
<1>1. LogTypeOK
  <2>1. current \in Seq(Lines) /\ old \in Seq(Lines)
    OBVIOUS
  <2>2. count \in 0..MaxLines /\ ends \in 0..MaxEnds
    OBVIOUS
  <2> QED BY <2>1, <2>2 DEF LogTypeOK
<1>2. Sizes
  BY DEF Sizes
<1>3. Untroubled /\ Contiguous
  BY DEF Untroubled, Contiguous
<1> QED BY <1>1, <1>2, <1>3 DEF LogInv

\* Every step of openLog and Write, and the end of the program, keeps it.
LEMMA StepLog ==
    ASSUME LogInv, [LogNext]_logVars
    PROVE  LogInv'
<1> USE LogAssumption, EmptyFile DEF LogInv, logVars
<1>t. /\ Total(current) \in 0..MaxSize /\ Total(old) \in 0..MaxSize
      /\ Total(current) > 0 => current # <<>>
  BY TotalOfFile DEF LogTypeOK
<1>1. CASE OpenLog
  <2>1. LogTypeOK'
    BY <1>1, <1>t DEF OpenLog, SizeAtStart, LogTypeOK
  <2>2. Sizes'
    BY <1>1, <1>t DEF OpenLog, SizeAtStart, LogTypeOK, Sizes
  <2>3. ~spoilt' => Untroubled' /\ Contiguous'
    BY <1>1 DEF OpenLog, SizeAtStart, Untroubled, Contiguous
  <2> QED BY <2>1, <2>2, <2>3
<1>2. ASSUME NEW n \in Lengths, Write(n)
      PROVE  LogInv'
  <2>1. LogTypeOK'
    BY <1>2 DEF Write, Exceeds, LogTypeOK
  <2>2. Sizes'
    BY <1>2 DEF Write, Exceeds, LogTypeOK, Sizes
  <2>3. ~spoilt' => Untroubled' /\ Contiguous'
    BY <1>2 DEF Write, Exceeds, Untroubled, Contiguous
  <2> QED BY <2>1, <2>2, <2>3
<1>3. CASE Rename
  <2>1. LogTypeOK'
    <3>1. current' \in Seq(Lines) /\ old' \in Seq(Lines)
      BY <1>3 DEF Rename, LogTypeOK
    <3>2. open' \in BOOLEAN /\ (open' => size' = Total(current'))
      BY <1>3 DEF Rename, LogTypeOK, Sizes
    <3>3. length' \in Lengths \cup {0} /\ count' \in 0..MaxLines
      BY <1>3 DEF Rename, LogTypeOK, Sizes
    <3> QED BY <1>3, <3>1, <3>2, <3>3 DEF Rename, LogTypeOK
  <2>2. Sizes'
    BY <1>3 DEF Rename, LogTypeOK, Sizes
  <2>3. ASSUME ~spoilt'
        PROVE  Untroubled' /\ Contiguous'
    <3>1. /\ ~spoilt /\ old' = current /\ current' = <<>> /\ count' = count
          /\ writer = "renaming" /\ writer' = "reopening"
      BY <1>3, <2>3 DEF Rename
    <3>2. length \in Lengths /\ Total(current) + length > MaxSize
      BY <3>1 DEF Untroubled, Sizes
    <3>3. Untroubled'
      BY <3>1 DEF Untroubled
    <3>4. current # <<>>
      BY <3>2, <1>t
    <3>5. \E n \in Lengths : Total(old') + n > MaxSize
      BY <3>1, <3>2
    <3>6. Contiguous'
      BY <3>1, <3>4, <3>5 DEF Contiguous, LogTypeOK
    <3> QED BY <3>3, <3>6
  <2> QED BY <2>1, <2>2, <2>3
<1>4. CASE Reopen
  <2>1. LogTypeOK'
    <3>1. current' \in Seq(Lines) /\ old' \in Seq(Lines)
      BY <1>4 DEF Reopen, LogTypeOK
    <3>2. open' \in BOOLEAN /\ (open' => size' = Total(current'))
      <4>1. CASE current' = <<>> /\ open' = TRUE /\ size' = 0
        BY <4>1
      <4>2. CASE UNCHANGED <<current, open, size>>
        BY <4>2 DEF LogTypeOK
      <4> QED BY <1>4, <4>1, <4>2 DEF Reopen
    <3>3. length' \in Lengths \cup {0} /\ count' \in 0..MaxLines
      BY <1>4 DEF Reopen, LogTypeOK, Sizes
    <3> QED BY <1>4, <3>1, <3>2, <3>3 DEF Reopen, LogTypeOK
  <2>2. Sizes'
    BY <1>4 DEF Reopen, LogTypeOK, Sizes
  <2>3. ~spoilt' => Untroubled' /\ Contiguous'
    BY <1>4 DEF Reopen, Untroubled, Contiguous
  <2> QED BY <2>1, <2>2, <2>3
<1>5. CASE Finish
  <2> DEFINE line == [number |-> count', end |-> Total(current) + length]
  <2>1. CASE open
    <3>1. line \in Lines
      BY <1>5, <2>1, <1>t DEF Finish, LogTypeOK, Sizes, Lines
    <3>2. /\ current' = Append(current, line) /\ old' = old
          /\ count' = count + 1 /\ size' = size + length
          /\ open' = open /\ spoilt' = spoilt /\ ends' = ends
          /\ writer = "writing" /\ writer' = "idle" /\ length' = 0
      BY <1>5, <2>1 DEF Finish
    <3> HIDE DEF line
    <3>3. /\ current' \in Seq(Lines) /\ current' # <<>>
          /\ Len(current') = Len(current) + 1
          /\ Total(current') = line.end
          /\ \A k \in 1..Len(current) : current'[k] = current[k]
          /\ current'[Len(current) + 1] = line
      BY <3>1, <3>2, TotalOfAppend DEF LogTypeOK
    <3>4. line.number = count + 1 /\ line.end = Total(current) + length
      BY <3>2 DEF line
    <3>5. LogTypeOK' /\ Sizes'
      BY <2>1, <3>2, <3>3, <3>4 DEF LogTypeOK, Sizes
    <3>6. ASSUME ~spoilt'
          PROVE  Untroubled' /\ Contiguous'
      <4>1. Untroubled'
        BY <2>1, <3>2, <3>3, <3>4, <3>6 DEF Untroubled, LogTypeOK
      <4>2. \A k \in 1..Len(current') :
               current'[k].number = count' - Len(current') + k
        <5>1. ASSUME NEW k \in 1..Len(current)
              PROVE  current'[k].number = count' - Len(current') + k
          BY <3>2, <3>3, <3>6, <5>1 DEF Contiguous, LogTypeOK
        <5>2. current'[Len(current) + 1].number = count'
          BY <3>2, <3>3, <3>4
        <5> QED BY <3>2, <3>3, <5>1, <5>2 DEF LogTypeOK
      <4>3. \A k \in 1..Len(old') :
               old'[k].number = count' - Len(current') - Len(old') + k
        BY <3>2, <3>3, <3>6 DEF Contiguous, LogTypeOK
      <4>4. /\ old' = <<>> => Len(current') = count'
            /\ old' # <<>> => \E n \in Lengths : Total(old') + n > MaxSize
        BY <3>2, <3>3, <3>6 DEF Contiguous
      <4> QED BY <4>1, <4>2, <4>3, <4>4 DEF Contiguous
    <3> QED BY <3>5, <3>6
  <2>2. CASE ~open
    <3>1. LogTypeOK' /\ Sizes'
      BY <1>5, <2>2 DEF Finish, LogTypeOK, Sizes
    <3>2. spoilt'
      BY <1>5, <2>2 DEF Finish, LogTypeOK, Untroubled
    <3> QED BY <3>1, <3>2
  <2> QED BY <2>1, <2>2
<1>6. CASE EndProgram
  <2>1. LogTypeOK'
    <3>1. current' \in Seq(Lines) /\ old' \in Seq(Lines)
      BY <1>6 DEF EndProgram, LogTypeOK
    <3>2. open' \in BOOLEAN /\ (open' => size' = Total(current'))
      BY <1>6 DEF EndProgram, LogTypeOK, Sizes
    <3>3. length' \in Lengths \cup {0} /\ count' \in 0..MaxLines
      BY <1>6 DEF EndProgram, LogTypeOK, Sizes
    <3> QED BY <1>6, <3>1, <3>2, <3>3 DEF EndProgram, LogTypeOK
  <2>2. Sizes'
    BY <1>6 DEF EndProgram, LogTypeOK, Sizes
  <2>3. ~spoilt' => Untroubled' /\ Contiguous'
    BY <1>6 DEF EndProgram, Untroubled, Contiguous
  <2> QED BY <2>1, <2>2, <2>3
<1>7. CASE UNCHANGED logVars
  BY <1>7 DEF LogTypeOK, Sizes, Untroubled, Contiguous
<1> QED BY <1>1, <1>2, <1>3, <1>4, <1>5, <1>6, <1>7 DEF LogNext

\* The two files one behind the other are the last lines.
LEMMA WhatIsKept == LogInv => LastLinesKept
<1> SUFFICES ASSUME LogInv PROVE LastLinesKept
  OBVIOUS
<1> USE LogAssumption DEF LogInv
<1>1. Total(current) <= MaxSize /\ Total(old) <= MaxSize
  BY TotalOfFile DEF LogTypeOK
<1> DEFINE kept == old \o current
<1>2. ASSUME ~spoilt, count > 0
      PROVE  /\ kept # <<>>
             /\ \A k \in DOMAIN kept : kept[k].number = count - Len(kept) + k
             /\ IF old = <<>> THEN kept[1].number = 1
                ELSE \E n \in Lengths : Total(old) + n > MaxSize
  <2>1. /\ old \in Seq(Lines) /\ current \in Seq(Lines) /\ count \in Nat
        /\ Contiguous
    BY <1>2 DEF LogTypeOK
  <2>2. /\ Len(kept) = Len(old) + Len(current) /\ DOMAIN kept = 1..Len(kept)
        /\ \A k \in 1..Len(old) : kept[k] = old[k]
        /\ \A k \in Len(old) + 1 .. Len(kept) : kept[k] = current[k - Len(old)]
    BY <2>1
  <2>3. Len(old) \in Nat /\ Len(current) \in Nat
    BY <2>1
  <2> HIDE DEF kept
  <2>4. Len(kept) > 0
    BY <1>2, <2>1, <2>2, <2>3 DEF Contiguous
  <2>5. ASSUME NEW k \in DOMAIN kept
        PROVE  kept[k].number = count - Len(kept) + k
    <3>1. CASE k <= Len(old)
      BY <2>1, <2>2, <2>3, <3>1 DEF Contiguous
    <3>2. CASE k > Len(old)
      <4>1. k - Len(old) \in 1..Len(current)
        BY <2>2, <2>3, <3>2
      <4>2. kept[k] = current[k - Len(old)]
        BY <2>2, <2>3, <3>2
      <4> QED BY <2>1, <2>2, <2>3, <4>1, <4>2 DEF Contiguous
    <3> QED BY <2>2, <2>3, <3>1, <3>2
  <2>6. old = <<>> => kept[1].number = 1
    <3>1. old = <<>> => Len(kept) = count
      BY <2>1, <2>2, <2>3 DEF Contiguous
    <3>2. 1 \in DOMAIN kept
      BY <2>2, <2>3, <2>4
    <3> QED BY <2>1, <2>5, <3>1, <3>2
  <2> QED BY <2>1, <2>4, <2>5, <2>6 DEF Contiguous, kept
<1> QED BY <1>1, <1>2 DEF LastLinesKept

LEMMA LogInvariance == LogSpec => []LogInv
BY InitLog, StepLog, PTL DEF LogSpec

\* The log has its type, and l.size is the length of the open file (openLog,
\* logFile.Write).
THEOREM LogTypeCorrect == LogSpec => []LogTypeOK
BY LogInvariance, PTL DEF LogInv

\* No file outgrows the limit, and the two hold the last lines without a gap
\* over any number of rotations and restarts (logFile.Write).
THEOREM LastLinesAlwaysKept == LogSpec => []LastLinesKept
BY LogInvariance, WhatIsKept, PTL

=============================================================================
