---------------------------- MODULE TunnelProofs ----------------------------
(***************************************************************************)
(* Proofs of the safety properties of Tunnel and, at the end, that it      *)
(* implements TunnelService, for any sets of requests, clients and users.  *)
(*                                                                         *)
(* The inductive invariant IInv joins, to the type invariant, what each of *)
(* the shared variables says about the program counters that use it.       *)
(***************************************************************************)
EXTENDS Tunnel, TLAPS

Threads == Requests \cup {"maintain", "serve"}

\* t.wg counts exactly the goroutines that run.
Counted ==
    /\ "maintain" \in wg <=> mpc \notin {"off", "done"}
    /\ "serve" \in wg <=> spc \notin {"off", "done"}
    /\ \A r \in Requests : r \in wg <=> hpc[r] \notin {"idle", "accepted"}

\* serve holds at most one connection that has no handler yet.
OneAccepted ==
    /\ \A r \in Requests : hpc[r] = "accepted" => spc = "spawn"
    /\ \A r, q \in Requests :
          hpc[r] = "accepted" /\ hpc[q] = "accepted" => r = q

\* The owner's progress and what it has done so far.
OwnerDid ==
    /\ ctxDone <=> opc \in {"cancelled", "lnClosed", "waiting", "stopped"}
    /\ opc \in {"lnClosed", "waiting", "stopped"} => ln # "open"
    /\ opc \in {"new", "listenFailed"} =>
          /\ ln = "none"
          /\ mpc = "off"
          /\ spc = "off"
          /\ wg = {}
          /\ listening = {}
          /\ attempted = {}
    /\ opc = "stopped" => wg = {}

\* Who owns an SSH connection that is open, and when it is on offer.
LinkOwned ==
    /\ exit # None =>
          /\ mpc \in {"dialed", "publish", "watch", "keepAlive", "ended",
                      "closing"}
          /\ health[exit] # "closed"
    /\ mpc \in {"publish", "watch", "keepAlive", "ended", "closing"}
          => exit # None
    /\ \A c \in Clients : health[c] # "closed" => c = exit
    /\ client = IF mpc \in {"watch", "keepAlive", "ended"} THEN exit ELSE None

\* A request that opens or reports holds a client.
HeldInv ==
    \A r \in Requests :
        hpc[r] \in {"open", "report", "relay"} => held[r] \in Clients

\* A report about the present connection, sent or about to be, comes from a
\* request of this connection: those about earlier ones name other clients.
BlameInv ==
    exit # None /\ blamed # exit =>
        /\ broken # exit
        /\ \A r \in Requests : hpc[r] = "report" => held[r] # exit

\* A registered connection has a handler that will unregister it.
ConnsInv ==
    \A r \in conns : hpc[r] \notin {"idle", "accepted", "track"}

\* The locals of waitClient live while it runs; one that has seen an attempt
\* begin and finds the tunnel failed was there when it failed.
AttemptInv ==
    \A r \in attempted : Waiting(r) /\ (state = "Failed" => r \in tried)

\* The reason of a failure outlives it only while maintain dials again.
ReasonInv ==
    err => \/ state = "Failed" /\ mpc \in {"off", "wait", "loop", "done"}
           \/ mpc \in {"dialing", "dialed", "publish", "done"}

\* A tunnel is connected only while maintain watches its client.
ConnectedInv ==
    state = "Connected" => mpc \in {"watch", "keepAlive", "ended"}

IInv ==
    /\ TypeOK
    /\ Counted
    /\ OneAccepted
    /\ OwnerDid
    /\ LinkOwned
    /\ HeldInv
    /\ BlameInv
    /\ ConnsInv
    /\ ConnsShut
    /\ AttemptInv
    /\ NoLostWakeup
    /\ ReasonInv
    /\ ConnectedInv

-----------------------------------------------------------------------------
\* The tuples of variables are only abbreviations.
USE DEF vars, tunnelVars, chanVars, ownerVars, linkVars, handleVars, connVars,
        notOwner, notUser, notMaintain, notServe, notHandle

\* Every variable stays in its type (the fields of Tunnel in tunnel.go).
LEMMA TypeStep == TypeOK /\ [Next]_vars => TypeOK'
<1> SUFFICES ASSUME TypeOK, [Next]_vars PROVE TypeOK'
    OBVIOUS
<1> USE TunnelAssumption
<1>1. CASE Owner
  <2>1. CASE StartListenFails
      BY <2>1 DEF TypeOK, StartListenFails
  <2>2. CASE StartReportsFailure
      BY <2>2 DEF TypeOK, StartReportsFailure, SetState
  <2>3. CASE Start
      BY <2>3 DEF TypeOK, Start
  <2>4. CASE StopCancels
      BY <2>4 DEF TypeOK, StopCancels
  <2>5. CASE StopClosesListener
      BY <2>5 DEF TypeOK, StopClosesListener
  <2>6. CASE StopClosesConns
      BY <2>6 DEF TypeOK, StopClosesConns
  <2>7. CASE StopWaits
      BY <2>7 DEF TypeOK, StopWaits, SetState
  <2> QED
      BY <1>1, <2>1, <2>2, <2>3, <2>4, <2>5, <2>6, <2>7 DEF Owner, Stop
<1>2. CASE \E u \in Users : Reconnect(u)
  <2> PICK u \in Users : Reconnect(u)
      BY <1>2
  <2>1. CASE ReconnectReadsStatus(u)
      BY <2>1 DEF TypeOK, ReconnectReadsStatus
  <2>2. CASE ReconnectNotifies(u)
      BY <2>2 DEF TypeOK, ReconnectNotifies
  <2> QED
      BY <2>1, <2>2 DEF Reconnect
<1>3. CASE Maintain
  <2>1. CASE BeginDial
      BY <2>1 DEF TypeOK, BeginDial, MaintainGoes, SetState
  <2>2. CASE LoopEnds
      BY <2>2 DEF TypeOK, LoopEnds, MaintainReturns
  <2>3. CASE DialFails
      BY <2>3 DEF TypeOK, DialFails, MaintainGoes, MaintainMoves
  <2>4. CASE \E c \in Clients : DialSucceeds(c)
      BY <2>4 DEF TypeOK, DialSucceeds, MaintainGoes
  <2>5. CASE DialCancelled
      BY <2>5 DEF TypeOK, DialCancelled, MaintainReturns, CloseClients
  <2>6. CASE DialFailed
      BY <2>6 DEF TypeOK, DialFailed, MaintainGoes, SetState
  <2>7. CASE DrainReconnect
    <3>1. reconnect' \in BOOLEAN
        BY <2>7 DEF DrainReconnect
    <3> QED
        BY <2>7, <3>1 DEF TypeOK, DrainReconnect, MaintainGoes
  <2>8. CASE Publish
      BY <2>8 DEF TypeOK, Publish, MaintainGoes, SetState
  <2>9. CASE WatchCancelled
      BY <2>9 DEF TypeOK, WatchCancelled, MaintainGoes, MaintainMoves
  <2>10. CASE WatchClosed
      BY <2>10 DEF TypeOK, WatchClosed, MaintainGoes, MaintainMoves
  <2>11. CASE WatchReconnect
    <3>1. reconnect' \in BOOLEAN
        BY <2>11 DEF WatchReconnect
    <3> QED
        BY <2>11, <3>1 DEF TypeOK, WatchReconnect, MaintainGoes
  <2>12. CASE WatchBroken
      BY <2>12 DEF TypeOK, WatchBroken, MaintainGoes
  <2>13. CASE WatchTick
      BY <2>13 DEF TypeOK, WatchTick, MaintainGoes, MaintainMoves
  <2>14. CASE KeepAliveReplies
      BY <2>14 DEF TypeOK, KeepAliveReplies, MaintainGoes, MaintainMoves
  <2>15. CASE KeepAliveFails
      BY <2>15 DEF TypeOK, KeepAliveFails, MaintainGoes, MaintainMoves
  <2>16. CASE Unpublish
      BY <2>16 DEF TypeOK, Unpublish, MaintainGoes, SetState
  <2>17. CASE LinkClosed
      BY <2>17 DEF TypeOK, LinkClosed, MaintainGoes, MaintainReturns,
             CloseClients
  <2>18. CASE WaitCancelled
      BY <2>18 DEF TypeOK, WaitCancelled, MaintainReturns
  <2>19. CASE WaitRetried
    <3>1. retry' \in BOOLEAN
        BY <2>19 DEF WaitRetried
    <3> QED
        BY <2>19, <3>1 DEF TypeOK, WaitRetried, MaintainGoes
  <2>20. CASE WaitElapsed
      BY <2>20 DEF TypeOK, WaitElapsed, MaintainGoes, MaintainMoves
  <2> QED
      BY <1>3, <2>1, <2>2, <2>3, <2>4, <2>5, <2>6, <2>7, <2>8, <2>9, <2>10,
         <2>11, <2>12, <2>13, <2>14, <2>15, <2>16, <2>17, <2>18, <2>19, <2>20
          DEF Maintain, Dial, Watch, Wait
<1>4. CASE Serve
  <2>1. CASE \E r \in Requests : Accept(r)
      BY <2>1 DEF TypeOK, Accept
  <2>2. CASE \E r \in Requests : Spawn(r)
      BY <2>2 DEF TypeOK, Spawn
  <2>3. CASE AcceptFails
      BY <2>3 DEF TypeOK, AcceptFails
  <2>4. CASE AcceptAgain
      BY <2>4 DEF TypeOK, AcceptAgain
  <2> QED
      BY <1>4, <2>1, <2>2, <2>3, <2>4 DEF Serve
<1>5. CASE \E r \in Requests : Handle(r)
  <2> PICK r \in Requests : Handle(r)
      BY <1>5
  <2>1. CASE Track(r)
      BY <2>1 DEF TypeOK, Track, HandlerGoes
  <2>2. CASE Handshake(r)
      BY <2>2 DEF TypeOK, Handshake, HandlerGoes, HandlerMoves
  <2>3. CASE SnapshotClient(r)
      BY <2>3 DEF TypeOK, SnapshotClient, HandlerGoes, DialLeaves
  <2>4. CASE SnapshotGivesUp(r)
      BY <2>4 DEF TypeOK, SnapshotGivesUp, HandlerGoes, DialLeaves
  <2>5. CASE SnapshotWaits(r)
      BY <2>5 DEF TypeOK, SnapshotWaits, HandlerGoes
  <2>6. CASE NotifyRetry(r)
      BY <2>6 DEF TypeOK, NotifyRetry, HandlerGoes
  <2>7. CASE Wake(r)
      BY <2>7 DEF TypeOK, Wake, HandlerGoes, HandlerMoves
  <2>8. CASE OpenAnswered(r)
      BY <2>8 DEF TypeOK, OpenAnswered, HandlerGoes, HandlerMoves
  <2>9. CASE OpenBroken(r) \/ OpenMalformed(r)
      BY <2>9 DEF TypeOK, OpenBroken, OpenMalformed, OpenFails, HandlerGoes
  <2>10. CASE Report(r)
      BY <2>10 DEF TypeOK, Report, HandlerGoes
  <2>11. CASE DialTimesOut(r)
      BY <2>11 DEF TypeOK, DialTimesOut, HandlerGoes, DialLeaves
  <2>12. CASE RelayEnds(r)
      BY <2>12 DEF TypeOK, RelayEnds, HandlerGoes, HandlerMoves
  <2>13. CASE HandlerReturns(r)
      BY <2>13 DEF TypeOK, HandlerReturns, HandlerGoes
  <2> QED
      BY <2>1, <2>2, <2>3, <2>4, <2>5, <2>6, <2>7, <2>8, <2>9, <2>10, <2>11,
         <2>12, <2>13 DEF Handle
<1>6. CASE LinkChanges
    BY <1>6 DEF TypeOK, LinkChanges
<1>7. CASE UNCHANGED vars
    BY <1>7 DEF TypeOK
<1> QED
    BY <1>1, <1>2, <1>3, <1>4, <1>5, <1>6, <1>7 DEF Next

THEOREM TypeCorrect == Spec => []TypeOK
<1>1. Init => TypeOK
    BY DEF Init, TypeOK
<1> QED
    BY <1>1, TypeStep, PTL DEF Spec

\* The counting of goroutines, and what the owner has done so far.
LEMMA CountStep == IInv /\ [Next]_vars => Counted' /\ OneAccepted' /\ OwnerDid'
<1> SUFFICES ASSUME IInv, [Next]_vars
         PROVE  Counted' /\ OneAccepted' /\ OwnerDid'
    OBVIOUS
<1> USE TunnelAssumption DEF IInv, TypeOK, Counted, OneAccepted, OwnerDid,
           LinkOwned
<1>1. CASE Owner
  <2>1. CASE StartListenFails
      BY <2>1 DEF StartListenFails
  <2>2. CASE StartReportsFailure
      BY <2>2 DEF StartReportsFailure, SetState
  <2>3. CASE Start
      BY <2>3 DEF Start
  <2>4. CASE StopCancels
      BY <2>4 DEF StopCancels
  <2>5. CASE StopClosesListener
      BY <2>5 DEF StopClosesListener
  <2>6. CASE StopClosesConns
      BY <2>6 DEF StopClosesConns
  <2>7. CASE StopWaits
      BY <2>7 DEF StopWaits, SetState
  <2> QED
      BY <1>1, <2>1, <2>2, <2>3, <2>4, <2>5, <2>6, <2>7 DEF Owner, Stop
<1>2. CASE \E u \in Users : Reconnect(u)
    BY <1>2 DEF Reconnect, ReconnectReadsStatus, ReconnectNotifies
<1>3. CASE Maintain
  <2>1. CASE BeginDial
      BY <2>1 DEF BeginDial, MaintainGoes, SetState
  <2>2. CASE LoopEnds
      BY <2>2 DEF LoopEnds, MaintainReturns
  <2>3. CASE DialFails
      BY <2>3 DEF DialFails, MaintainGoes, MaintainMoves
  <2>4. CASE \E c \in Clients : DialSucceeds(c)
      BY <2>4 DEF DialSucceeds, MaintainGoes, Fresh
  <2>5. CASE DialCancelled
      BY <2>5 DEF DialCancelled, MaintainReturns, CloseClients
  <2>6. CASE DialFailed
      BY <2>6 DEF DialFailed, MaintainGoes, SetState
  <2>7. CASE DrainReconnect
      BY <2>7 DEF DrainReconnect, MaintainGoes
  <2>8. CASE Publish
      BY <2>8 DEF Publish, MaintainGoes, SetState
  <2>9. CASE WatchCancelled
      BY <2>9 DEF WatchCancelled, MaintainGoes, MaintainMoves
  <2>10. CASE WatchClosed
      BY <2>10 DEF WatchClosed, MaintainGoes, MaintainMoves
  <2>11. CASE WatchReconnect
      BY <2>11 DEF WatchReconnect, MaintainGoes
  <2>12. CASE WatchBroken
      BY <2>12 DEF WatchBroken, MaintainGoes
  <2>13. CASE WatchTick
      BY <2>13 DEF WatchTick, MaintainGoes, MaintainMoves
  <2>14. CASE KeepAliveReplies
      BY <2>14 DEF KeepAliveReplies, MaintainGoes, MaintainMoves
  <2>15. CASE KeepAliveFails
      BY <2>15 DEF KeepAliveFails, MaintainGoes, MaintainMoves
  <2>16. CASE Unpublish
      BY <2>16 DEF Unpublish, MaintainGoes, SetState
  <2>17. CASE LinkClosed
      BY <2>17 DEF LinkClosed, MaintainGoes, MaintainReturns, CloseClients
  <2>18. CASE WaitCancelled
      BY <2>18 DEF WaitCancelled, MaintainReturns
  <2>19. CASE WaitRetried
      BY <2>19 DEF WaitRetried, MaintainGoes
  <2>20. CASE WaitElapsed
      BY <2>20 DEF WaitElapsed, MaintainGoes, MaintainMoves
  <2> QED
      BY <1>3, <2>1, <2>2, <2>3, <2>4, <2>5, <2>6, <2>7, <2>8, <2>9, <2>10,
         <2>11, <2>12, <2>13, <2>14, <2>15, <2>16, <2>17, <2>18, <2>19, <2>20
          DEF Maintain, Dial, Watch, Wait
<1>4. CASE Serve
  <2>1. CASE \E r \in Requests : Accept(r)
      BY <2>1 DEF Accept
  <2>2. CASE \E r \in Requests : Spawn(r)
      BY <2>2 DEF Spawn
  <2>3. CASE AcceptFails
      BY <2>3 DEF AcceptFails
  <2>4. CASE AcceptAgain
      BY <2>4 DEF AcceptAgain
  <2> QED
      BY <1>4, <2>1, <2>2, <2>3, <2>4 DEF Serve
<1>5. CASE \E r \in Requests : Handle(r)
  <2> PICK r \in Requests : Handle(r)
      BY <1>5
  <2>1. CASE Track(r)
      BY <2>1 DEF Track, HandlerGoes
  <2>2. CASE Handshake(r)
      BY <2>2 DEF Handshake, HandlerGoes, HandlerMoves
  <2>3. CASE SnapshotClient(r)
      BY <2>3 DEF SnapshotClient, HandlerGoes, DialLeaves
  <2>4. CASE SnapshotGivesUp(r)
      BY <2>4 DEF SnapshotGivesUp, HandlerGoes, DialLeaves
  <2>5. CASE SnapshotWaits(r)
      BY <2>5 DEF SnapshotWaits, HandlerGoes
  <2>6. CASE NotifyRetry(r)
      BY <2>6 DEF NotifyRetry, HandlerGoes
  <2>7. CASE Wake(r)
      BY <2>7 DEF Wake, HandlerGoes, HandlerMoves
  <2>8. CASE OpenAnswered(r)
      BY <2>8 DEF OpenAnswered, HandlerGoes, HandlerMoves
  <2>9. CASE OpenBroken(r) \/ OpenMalformed(r)
      BY <2>9 DEF OpenBroken, OpenMalformed, OpenFails, HandlerGoes
  <2>10. CASE Report(r)
      BY <2>10 DEF Report, HandlerGoes
  <2>11. CASE DialTimesOut(r)
      BY <2>11 DEF DialTimesOut, HandlerGoes, DialLeaves
  <2>12. CASE RelayEnds(r)
      BY <2>12 DEF RelayEnds, HandlerGoes, HandlerMoves
  <2>13. CASE HandlerReturns(r)
      BY <2>13 DEF HandlerReturns, HandlerGoes
  <2> QED
      BY <2>1, <2>2, <2>3, <2>4, <2>5, <2>6, <2>7, <2>8, <2>9, <2>10, <2>11,
         <2>12, <2>13 DEF Handle
<1>6. CASE LinkChanges
    BY <1>6 DEF LinkChanges
<1>7. CASE UNCHANGED vars
    BY <1>7
<1> QED
    BY <1>1, <1>2, <1>3, <1>4, <1>5, <1>6, <1>7 DEF Next

\* The connections that are registered, and those that Stop has closed.
LEMMA ConnsStep == IInv /\ [Next]_vars => ConnsInv' /\ ConnsShut'
<1> SUFFICES ASSUME IInv, [Next]_vars PROVE ConnsInv' /\ ConnsShut'
    OBVIOUS
<1> USE TunnelAssumption DEF IInv, TypeOK, ConnsInv, ConnsShut, OwnerDid
<1>1. CASE Owner
  <2>1. CASE StartListenFails
      BY <2>1 DEF StartListenFails
  <2>2. CASE StartReportsFailure
      BY <2>2 DEF StartReportsFailure, SetState
  <2>3. CASE Start
      BY <2>3 DEF Start
  <2>4. CASE StopCancels
      BY <2>4 DEF StopCancels
  <2>5. CASE StopClosesListener
      BY <2>5 DEF StopClosesListener
  <2>6. CASE StopClosesConns
      BY <2>6 DEF StopClosesConns
  <2>7. CASE StopWaits
      BY <2>7 DEF StopWaits, SetState
  <2> QED
      BY <1>1, <2>1, <2>2, <2>3, <2>4, <2>5, <2>6, <2>7 DEF Owner, Stop
<1>2. CASE \E u \in Users : Reconnect(u)
    BY <1>2 DEF Reconnect, ReconnectReadsStatus, ReconnectNotifies
<1>3. CASE Maintain
  <2>1. CASE BeginDial
      BY <2>1 DEF BeginDial, MaintainGoes, SetState
  <2>2. CASE LoopEnds
      BY <2>2 DEF LoopEnds, MaintainReturns
  <2>3. CASE DialFails
      BY <2>3 DEF DialFails, MaintainGoes, MaintainMoves
  <2>4. CASE \E c \in Clients : DialSucceeds(c)
      BY <2>4 DEF DialSucceeds, MaintainGoes, Fresh
  <2>5. CASE DialCancelled
      BY <2>5 DEF DialCancelled, MaintainReturns, CloseClients
  <2>6. CASE DialFailed
      BY <2>6 DEF DialFailed, MaintainGoes, SetState
  <2>7. CASE DrainReconnect
      BY <2>7 DEF DrainReconnect, MaintainGoes
  <2>8. CASE Publish
      BY <2>8 DEF Publish, MaintainGoes, SetState
  <2>9. CASE WatchCancelled
      BY <2>9 DEF WatchCancelled, MaintainGoes, MaintainMoves
  <2>10. CASE WatchClosed
      BY <2>10 DEF WatchClosed, MaintainGoes, MaintainMoves
  <2>11. CASE WatchReconnect
      BY <2>11 DEF WatchReconnect, MaintainGoes
  <2>12. CASE WatchBroken
      BY <2>12 DEF WatchBroken, MaintainGoes
  <2>13. CASE WatchTick
      BY <2>13 DEF WatchTick, MaintainGoes, MaintainMoves
  <2>14. CASE KeepAliveReplies
      BY <2>14 DEF KeepAliveReplies, MaintainGoes, MaintainMoves
  <2>15. CASE KeepAliveFails
      BY <2>15 DEF KeepAliveFails, MaintainGoes, MaintainMoves
  <2>16. CASE Unpublish
      BY <2>16 DEF Unpublish, MaintainGoes, SetState
  <2>17. CASE LinkClosed
      BY <2>17 DEF LinkClosed, MaintainGoes, MaintainReturns, CloseClients
  <2>18. CASE WaitCancelled
      BY <2>18 DEF WaitCancelled, MaintainReturns
  <2>19. CASE WaitRetried
      BY <2>19 DEF WaitRetried, MaintainGoes
  <2>20. CASE WaitElapsed
      BY <2>20 DEF WaitElapsed, MaintainGoes, MaintainMoves
  <2> QED
      BY <1>3, <2>1, <2>2, <2>3, <2>4, <2>5, <2>6, <2>7, <2>8, <2>9, <2>10,
         <2>11, <2>12, <2>13, <2>14, <2>15, <2>16, <2>17, <2>18, <2>19, <2>20
          DEF Maintain, Dial, Watch, Wait
<1>4. CASE Serve
  <2>1. CASE \E r \in Requests : Accept(r)
      BY <2>1 DEF Accept
  <2>2. CASE \E r \in Requests : Spawn(r)
      BY <2>2 DEF Spawn
  <2>3. CASE AcceptFails
      BY <2>3 DEF AcceptFails
  <2>4. CASE AcceptAgain
      BY <2>4 DEF AcceptAgain
  <2> QED
      BY <1>4, <2>1, <2>2, <2>3, <2>4 DEF Serve
<1>5. CASE \E r \in Requests : Handle(r)
  <2> PICK r \in Requests : Handle(r)
      BY <1>5
  <2>1. CASE Track(r)
      BY <2>1 DEF Track, HandlerGoes
  <2>2. CASE Handshake(r)
      BY <2>2 DEF Handshake, HandlerGoes, HandlerMoves
  <2>3. CASE SnapshotClient(r)
      BY <2>3 DEF SnapshotClient, HandlerGoes, DialLeaves
  <2>4. CASE SnapshotGivesUp(r)
      BY <2>4 DEF SnapshotGivesUp, HandlerGoes, DialLeaves
  <2>5. CASE SnapshotWaits(r)
      BY <2>5 DEF SnapshotWaits, HandlerGoes
  <2>6. CASE NotifyRetry(r)
      BY <2>6 DEF NotifyRetry, HandlerGoes
  <2>7. CASE Wake(r)
      BY <2>7 DEF Wake, HandlerGoes, HandlerMoves
  <2>8. CASE OpenAnswered(r)
      BY <2>8 DEF OpenAnswered, HandlerGoes, HandlerMoves
  <2>9. CASE OpenBroken(r) \/ OpenMalformed(r)
      BY <2>9 DEF OpenBroken, OpenMalformed, OpenFails, HandlerGoes
  <2>10. CASE Report(r)
      BY <2>10 DEF Report, HandlerGoes
  <2>11. CASE DialTimesOut(r)
      BY <2>11 DEF DialTimesOut, HandlerGoes, DialLeaves
  <2>12. CASE RelayEnds(r)
      BY <2>12 DEF RelayEnds, HandlerGoes, HandlerMoves
  <2>13. CASE HandlerReturns(r)
      BY <2>13 DEF HandlerReturns, HandlerGoes
  <2> QED
      BY <2>1, <2>2, <2>3, <2>4, <2>5, <2>6, <2>7, <2>8, <2>9, <2>10, <2>11,
         <2>12, <2>13 DEF Handle
<1>6. CASE LinkChanges
    BY <1>6 DEF LinkChanges
<1>7. CASE UNCHANGED vars
    BY <1>7
<1> QED
    BY <1>1, <1>2, <1>3, <1>4, <1>5, <1>6, <1>7 DEF Next

\* The SSH connection, who owns it and who was told of it.
LEMMA LinkStep == IInv /\ [Next]_vars => LinkOwned' /\ HeldInv' /\ BlameInv'
<1> SUFFICES ASSUME IInv, [Next]_vars
         PROVE  LinkOwned' /\ HeldInv' /\ BlameInv'
    OBVIOUS
<1> USE TunnelAssumption DEF IInv, TypeOK, LinkOwned, HeldInv, BlameInv,
           Dead, Counted, OwnerDid
<1>1. CASE Owner
  <2>1. CASE StartListenFails
      BY <2>1 DEF StartListenFails
  <2>2. CASE StartReportsFailure
      BY <2>2 DEF StartReportsFailure, SetState
  <2>3. CASE Start
      BY <2>3 DEF Start
  <2>4. CASE StopCancels
      BY <2>4 DEF StopCancels
  <2>5. CASE StopClosesListener
      BY <2>5 DEF StopClosesListener
  <2>6. CASE StopClosesConns
      BY <2>6 DEF StopClosesConns
  <2>7. CASE StopWaits
      BY <2>7 DEF StopWaits, SetState
  <2> QED
      BY <1>1, <2>1, <2>2, <2>3, <2>4, <2>5, <2>6, <2>7 DEF Owner, Stop
<1>2. CASE \E u \in Users : Reconnect(u)
    BY <1>2 DEF Reconnect, ReconnectReadsStatus, ReconnectNotifies
<1>3. CASE Maintain
  <2>1. CASE BeginDial
      BY <2>1 DEF BeginDial, MaintainGoes, SetState
  <2>2. CASE LoopEnds
      BY <2>2 DEF LoopEnds, MaintainReturns
  <2>3. CASE DialFails
      BY <2>3 DEF DialFails, MaintainGoes, MaintainMoves
  <2>4. CASE \E c \in Clients : DialSucceeds(c)
      BY <2>4 DEF DialSucceeds, MaintainGoes, Fresh
  <2>5. CASE DialCancelled
      BY <2>5 DEF DialCancelled, MaintainReturns, CloseClients
  <2>6. CASE DialFailed
      BY <2>6 DEF DialFailed, MaintainGoes, SetState
  <2>7. CASE DrainReconnect
      BY <2>7 DEF DrainReconnect, MaintainGoes
  <2>8. CASE Publish
      BY <2>8 DEF Publish, MaintainGoes, SetState
  <2>9. CASE WatchCancelled
      BY <2>9 DEF WatchCancelled, MaintainGoes, MaintainMoves
  <2>10. CASE WatchClosed
      BY <2>10 DEF WatchClosed, MaintainGoes, MaintainMoves
  <2>11. CASE WatchReconnect
      BY <2>11 DEF WatchReconnect, MaintainGoes
  <2>12. CASE WatchBroken
      BY <2>12 DEF WatchBroken, MaintainGoes
  <2>13. CASE WatchTick
      BY <2>13 DEF WatchTick, MaintainGoes, MaintainMoves
  <2>14. CASE KeepAliveReplies
      BY <2>14 DEF KeepAliveReplies, MaintainGoes, MaintainMoves
  <2>15. CASE KeepAliveFails
      BY <2>15 DEF KeepAliveFails, MaintainGoes, MaintainMoves
  <2>16. CASE Unpublish
      BY <2>16 DEF Unpublish, MaintainGoes, SetState
  <2>17. CASE LinkClosed
      BY <2>17 DEF LinkClosed, MaintainGoes, MaintainReturns, CloseClients
  <2>18. CASE WaitCancelled
      BY <2>18 DEF WaitCancelled, MaintainReturns
  <2>19. CASE WaitRetried
      BY <2>19 DEF WaitRetried, MaintainGoes
  <2>20. CASE WaitElapsed
      BY <2>20 DEF WaitElapsed, MaintainGoes, MaintainMoves
  <2> QED
      BY <1>3, <2>1, <2>2, <2>3, <2>4, <2>5, <2>6, <2>7, <2>8, <2>9, <2>10,
         <2>11, <2>12, <2>13, <2>14, <2>15, <2>16, <2>17, <2>18, <2>19, <2>20
          DEF Maintain, Dial, Watch, Wait
<1>4. CASE Serve
  <2>1. CASE \E r \in Requests : Accept(r)
      BY <2>1 DEF Accept
  <2>2. CASE \E r \in Requests : Spawn(r)
      BY <2>2 DEF Spawn
  <2>3. CASE AcceptFails
      BY <2>3 DEF AcceptFails
  <2>4. CASE AcceptAgain
      BY <2>4 DEF AcceptAgain
  <2> QED
      BY <1>4, <2>1, <2>2, <2>3, <2>4 DEF Serve
<1>5. CASE \E r \in Requests : Handle(r)
  <2> PICK r \in Requests : Handle(r)
      BY <1>5
  <2>1. CASE Track(r)
      BY <2>1 DEF Track, HandlerGoes
  <2>2. CASE Handshake(r)
      BY <2>2 DEF Handshake, HandlerGoes, HandlerMoves
  <2>3. CASE SnapshotClient(r)
      BY <2>3 DEF SnapshotClient, HandlerGoes, DialLeaves
  <2>4. CASE SnapshotGivesUp(r)
      BY <2>4 DEF SnapshotGivesUp, HandlerGoes, DialLeaves
  <2>5. CASE SnapshotWaits(r)
      BY <2>5 DEF SnapshotWaits, HandlerGoes
  <2>6. CASE NotifyRetry(r)
      BY <2>6 DEF NotifyRetry, HandlerGoes
  <2>7. CASE Wake(r)
      BY <2>7 DEF Wake, HandlerGoes, HandlerMoves
  <2>8. CASE OpenAnswered(r)
      BY <2>8 DEF OpenAnswered, HandlerGoes, HandlerMoves
  <2>9. CASE OpenBroken(r) \/ OpenMalformed(r)
      BY <2>9 DEF OpenBroken, OpenMalformed, OpenFails, HandlerGoes
  <2>10. CASE Report(r)
      BY <2>10 DEF Report, HandlerGoes
  <2>11. CASE DialTimesOut(r)
      BY <2>11 DEF DialTimesOut, HandlerGoes, DialLeaves
  <2>12. CASE RelayEnds(r)
      BY <2>12 DEF RelayEnds, HandlerGoes, HandlerMoves
  <2>13. CASE HandlerReturns(r)
      BY <2>13 DEF HandlerReturns, HandlerGoes
  <2> QED
      BY <2>1, <2>2, <2>3, <2>4, <2>5, <2>6, <2>7, <2>8, <2>9, <2>10, <2>11,
         <2>12, <2>13 DEF Handle
<1>6. CASE LinkChanges
    BY <1>6 DEF LinkChanges
<1>7. CASE UNCHANGED vars
    BY <1>7
<1> QED
    BY <1>1, <1>2, <1>3, <1>4, <1>5, <1>6, <1>7 DEF Next

\* The requests that wait in waitClient.
LEMMA WaitStep == IInv /\ [Next]_vars => AttemptInv' /\ NoLostWakeup'
<1> SUFFICES ASSUME IInv, [Next]_vars PROVE AttemptInv' /\ NoLostWakeup'
    OBVIOUS
<1> USE TunnelAssumption DEF IInv, TypeOK, AttemptInv, NoLostWakeup, Waiting,
           OwnerDid, Counted
<1>1. CASE Owner
  <2>1. CASE StartListenFails
      BY <2>1 DEF StartListenFails
  <2>2. CASE StartReportsFailure
      BY <2>2 DEF StartReportsFailure, SetState
  <2>3. CASE Start
      BY <2>3 DEF Start
  <2>4. CASE StopCancels
      BY <2>4 DEF StopCancels
  <2>5. CASE StopClosesListener
      BY <2>5 DEF StopClosesListener
  <2>6. CASE StopClosesConns
      BY <2>6 DEF StopClosesConns
  <2>7. CASE StopWaits
      BY <2>7 DEF StopWaits, SetState
  <2> QED
      BY <1>1, <2>1, <2>2, <2>3, <2>4, <2>5, <2>6, <2>7 DEF Owner, Stop
<1>2. CASE \E u \in Users : Reconnect(u)
    BY <1>2 DEF Reconnect, ReconnectReadsStatus, ReconnectNotifies
<1>3. CASE Maintain
  <2>1. CASE BeginDial
      BY <2>1 DEF BeginDial, MaintainGoes, SetState
  <2>2. CASE LoopEnds
      BY <2>2 DEF LoopEnds, MaintainReturns
  <2>3. CASE DialFails
      BY <2>3 DEF DialFails, MaintainGoes, MaintainMoves
  <2>4. CASE \E c \in Clients : DialSucceeds(c)
      BY <2>4 DEF DialSucceeds, MaintainGoes, Fresh
  <2>5. CASE DialCancelled
      BY <2>5 DEF DialCancelled, MaintainReturns, CloseClients
  <2>6. CASE DialFailed
      BY <2>6 DEF DialFailed, MaintainGoes, SetState
  <2>7. CASE DrainReconnect
      BY <2>7 DEF DrainReconnect, MaintainGoes
  <2>8. CASE Publish
      BY <2>8 DEF Publish, MaintainGoes, SetState
  <2>9. CASE WatchCancelled
      BY <2>9 DEF WatchCancelled, MaintainGoes, MaintainMoves
  <2>10. CASE WatchClosed
      BY <2>10 DEF WatchClosed, MaintainGoes, MaintainMoves
  <2>11. CASE WatchReconnect
      BY <2>11 DEF WatchReconnect, MaintainGoes
  <2>12. CASE WatchBroken
      BY <2>12 DEF WatchBroken, MaintainGoes
  <2>13. CASE WatchTick
      BY <2>13 DEF WatchTick, MaintainGoes, MaintainMoves
  <2>14. CASE KeepAliveReplies
      BY <2>14 DEF KeepAliveReplies, MaintainGoes, MaintainMoves
  <2>15. CASE KeepAliveFails
      BY <2>15 DEF KeepAliveFails, MaintainGoes, MaintainMoves
  <2>16. CASE Unpublish
      BY <2>16 DEF Unpublish, MaintainGoes, SetState
  <2>17. CASE LinkClosed
      BY <2>17 DEF LinkClosed, MaintainGoes, MaintainReturns, CloseClients
  <2>18. CASE WaitCancelled
      BY <2>18 DEF WaitCancelled, MaintainReturns
  <2>19. CASE WaitRetried
      BY <2>19 DEF WaitRetried, MaintainGoes
  <2>20. CASE WaitElapsed
      BY <2>20 DEF WaitElapsed, MaintainGoes, MaintainMoves
  <2> QED
      BY <1>3, <2>1, <2>2, <2>3, <2>4, <2>5, <2>6, <2>7, <2>8, <2>9, <2>10,
         <2>11, <2>12, <2>13, <2>14, <2>15, <2>16, <2>17, <2>18, <2>19, <2>20
          DEF Maintain, Dial, Watch, Wait
<1>4. CASE Serve
  <2>1. CASE \E r \in Requests : Accept(r)
      BY <2>1 DEF Accept
  <2>2. CASE \E r \in Requests : Spawn(r)
      BY <2>2 DEF Spawn
  <2>3. CASE AcceptFails
      BY <2>3 DEF AcceptFails
  <2>4. CASE AcceptAgain
      BY <2>4 DEF AcceptAgain
  <2> QED
      BY <1>4, <2>1, <2>2, <2>3, <2>4 DEF Serve
<1>5. CASE \E r \in Requests : Handle(r)
  <2> PICK r \in Requests : Handle(r)
      BY <1>5
  <2>1. CASE Track(r)
      BY <2>1 DEF Track, HandlerGoes
  <2>2. CASE Handshake(r)
      BY <2>2 DEF Handshake, HandlerGoes, HandlerMoves
  <2>3. CASE SnapshotClient(r)
      BY <2>3 DEF SnapshotClient, HandlerGoes, DialLeaves
  <2>4. CASE SnapshotGivesUp(r)
      BY <2>4 DEF SnapshotGivesUp, HandlerGoes, DialLeaves
  <2>5. CASE SnapshotWaits(r)
      BY <2>5 DEF SnapshotWaits, HandlerGoes
  <2>6. CASE NotifyRetry(r)
      BY <2>6 DEF NotifyRetry, HandlerGoes
  <2>7. CASE Wake(r)
      BY <2>7 DEF Wake, HandlerGoes, HandlerMoves
  <2>8. CASE OpenAnswered(r)
      BY <2>8 DEF OpenAnswered, HandlerGoes, HandlerMoves
  <2>9. CASE OpenBroken(r) \/ OpenMalformed(r)
      BY <2>9 DEF OpenBroken, OpenMalformed, OpenFails, HandlerGoes
  <2>10. CASE Report(r)
      BY <2>10 DEF Report, HandlerGoes
  <2>11. CASE DialTimesOut(r)
      BY <2>11 DEF DialTimesOut, HandlerGoes, DialLeaves
  <2>12. CASE RelayEnds(r)
      BY <2>12 DEF RelayEnds, HandlerGoes, HandlerMoves
  <2>13. CASE HandlerReturns(r)
      BY <2>13 DEF HandlerReturns, HandlerGoes
  <2> QED
      BY <2>1, <2>2, <2>3, <2>4, <2>5, <2>6, <2>7, <2>8, <2>9, <2>10, <2>11,
         <2>12, <2>13 DEF Handle
<1>6. CASE LinkChanges
    BY <1>6 DEF LinkChanges
<1>7. CASE UNCHANGED vars
    BY <1>7
<1> QED
    BY <1>1, <1>2, <1>3, <1>4, <1>5, <1>6, <1>7 DEF Next

\* The state and the reason of the last failure.
LEMMA ReasonStep == IInv /\ [Next]_vars => ReasonInv' /\ ConnectedInv'
<1> SUFFICES ASSUME IInv, [Next]_vars PROVE ReasonInv' /\ ConnectedInv'
    OBVIOUS
<1> USE TunnelAssumption DEF IInv, TypeOK, ReasonInv, ConnectedInv
<1>1. CASE StartReportsFailure \/ Start
    BY <1>1 DEF StartReportsFailure, Start, SetState, OwnerDid
<1>2. CASE StopWaits
    BY <1>2 DEF StopWaits, SetState
<1>3. CASE BeginDial \/ DialFailed \/ Publish \/ Unpublish
    BY <1>3 DEF BeginDial, DialFailed, Publish, Unpublish, SetState,
                MaintainGoes
<1>4. CASE LoopEnds \/ DialCancelled \/ WaitCancelled
    BY <1>4 DEF LoopEnds, DialCancelled, WaitCancelled, MaintainReturns
<1>5. CASE DialFails \/ (\E c \in Clients : DialSucceeds(c))
           \/ DrainReconnect \/ WaitRetried \/ WaitElapsed
    BY <1>5 DEF DialFails, DialSucceeds, DrainReconnect, WaitRetried,
                WaitElapsed, MaintainGoes, MaintainMoves
<1>6. CASE Watch
    BY <1>6 DEF Watch, WatchCancelled, WatchClosed, WatchReconnect, WatchBroken,
                WatchTick, KeepAliveReplies, KeepAliveFails, MaintainGoes,
                MaintainMoves
<1>7. CASE LinkClosed
    BY <1>7 DEF LinkClosed, MaintainGoes, MaintainReturns
<1>8. ASSUME UNCHANGED <<err, state, mpc>> PROVE ReasonInv' /\ ConnectedInv'
    BY <1>8
<1>9. CASE StartListenFails \/ StopCancels \/ StopClosesListener
           \/ StopClosesConns
    BY <1>8, <1>9 DEF StartListenFails, StopCancels, StopClosesListener,
                      StopClosesConns
<1>10. CASE Serve
    BY <1>8, <1>10 DEF Serve, Accept, Spawn, AcceptFails, AcceptAgain
<1>11. CASE \E u \in Users : Reconnect(u)
    BY <1>8, <1>11 DEF Reconnect, ReconnectReadsStatus, ReconnectNotifies
<1>12. CASE \E r \in Requests : Handle(r)
    BY <1>8, <1>12 DEF Handle, Track, Handshake, SnapshotClient,
           SnapshotGivesUp, SnapshotWaits, NotifyRetry, Wake, OpenAnswered,
           OpenBroken, OpenMalformed, OpenFails, Report, DialTimesOut,
           RelayEnds, HandlerReturns, HandlerGoes, HandlerMoves, DialLeaves
<1>13. CASE LinkChanges \/ UNCHANGED vars
    BY <1>8, <1>13 DEF LinkChanges
<1> QED
    BY <1>1, <1>2, <1>3, <1>4, <1>5, <1>6, <1>7, <1>9, <1>10, <1>11, <1>12,
       <1>13 DEF Next, Owner, Stop, Maintain, Dial, Wait

LEMMA Invariance == Spec => []IInv
<1>1. Init => IInv
    BY TunnelAssumption
       DEF Init, IInv, TypeOK, Counted, OneAccepted, OwnerDid, LinkOwned,
           HeldInv, BlameInv, ConnsInv, ConnsShut, AttemptInv, NoLostWakeup,
           ReasonInv, ConnectedInv
<1>2. IInv /\ [Next]_vars => IInv'
    BY TypeStep, CountStep, ConnsStep, LinkStep, WaitStep, ReasonStep DEF IInv
<1> QED
    BY <1>1, <1>2, PTL DEF Spec

-----------------------------------------------------------------------------
\* When Stop returns, every goroutine, connection and listener of the tunnel
\* is gone (tunnel.go:105).  wg = {} turns the counters into the claim.
THEOREM StopIsClean == Spec => []StopClean
<1>1. IInv => StopClean
  <2> SUFFICES ASSUME IInv, opc = "stopped" PROVE StopClean
      BY DEF StopClean
  <2>1. wg = {}
      BY DEF IInv, OwnerDid
  <2>2. mpc \in {"off", "done"} /\ spc \in {"off", "done"}
      BY <2>1 DEF IInv, Counted
  <2>3. \A r \in Requests : hpc[r] = "idle"
      BY <2>1, <2>2 DEF IInv, Counted, OneAccepted
  <2>4. conns = {}
      BY <2>3 DEF IInv, TypeOK, ConnsInv
  <2>5. exit = None
      BY <2>2 DEF IInv, LinkOwned
  <2>6. \A c \in Clients : health[c] = "closed"
      BY <2>5, TunnelAssumption DEF IInv, LinkOwned
  <2> QED
      BY <2>2, <2>3, <2>4, <2>6 DEF StopClean, IInv, OwnerDid
<1> QED
    BY <1>1, Invariance, PTL

\* No connection is registered behind Stop's back (track, tunnel.go:332).
THEOREM ConnsAreShut == Spec => []ConnsShut
<1>1. IInv => ConnsShut
    BY DEF IInv
<1> QED
    BY <1>1, Invariance, PTL

\* Only maintain's SSH connection is open, and only an open one is offered to
\* requests (maintain's setState before closeClients, tunnel.go:219).
THEOREM OneLinkOpen == Spec => []OneLink
<1>1. IInv => OneLink
    BY DEF IInv, LinkOwned, OneLink
<1> QED
    BY <1>1, Invariance, PTL

\* A request that goes to sleep on a failed tunnel leaves a token that is
\* still there, or maintain is past its wait (waitClient, tunnel.go:302).
THEOREM WakeupNotLost == Spec => []NoLostWakeup
<1>1. IInv => NoLostWakeup
    BY DEF IInv
<1> QED
    BY <1>1, Invariance, PTL

\* watch ends a connection only for a reason: the one report that can end it
\* names this connection, so a request of its own has sent it, however late the
\* others come (watch, tunnel.go:234).
THEOREM TeardownHasReason == Spec => NoSpuriousTeardown
<1> DEFINE Reason == \/ ctxDone \/ reconnect
                     \/ health[exit] \in {"hung", "down"} \/ blamed = exit
           Ends == mpc \in {"watch", "keepAlive"} /\ mpc' = "ended"
<1>1. IInv /\ [Next]_vars => [Ends => Reason]_vars
  <2> SUFFICES ASSUME IInv, Next, Ends PROVE Reason
      OBVIOUS
  <2>1. CASE Maintain
    <3>1. WatchCancelled \/ WatchClosed \/ WatchReconnect \/ WatchBroken
             \/ KeepAliveFails
        BY <2>1 DEF Maintain, Dial, Watch, Wait, BeginDial, LoopEnds, DialFails,
             DialSucceeds, DialCancelled, DialFailed, DrainReconnect, Publish,
             WatchTick, KeepAliveReplies, Unpublish, LinkClosed, WaitCancelled,
             WaitRetried, WaitElapsed, MaintainGoes, MaintainMoves,
             MaintainReturns
    <3>2. CASE WatchBroken
      <4>1. broken = exit /\ mpc = "watch"
          BY <3>2 DEF WatchBroken, MaintainGoes
      <4>2. exit # None
          BY <4>1 DEF IInv, LinkOwned
      <4> QED
          BY <4>1, <4>2 DEF IInv, BlameInv
    <3>3. CASE WatchCancelled \/ WatchClosed \/ WatchReconnect \/ KeepAliveFails
        BY <3>3 DEF WatchCancelled, WatchClosed, WatchReconnect, KeepAliveFails,
                    MaintainMoves
    <3> QED
        BY <3>1, <3>2, <3>3
  <2>2. CASE ~Maintain
    <3>1. CASE Owner
        BY <3>1 DEF Owner, Stop, StartListenFails, StartReportsFailure, Start,
             StopCancels, StopClosesListener, StopClosesConns, StopWaits
    <3>2. CASE Serve
        BY <3>2 DEF Serve, Accept, Spawn, AcceptFails, AcceptAgain
    <3>3. CASE \E u \in Users : Reconnect(u)
        BY <3>3 DEF Reconnect, ReconnectReadsStatus, ReconnectNotifies
    <3>4. CASE \E r \in Requests : Handle(r)
        BY <3>4 DEF Handle, Track, Handshake, SnapshotClient, SnapshotGivesUp,
             SnapshotWaits, NotifyRetry, Wake, OpenAnswered, OpenBroken,
             OpenMalformed, OpenFails, Report, DialTimesOut, RelayEnds,
             HandlerReturns, HandlerGoes, HandlerMoves, DialLeaves
    <3>5. CASE LinkChanges
        BY <3>5 DEF LinkChanges
    <3> QED
        BY <2>2, <3>1, <3>2, <3>3, <3>4, <3>5 DEF Next
  <2> QED
      BY <2>1, <2>2
<1> QED
    BY <1>1, Invariance, PTL DEF Spec, NoSpuriousTeardown

\* maintain takes a click while the tunnel is connected only in order to end
\* the connection: it drops old clicks before it says so (tunnel.go:214).
THEOREM ClicksAreHonoured == Spec => ReconnectHonoured
<1> DEFINE Taken == reconnect /\ ~reconnect' /\ state = "Connected"
           Ends == mpc' = "ended"
<1>1. IInv /\ [Next]_vars => [Taken => Ends]_vars
  <2> SUFFICES ASSUME IInv, Next, Taken PROVE Ends
      OBVIOUS
  <2>1. CASE Maintain
    <3>1. WatchReconnect \/ DrainReconnect
        BY <2>1 DEF Maintain, Dial, Watch, Wait, BeginDial, LoopEnds, DialFails,
             DialSucceeds, DialCancelled, DialFailed, Publish, WatchCancelled,
             WatchClosed, WatchBroken, WatchTick, KeepAliveReplies,
             KeepAliveFails, Unpublish, LinkClosed, WaitCancelled, WaitRetried,
             WaitElapsed, MaintainGoes, MaintainMoves, MaintainReturns
    <3>2. CASE WatchReconnect
        BY <3>2 DEF WatchReconnect, MaintainGoes
    <3>3. CASE DrainReconnect
        BY <3>3 DEF DrainReconnect, MaintainGoes, IInv, ConnectedInv
    <3> QED
        BY <3>1, <3>2, <3>3
  <2>2. CASE \E u \in Users : Reconnect(u)
      BY <2>2 DEF Reconnect, ReconnectReadsStatus, ReconnectNotifies
  <2>3. CASE Owner \/ Serve \/ LinkChanges
      BY <2>3 DEF Owner, Stop, StartListenFails, StartReportsFailure, Start,
           StopCancels, StopClosesListener, StopClosesConns, StopWaits, Serve,
           Accept, Spawn, AcceptFails, AcceptAgain, LinkChanges
  <2>4. CASE \E r \in Requests : Handle(r)
      BY <2>4 DEF Handle, Track, Handshake, SnapshotClient, SnapshotGivesUp,
           SnapshotWaits, NotifyRetry, Wake, OpenAnswered, OpenBroken,
           OpenMalformed, OpenFails, Report, DialTimesOut, RelayEnds,
           HandlerReturns, HandlerGoes, HandlerMoves, DialLeaves
  <2> QED
      BY <2>1, <2>2, <2>3, <2>4 DEF Next
<1> QED
    BY <1>1, Invariance, PTL DEF Spec, ReconnectHonoured

\* Until it is connected or stopped, a tunnel that failed keeps the reason
\* (setState, tunnel.go:162): maintain sets StateConnecting without a reason
\* only from StateFailed, which hands it on, or when there was none.
THEOREM ReasonIsKept == Spec => RetryKeepsReason
<1> DEFINE Forgets == err /\ ~err'
           Settled == state' \in {"Connected", "Stopped"}
<1>1. IInv /\ [Next]_vars => [Forgets => Settled]_vars
  <2> SUFFICES ASSUME IInv, Next, Forgets PROVE Settled
      OBVIOUS
  <2> USE DEF IInv, TypeOK, ReasonInv
  <2>1. CASE StartReportsFailure \/ StopWaits
      BY <2>1 DEF StartReportsFailure, StopWaits, SetState
  <2>2. CASE BeginDial \/ DialFailed \/ Publish \/ Unpublish
      BY <2>2 DEF BeginDial, DialFailed, Publish, Unpublish, SetState,
                  MaintainGoes
  <2>3. ASSUME err' = err PROVE Settled
      BY <2>3
  <2>4. CASE Owner /\ ~(StartReportsFailure \/ StopWaits)
      BY <2>3, <2>4 DEF Owner, Stop, StartListenFails, Start, StopCancels,
                        StopClosesListener, StopClosesConns
  <2>5. CASE Maintain /\ ~(BeginDial \/ DialFailed \/ Publish \/ Unpublish)
      BY <2>3, <2>5 DEF Maintain, Dial, Watch, Wait, LoopEnds, DialFails,
             DialSucceeds, DialCancelled, DrainReconnect, WatchCancelled,
             WatchClosed, WatchReconnect, WatchBroken, WatchTick,
             KeepAliveReplies, KeepAliveFails, LinkClosed, WaitCancelled,
             WaitRetried, WaitElapsed, MaintainGoes, MaintainMoves,
             MaintainReturns
  <2>6. CASE Serve
      BY <2>3, <2>6 DEF Serve, Accept, Spawn, AcceptFails, AcceptAgain
  <2>7. CASE \E u \in Users : Reconnect(u)
      BY <2>3, <2>7 DEF Reconnect, ReconnectReadsStatus, ReconnectNotifies
  <2>8. CASE \E r \in Requests : Handle(r)
      BY <2>3, <2>8 DEF Handle, Track, Handshake, SnapshotClient,
             SnapshotGivesUp, SnapshotWaits, NotifyRetry, Wake, OpenAnswered,
             OpenBroken, OpenMalformed, OpenFails, Report, DialTimesOut,
             RelayEnds, HandlerReturns, HandlerGoes, HandlerMoves, DialLeaves
  <2>9. CASE LinkChanges
      BY <2>3, <2>9 DEF LinkChanges
  <2> QED
      BY <2>1, <2>2, <2>4, <2>5, <2>6, <2>7, <2>8, <2>9 DEF Next
<1> QED
    BY <1>1, Invariance, PTL DEF Spec, RetryKeepsReason

\* A request is refused with the error of a dial only if a failure was
\* announced while it waited (attempted in waitClient, tunnel.go:303).
THEOREM VerdictsAreFresh == Spec => VerdictIsFresh
<1> DEFINE Answered ==
        \A r \in Requests :
            hpc[r] = "snapshot" /\ hpc'[r] = "closing" /\ state = "Failed"
                => r \in tried
<1>1. IInv /\ [Next]_vars => [Answered]_vars
  <2> SUFFICES ASSUME IInv, Next,
                      NEW r \in Requests,
                      hpc[r] = "snapshot", hpc'[r] = "closing", state = "Failed"
               PROVE  r \in tried
      OBVIOUS
  <2> USE DEF IInv, TypeOK
  <2>1. CASE \E q \in Requests : Handle(q)
    <3> PICK q \in Requests : Handle(q)
        BY <2>1
    <3>1. hpc'[r] # hpc[r] => q = r
        BY DEF Handle, Track, Handshake, SnapshotClient, SnapshotGivesUp,
               SnapshotWaits, NotifyRetry, Wake, OpenAnswered, OpenBroken,
               OpenMalformed, OpenFails, Report, DialTimesOut, RelayEnds,
               HandlerReturns, HandlerGoes, HandlerMoves, DialLeaves
    <3>2. SnapshotGivesUp(r)
        BY <3>1 DEF Handle, Track, Handshake, SnapshotClient, SnapshotWaits,
               NotifyRetry, Wake, OpenAnswered, OpenBroken, OpenMalformed,
               OpenFails, Report, DialTimesOut, RelayEnds, HandlerReturns,
               HandlerGoes, HandlerMoves, DialLeaves
    <3> QED
        BY <3>2 DEF SnapshotGivesUp, AttemptInv
  <2>2. ASSUME hpc'[r] = hpc[r] PROVE r \in tried
      BY <2>2
  <2>3. CASE Owner
      BY <2>2, <2>3 DEF Owner, Stop, StartListenFails, StartReportsFailure,
             Start, StopCancels, StopClosesListener, StopClosesConns, StopWaits
  <2>4. CASE Maintain
      BY <2>2, <2>4 DEF Maintain, Dial, Watch, Wait, BeginDial, LoopEnds,
             DialFails, DialSucceeds, DialCancelled, DialFailed, DrainReconnect,
             Publish, WatchCancelled, WatchClosed, WatchReconnect, WatchBroken,
             WatchTick, KeepAliveReplies, KeepAliveFails, Unpublish, LinkClosed,
             WaitCancelled, WaitRetried, WaitElapsed, MaintainGoes,
             MaintainMoves, MaintainReturns
  <2>5. CASE Serve
      BY <2>2, <2>5 DEF Serve, Accept, Spawn, AcceptFails, AcceptAgain
  <2>6. CASE \E u \in Users : Reconnect(u)
      BY <2>2, <2>6 DEF Reconnect, ReconnectReadsStatus, ReconnectNotifies
  <2>7. CASE LinkChanges
      BY <2>2, <2>7 DEF LinkChanges
  <2> QED
      BY <2>1, <2>3, <2>4, <2>5, <2>6, <2>7 DEF Next
<1> QED
    BY <1>1, Invariance, PTL DEF Spec, VerdictIsFresh

-----------------------------------------------------------------------------
(* Tunnel implements TunnelService: the initial states map to initial      *)
(* states, and every step of the goroutines is a step of the service or    *)
(* invisible to it.                                                        *)

\* A tunnel that could not listen has no goroutines and never gets any.
DeafInv ==
    /\ opc = "new" => ~listenFail
    /\ opc = "listenFailed" => listenFail
    /\ listenFail => mpc = "off" /\ spc = "off" /\ wg = {}

\* Only the end of Stop sets StateStopped.
StoppedInv == state = "Stopped" => opc = "stopped"

\* A failure is remembered for requests that wait, as long as they do.
TriedInv == \A r \in tried : Waiting(r)

\* A client that is about to be offered is one that no request has.
NewLinkInv ==
    mpc \in {"dialed", "publish"} /\ exit # None =>
        \A r \in Requests : held[r] # exit

RInv == DeafInv /\ StoppedInv /\ TriedInv /\ NewLinkInv

-----------------------------------------------------------------------------
\* The tuples of variables are only abbreviations.
USE DEF vars, tunnelVars, chanVars, ownerVars, linkVars, handleVars, connVars,
        notOwner, notUser, notMaintain, notServe, notHandle

\* What the mapping needs beside IInv is kept by every step.
LEMMA RInvStep == IInv /\ RInv /\ [Next]_vars => RInv'
<1> SUFFICES ASSUME IInv, RInv, [Next]_vars PROVE RInv'
    OBVIOUS
<1> USE TunnelAssumption DEF IInv, TypeOK, Counted, OwnerDid, LinkOwned, RInv,
           DeafInv, StoppedInv, TriedInv, NewLinkInv, Waiting
<1>1. CASE Owner
  <2>1. CASE StartListenFails
      BY <2>1 DEF StartListenFails
  <2>2. CASE StartReportsFailure
      BY <2>2 DEF StartReportsFailure, SetState
  <2>3. CASE Start
      BY <2>3 DEF Start
  <2>4. CASE StopCancels
      BY <2>4 DEF StopCancels
  <2>5. CASE StopClosesListener
      BY <2>5 DEF StopClosesListener
  <2>6. CASE StopClosesConns
      BY <2>6 DEF StopClosesConns
  <2>7. CASE StopWaits
      BY <2>7 DEF StopWaits, SetState
  <2> QED
      BY <1>1, <2>1, <2>2, <2>3, <2>4, <2>5, <2>6, <2>7 DEF Owner, Stop
<1>2. CASE \E u \in Users : Reconnect(u)
    BY <1>2 DEF Reconnect, ReconnectReadsStatus, ReconnectNotifies
<1>3. CASE Maintain
  <2>1. CASE BeginDial
      BY <2>1 DEF BeginDial, MaintainGoes, SetState
  <2>2. CASE LoopEnds
      BY <2>2 DEF LoopEnds, MaintainReturns
  <2>3. CASE DialFails
      BY <2>3 DEF DialFails, MaintainGoes, MaintainMoves
  <2>4. CASE \E c \in Clients : DialSucceeds(c)
      BY <2>4 DEF DialSucceeds, MaintainGoes, Fresh
  <2>5. CASE DialCancelled
      BY <2>5 DEF DialCancelled, MaintainReturns, CloseClients
  <2>6. CASE DialFailed
      BY <2>6 DEF DialFailed, MaintainGoes, SetState
  <2>7. CASE DrainReconnect
      BY <2>7 DEF DrainReconnect, MaintainGoes
  <2>8. CASE Publish
      BY <2>8 DEF Publish, MaintainGoes, SetState
  <2>9. CASE WatchCancelled
      BY <2>9 DEF WatchCancelled, MaintainGoes, MaintainMoves
  <2>10. CASE WatchClosed
      BY <2>10 DEF WatchClosed, MaintainGoes, MaintainMoves
  <2>11. CASE WatchReconnect
      BY <2>11 DEF WatchReconnect, MaintainGoes
  <2>12. CASE WatchBroken
      BY <2>12 DEF WatchBroken, MaintainGoes
  <2>13. CASE WatchTick
      BY <2>13 DEF WatchTick, MaintainGoes, MaintainMoves
  <2>14. CASE KeepAliveReplies
      BY <2>14 DEF KeepAliveReplies, MaintainGoes, MaintainMoves
  <2>15. CASE KeepAliveFails
      BY <2>15 DEF KeepAliveFails, MaintainGoes, MaintainMoves
  <2>16. CASE Unpublish
      BY <2>16 DEF Unpublish, MaintainGoes, SetState
  <2>17. CASE LinkClosed
      BY <2>17 DEF LinkClosed, MaintainGoes, MaintainReturns, CloseClients
  <2>18. CASE WaitCancelled
      BY <2>18 DEF WaitCancelled, MaintainReturns
  <2>19. CASE WaitRetried
      BY <2>19 DEF WaitRetried, MaintainGoes
  <2>20. CASE WaitElapsed
      BY <2>20 DEF WaitElapsed, MaintainGoes, MaintainMoves
  <2> QED
      BY <1>3, <2>1, <2>2, <2>3, <2>4, <2>5, <2>6, <2>7, <2>8, <2>9, <2>10,
         <2>11, <2>12, <2>13, <2>14, <2>15, <2>16, <2>17, <2>18, <2>19, <2>20
          DEF Maintain, Dial, Watch, Wait
<1>4. CASE Serve
    BY <1>4 DEF Serve, Accept, Spawn, AcceptFails, AcceptAgain
<1>5. CASE \E r \in Requests : Handle(r)
  <2> PICK r \in Requests : Handle(r)
      BY <1>5
  <2>1. CASE Track(r)
      BY <2>1 DEF Track, HandlerGoes
  <2>2. CASE Handshake(r)
      BY <2>2 DEF Handshake, HandlerGoes, HandlerMoves
  <2>3. CASE SnapshotClient(r)
      BY <2>3 DEF SnapshotClient, HandlerGoes, DialLeaves
  <2>4. CASE SnapshotGivesUp(r)
      BY <2>4 DEF SnapshotGivesUp, HandlerGoes, DialLeaves
  <2>5. CASE SnapshotWaits(r)
      BY <2>5 DEF SnapshotWaits, HandlerGoes
  <2>6. CASE NotifyRetry(r)
      BY <2>6 DEF NotifyRetry, HandlerGoes
  <2>7. CASE Wake(r)
      BY <2>7 DEF Wake, HandlerGoes, HandlerMoves
  <2>8. CASE OpenAnswered(r)
      BY <2>8 DEF OpenAnswered, HandlerGoes, HandlerMoves
  <2>9. CASE OpenBroken(r) \/ OpenMalformed(r)
      BY <2>9 DEF OpenBroken, OpenMalformed, OpenFails, HandlerGoes
  <2>10. CASE Report(r)
      BY <2>10 DEF Report, HandlerGoes
  <2>11. CASE DialTimesOut(r)
      BY <2>11 DEF DialTimesOut, HandlerGoes, DialLeaves
  <2>12. CASE RelayEnds(r)
      BY <2>12 DEF RelayEnds, HandlerGoes, HandlerMoves
  <2>13. CASE HandlerReturns(r)
      BY <2>13 DEF HandlerReturns, HandlerGoes
  <2> QED
      BY <2>1, <2>2, <2>3, <2>4, <2>5, <2>6, <2>7, <2>8, <2>9, <2>10, <2>11,
         <2>12, <2>13 DEF Handle
<1>6. CASE LinkChanges
    BY <1>6 DEF LinkChanges
<1>7. CASE UNCHANGED vars
    BY <1>7
<1> QED
    BY <1>1, <1>2, <1>3, <1>4, <1>5, <1>6, <1>7 DEF Next

-----------------------------------------------------------------------------
\* The turn of a request under the mapping, read off the handler's position.
LEMMA TurnIs ==
    ASSUME TypeOK, NEW r \in Requests
    PROVE  /\ Turn(r) = "asking" <=> hpc[r] = "snapshot"
           /\ Turn(r) = "waiting" <=> hpc[r] \in {"notify", "sleep"}
           /\ Turn(r) = "served" <=> hpc[r] \in {"open", "report", "relay"}
           /\ Turn(r) = "leaving" <=> hpc[r] = "closing"
           /\ Turn(r) = "away" <=> hpc[r] \in {"idle", "accepted", "track",
                                               "handshake"}
    BY DEF Turn, TypeOK

\* The same after a step.
LEMMA TurnWillBe ==
    ASSUME TypeOK', NEW r \in Requests
    PROVE  /\ Turn(r)' = "asking" <=> hpc'[r] = "snapshot"
           /\ Turn(r)' = "waiting" <=> hpc'[r] \in {"notify", "sleep"}
           /\ Turn(r)' = "served" <=> hpc'[r] \in {"open", "report", "relay"}
           /\ Turn(r)' = "leaving" <=> hpc'[r] = "closing"
           /\ Turn(r)' = "away" <=> hpc'[r] \in {"idle", "accepted", "track",
                                                 "handshake"}
    BY DEF Turn, TypeOK

\* The phase of the port under the mapping.
LEMMA PhaseIs ==
    ASSUME TypeOK
    PROVE  /\ Phase = "new" <=> opc = "new"
           /\ Phase = "deaf" <=>
                opc = "listenFailed" \/ (opc = "running" /\ listenFail)
           /\ Phase = "open" <=> opc = "running" /\ ~listenFail
           /\ Phase = "stopping" <=> opc \in {"cancelled", "lnClosed",
                                              "waiting"}
           /\ Phase = "stopped" <=> opc = "stopped"
    BY DEF Phase, TypeOK

\* The same after a step.
LEMMA PhaseWillBe ==
    ASSUME TypeOK'
    PROVE  /\ Phase' = "new" <=> opc' = "new"
           /\ Phase' = "deaf" <=>
                opc' = "listenFailed" \/ (opc' = "running" /\ listenFail')
           /\ Phase' = "open" <=> opc' = "running" /\ ~listenFail'
           /\ Phase' = "stopping" <=> opc' \in {"cancelled", "lnClosed",
                                                "waiting"}
           /\ Phase' = "stopped" <=> opc' = "stopped"
    BY DEF Phase, TypeOK

Turning == [r \in Requests |-> Turn(r)]

\* A step of other goroutines does not turn a request.
LEMMA NobodyTurns ==
    ASSUME hpc' = hpc
    PROVE  Turning' = Turning
    BY DEF Turning, Turn

\* A step of one handler turns its own request at most.
LEMMA OneTurns ==
    ASSUME TypeOK, NEW r \in Requests, NEW to, hpc' = [hpc EXCEPT ![r] = to]
    PROVE  Turning' = [Turning EXCEPT ![r] = Turn(r)']
<1>1. \A q \in Requests : q # r => Turn(q)' = Turn(q)
    BY DEF Turn, TypeOK
<1> QED
    BY <1>1 DEF Turning

\* While a goroutine of the tunnel runs, its port is open or closing.
LEMMA RunsAlive ==
    ASSUME IInv, RInv, wg # {}
    PROVE  Phase \in {"open", "stopping"}
    BY PhaseIs DEF IInv, TypeOK, RInv, DeafInv, OwnerDid

-----------------------------------------------------------------------------
\* Every step of Tunnel is a step of the service or leaves what it shows alone.
LEMMA StepRefines ==
    ASSUME IInv, IInv', RInv, [Next]_vars
    PROVE  [Service!Next]_(Service!vars)
<1> DEFINE Unseen == UNCHANGED <<Phase, client, Turning, held, tried>>
<1>a. Unseen => [Service!Next]_(Service!vars)
    BY DEF Service!vars, Turning
<1>b. TypeOK /\ TypeOK'
    BY DEF IInv
<1>c. opc' = opc /\ listenFail' = listenFail => Phase' = Phase
    BY DEF Phase
<1>1. CASE Owner
  <2>a. Turning' = Turning /\ held' = held /\ tried' = tried
      BY <1>1, NobodyTurns DEF Owner, Stop, StartListenFails,
           StartReportsFailure, Start, StopCancels, StopClosesListener,
           StopClosesConns, StopWaits
  <2>b. opc \in {"new", "listenFailed"} \/ wg = {} => client = None
      BY DEF IInv, LinkOwned, OwnerDid, Counted
  <2>c. ASSUME client' = client,
               \/ Phase = "new" /\ Phase' \in {"open", "deaf"}
               \/ Phase \in {"open", "deaf"} /\ Phase' = "stopping"
        PROVE  Service!PhaseChanges
      BY <2>a, <2>c DEF Service!PhaseChanges, Turning
  <2>1. CASE StartListenFails
    <3>1. client' = client /\ Phase = "new" /\ Phase' = "deaf"
        BY <2>1, <1>b, PhaseIs, PhaseWillBe DEF StartListenFails
    <3> QED
        BY <3>1, <2>c DEF Service!Next
  <2>2. CASE StartReportsFailure
    <3>1. client' = client
        BY <2>2, <2>b DEF StartReportsFailure, SetState
    <3>2. Phase = "deaf" /\ Phase' = "deaf"
        BY <2>2, <1>b, PhaseIs, PhaseWillBe
           DEF StartReportsFailure, RInv, DeafInv
    <3> QED
        BY <1>a, <2>a, <3>1, <3>2
  <2>3. CASE Start
    <3>1. client' = client /\ Phase = "new" /\ Phase' = "open"
        BY <2>3, <1>b, PhaseIs, PhaseWillBe DEF Start, RInv, DeafInv
    <3> QED
        BY <3>1, <2>c DEF Service!Next
  <2>4. CASE StopCancels
    <3>1. client' = client /\ Phase \in {"open", "deaf"} /\ Phase' = "stopping"
        BY <2>4, <1>b, PhaseIs, PhaseWillBe DEF StopCancels, TypeOK
    <3> QED
        BY <3>1, <2>c DEF Service!Next
  <2>5. CASE StopClosesListener \/ StopClosesConns
    <3>1. client' = client /\ Phase = "stopping" /\ Phase' = "stopping"
        BY <2>5, <1>b, PhaseIs, PhaseWillBe
           DEF StopClosesListener, StopClosesConns
    <3> QED
        BY <1>a, <2>a, <3>1
  <2>6. CASE StopWaits
    <3>1. client = None /\ client' = None
        BY <2>6, <2>b DEF StopWaits, SetState
    <3>2. Phase = "stopping" /\ Phase' = "stopped"
        BY <2>6, <1>b, PhaseIs, PhaseWillBe DEF StopWaits
    <3>3. \A r \in Requests : Turn(r) = "away"
        BY <2>6, <1>b, TurnIs DEF StopWaits, IInv, Counted
    <3> QED
        BY <2>a, <3>1, <3>2, <3>3
           DEF Service!Next, Service!PhaseChanges, Turning
  <2> QED
      BY <1>1, <2>1, <2>2, <2>3, <2>4, <2>5, <2>6 DEF Owner, Stop
<1>2. CASE (\E u \in Users : Reconnect(u)) \/ Serve \/ LinkChanges
  <2>1. Phase' = Phase /\ client' = client /\ held' = held /\ tried' = tried
      BY <1>2, <1>c DEF Reconnect, ReconnectReadsStatus, ReconnectNotifies,
           Serve, Accept, Spawn, AcceptFails, AcceptAgain, LinkChanges
  <2>2. CASE hpc' = hpc
      BY <2>1, <2>2, <1>a, NobodyTurns
  <2>3. ASSUME NEW r \in Requests, NEW to \in {"accepted", "track"},
               hpc[r] \in {"idle", "accepted"}, hpc' = [hpc EXCEPT ![r] = to]
        PROVE  Turning' = Turning
    <3>1. hpc'[r] = to
        BY <2>3, <1>b DEF TypeOK
    <3>2. Turn(r) = "away" /\ Turn(r)' = "away"
        BY <2>3, <3>1, <1>b, TurnIs, TurnWillBe
    <3>3. Turning' = [Turning EXCEPT ![r] = Turn(r)']
        BY <2>3, <1>b, OneTurns
    <3> QED
        BY <3>2, <3>3 DEF Turning
  <2>4. CASE \E r \in Requests : Accept(r) \/ Spawn(r)
    <3> PICK r \in Requests : Accept(r) \/ Spawn(r)
        BY <2>4
    <3>1. Turning' = Turning
        BY <2>3 DEF Accept, Spawn
    <3> QED
        BY <2>1, <3>1, <1>a
  <2>5. hpc' = hpc \/ \E r \in Requests : Accept(r) \/ Spawn(r)
      BY <1>2 DEF Reconnect, ReconnectReadsStatus, ReconnectNotifies,
           Serve, AcceptFails, AcceptAgain, LinkChanges
  <2> QED
      BY <2>2, <2>4, <2>5
<1>3. CASE Maintain
  <2>a. Phase' = Phase
      BY <1>3, <1>c DEF Maintain, Dial, Watch, Wait, BeginDial, LoopEnds,
           DialFails, DialSucceeds, DialCancelled, DialFailed, DrainReconnect,
           Publish, WatchCancelled, WatchClosed, WatchReconnect, WatchBroken,
           WatchTick, KeepAliveReplies, KeepAliveFails, Unpublish, LinkClosed,
           WaitCancelled, WaitRetried, WaitElapsed, MaintainGoes,
           MaintainMoves, MaintainReturns
  <2>b. Turning' = Turning /\ held' = held
      BY <1>3, NobodyTurns DEF Maintain, Dial, Watch, Wait, BeginDial,
           LoopEnds, DialFails, DialSucceeds, DialCancelled, DialFailed,
           DrainReconnect, Publish, WatchCancelled, WatchClosed,
           WatchReconnect, WatchBroken, WatchTick, KeepAliveReplies,
           KeepAliveFails, Unpublish, LinkClosed, WaitCancelled, WaitRetried,
           WaitElapsed, MaintainGoes, MaintainMoves, MaintainReturns
  <2>c. mpc \notin {"off", "done"} => Phase \in {"open", "stopping"}
      BY RunsAlive DEF IInv, Counted
  <2>1. CASE BeginDial
    <3>1. client' = client /\ tried' = tried
        BY <2>1 DEF BeginDial, MaintainGoes, SetState, IInv, LinkOwned
    <3> QED
        BY <2>a, <2>b, <3>1, <1>a
  <2>2. CASE DialFailed
    <3>1. client = None /\ client' = None
        BY <2>2 DEF DialFailed, MaintainGoes, SetState, IInv, LinkOwned
    <3>2. Phase \in {"open", "stopping"}
        BY <2>2, <2>c DEF DialFailed, MaintainGoes
    <3>3. \A r \in Requests : Waiting(r) <=> Turn(r) \in {"asking", "waiting"}
        BY <1>b, TurnIs DEF Waiting
    <3>4. tried' = tried \cup {r \in Requests : Turn(r) \in {"asking", "waiting"}}
        BY <2>2, <3>3 DEF DialFailed
    <3>5. Service!Announce
        BY <2>a, <2>b, <3>1, <3>2, <3>4
           DEF Service!Announce, Service!Alive, Turning
    <3> QED
        BY <3>5 DEF Service!Next
  <2>3. CASE Publish
    <3>1. client = None /\ client' = exit /\ exit \in Clients /\ tried' = tried
        BY <2>3, <1>b
           DEF Publish, MaintainGoes, SetState, IInv, LinkOwned, TypeOK
    <3>2. \A r \in Requests : held[r] # exit
        BY <2>3 DEF Publish, MaintainGoes, IInv, LinkOwned, RInv, NewLinkInv
    <3>3. Phase \in {"open", "stopping"}
        BY <2>3, <2>c DEF Publish, MaintainGoes
    <3>4. Service!Offer(exit)
        BY <2>a, <2>b, <3>1, <3>2, <3>3
           DEF Service!Offer, Service!Alive, Turning
    <3> QED
        BY <3>1, <3>4 DEF Service!Next
  <2>4. CASE Unpublish
    <3>1. client # None /\ client' = None /\ tried' = tried
        BY <2>4 DEF Unpublish, MaintainGoes, SetState, IInv, LinkOwned
    <3>2. Service!Withdraw
        BY <2>a, <2>b, <3>1 DEF Service!Withdraw, Turning
    <3> QED
        BY <3>2 DEF Service!Next
  <2>5. CASE client' = client /\ tried' = tried
      BY <2>a, <2>b, <2>5, <1>a
  <2> QED
      BY <1>3, <2>1, <2>2, <2>3, <2>4, <2>5
         DEF Maintain, Dial, Watch, Wait, LoopEnds, DialFails, DialSucceeds,
             DialCancelled, DrainReconnect, WatchCancelled, WatchClosed,
             WatchReconnect, WatchBroken, WatchTick, KeepAliveReplies,
             KeepAliveFails, LinkClosed, WaitCancelled, WaitRetried,
             WaitElapsed, MaintainGoes, MaintainMoves, MaintainReturns
<1>4. CASE \E r \in Requests : Handle(r)
  <2> PICK r \in Requests : Handle(r)
      BY <1>4
  <2>a. Phase' = Phase /\ client' = client
      BY <1>c DEF Handle, Track, Handshake, SnapshotClient, SnapshotGivesUp,
           SnapshotWaits, NotifyRetry, Wake, OpenAnswered, OpenBroken,
           OpenMalformed, OpenFails, Report, DialTimesOut, RelayEnds,
           HandlerReturns, HandlerGoes, HandlerMoves, DialLeaves
  <2>b. ASSUME NEW from, NEW to, HandlerGoes(r, from, to)
        PROVE  /\ hpc[r] = from /\ hpc'[r] = to
               /\ Turning' = [Turning EXCEPT ![r] = Turn(r)']
    <3>1. hpc[r] = from /\ hpc' = [hpc EXCEPT ![r] = to]
        BY <2>b DEF HandlerGoes
    <3>2. hpc'[r] = to
        BY <3>1, <1>b DEF TypeOK
    <3> QED
        BY <3>1, <3>2, <1>b, OneTurns
  <2>c. ASSUME held' = held, tried' = tried,
               Turning' = [Turning EXCEPT ![r] = Turn(r)], Turn(r)' = Turn(r)
        PROVE  Unseen
      BY <2>a, <2>c DEF Turning
  <2>d. ASSUME NEW from, NEW to, HandlerMoves(r, from, to)
        PROVE  held' = held /\ tried' = tried
      BY <2>d DEF HandlerMoves
  <2>e. ~Waiting(r) => tried \ {r} = tried
      BY DEF RInv, TriedInv
  <2>f. hpc[r] \notin {"idle", "accepted"} => Phase \in {"open", "stopping"}
      BY RunsAlive DEF IInv, Counted
  <2>g. ASSUME NEW from, NEW to, HandlerGoes(r, from, to),
               held' = held, tried' = tried,
               \/ /\ from \in {"track", "handshake"}
                  /\ to \in {"idle", "handshake"}
               \/ from = "notify" /\ to = "sleep"
               \/ from = "open" /\ to \in {"report", "relay"}
        PROVE  Unseen
    <3>1. Turn(r)' = Turn(r)
        BY <2>b, <2>g, <1>b, TurnIs, TurnWillBe
    <3> QED
        BY <2>b, <2>c, <2>g, <3>1
  <2>h. ASSUME NEW from, NEW to, HandlerGoes(r, from, to),
               held' = held, tried' = tried \ {r}, to = "closing",
               from \in {"handshake", "open", "report", "relay"}
        PROVE  Service!Finish(r)
    <3>1. Turn(r)' = "leaving" /\ Turn(r) \in {"away", "served"}
        BY <2>b, <2>h, <1>b, TurnIs, TurnWillBe
    <3>2. Phase \in {"open", "stopping"}
        BY <2>b, <2>f, <2>h
    <3> QED
        BY <2>a, <2>b, <2>h, <3>1, <3>2
           DEF Service!Finish, Service!Turns, Service!Alive, Turning
  <2>i. Service!Request(r) => Service!Next
      BY DEF Service!Next
  <2>1. CASE Track(r)
      BY <2>1, <2>g, <1>a DEF Track
  <2>2. CASE Handshake(r)
    <3>1. CASE HandlerMoves(r, "handshake", "snapshot")
      <4>1. HandlerGoes(r, "handshake", "snapshot") /\ held' = held
               /\ tried' = tried
          BY <3>1 DEF HandlerMoves
      <4>2. Turn(r) = "away" /\ Turn(r)' = "asking"
          BY <4>1, <2>b, <1>b, TurnIs, TurnWillBe
      <4>3. Phase \in {"open", "stopping"}
          BY <4>1, <2>b, <2>f
      <4>4. Service!Ask(r)
          BY <4>1, <4>2, <4>3, <2>a, <2>b
             DEF Service!Ask, Service!Turns, Service!Alive, Turning
      <4> QED
          BY <4>4, <2>i DEF Service!Request
    <3>2. CASE HandlerMoves(r, "handshake", "closing")
      <4>1. HandlerGoes(r, "handshake", "closing") /\ held' = held
               /\ tried' = tried
          BY <3>2 DEF HandlerMoves
      <4>2. Service!Finish(r)
          BY <4>1, <2>b, <2>e, <2>h DEF Waiting
      <4> QED
          BY <4>2, <2>i DEF Service!Request
    <3> QED
        BY <2>2, <3>1, <3>2 DEF Handshake
  <2>3. CASE SnapshotClient(r)
    <3>1. /\ HandlerGoes(r, "snapshot", "open") /\ client # None
          /\ held' = [held EXCEPT ![r] = client] /\ tried' = tried \ {r}
        BY <2>3 DEF SnapshotClient, DialLeaves
    <3>2. Turn(r) = "asking" /\ Turn(r)' = "served"
        BY <3>1, <2>b, <1>b, TurnIs, TurnWillBe
    <3>3. Service!Serve(r)
        BY <3>1, <3>2, <2>a, <2>b DEF Service!Serve, Service!Turns, Turning
    <3> QED
        BY <3>3, <2>i DEF Service!Request
  <2>4. CASE SnapshotGivesUp(r)
    <3>1. /\ HandlerGoes(r, "snapshot", "closing") /\ client = None
          /\ held' = held /\ tried' = tried \ {r}
          /\ state = "Stopped" \/ (state = "Failed" /\ r \in attempted)
        BY <2>4 DEF SnapshotGivesUp, DialLeaves
    <3>2. Turn(r) = "asking" /\ Turn(r)' = "leaving"
        BY <3>1, <2>b, <1>b, TurnIs, TurnWillBe
    <3>3. state # "Stopped"
        BY <3>1, <2>b DEF RInv, StoppedInv, IInv, OwnerDid, Counted
    <3>4. r \in tried
        BY <3>1, <3>3 DEF IInv, AttemptInv
    <3>5. Service!Refuse(r)
        BY <3>1, <3>2, <3>4, <2>a, <2>b
           DEF Service!Refuse, Service!Turns, Turning
    <3> QED
        BY <3>5, <2>i DEF Service!Request
  <2>5. CASE SnapshotWaits(r)
    <3>1. PICK to \in {"notify", "sleep"} :
            /\ HandlerGoes(r, "snapshot", to) /\ client = None
            /\ held' = held /\ tried' = tried
        BY <2>5 DEF SnapshotWaits
    <3>2. Turn(r) = "asking" /\ Turn(r)' = "waiting"
        BY <3>1, <2>b, <1>b, TurnIs, TurnWillBe
    <3>3. Service!Wait(r)
        BY <3>1, <3>2, <2>a, <2>b DEF Service!Wait, Service!Turns, Turning
    <3> QED
        BY <3>3, <2>i DEF Service!Request
  <2>6. CASE NotifyRetry(r)
      BY <2>6, <2>g, <1>a DEF NotifyRetry
  <2>7. CASE Wake(r)
    <3>1. HandlerGoes(r, "sleep", "snapshot") /\ held' = held
             /\ tried' = tried
        BY <2>7 DEF Wake, HandlerMoves
    <3>2. Turn(r) = "waiting" /\ Turn(r)' = "asking"
        BY <3>1, <2>b, <1>b, TurnIs, TurnWillBe
    <3>3. Service!Wake(r)
        BY <3>1, <3>2, <2>a, <2>b DEF Service!Wake, Service!Turns, Turning
    <3> QED
        BY <3>3, <2>i DEF Service!Request
  <2>8. CASE \/ OpenAnswered(r) \/ OpenBroken(r) \/ OpenMalformed(r)
             \/ Report(r) \/ RelayEnds(r)
    <3>1. PICK from \in {"open", "report", "relay"},
               to \in {"relay", "closing", "report"} :
            /\ HandlerGoes(r, from, to) /\ held' = held /\ tried' = tried
            /\ to # "closing" => from = "open"
        BY <2>8 DEF OpenAnswered, OpenBroken, OpenMalformed, OpenFails, Report,
                    RelayEnds, HandlerMoves
    <3>2. CASE to = "closing"
      <4>1. Service!Finish(r)
          BY <3>1, <3>2, <2>b, <2>e, <2>h DEF Waiting
      <4> QED
          BY <4>1, <2>i DEF Service!Request
    <3>3. CASE to # "closing"
        BY <3>1, <3>3, <2>g, <1>a
    <3> QED
        BY <3>2, <3>3
  <2>9. CASE DialTimesOut(r)
    <3>1. CASE DialLeaves(r, "sleep", "closing")
      <4>1. HandlerGoes(r, "sleep", "closing") /\ held' = held
               /\ tried' = tried \ {r}
          BY <2>9, <3>1 DEF DialTimesOut, DialLeaves
      <4>2. Turn(r) = "waiting" /\ Turn(r)' = "leaving"
          BY <4>1, <2>b, <1>b, TurnIs, TurnWillBe
      <4>3. Service!GiveUp(r)
          BY <4>1, <4>2, <2>a, <2>b
             DEF Service!GiveUp, Service!Turns, Turning
      <4> QED
          BY <4>3, <2>i DEF Service!Request
    <3>2. CASE DialLeaves(r, "open", "closing")
      <4>1. HandlerGoes(r, "open", "closing") /\ held' = held
               /\ tried' = tried \ {r}
          BY <2>9, <3>2 DEF DialTimesOut, DialLeaves
      <4>2. Service!Finish(r)
          BY <4>1, <2>h
      <4> QED
          BY <4>2, <2>i DEF Service!Request
    <3> QED
        BY <2>9, <3>1, <3>2 DEF DialTimesOut
  <2>10. CASE HandlerReturns(r)
    <3>1. /\ HandlerGoes(r, "closing", "idle")
          /\ held' = [held EXCEPT ![r] = None] /\ tried' = tried
        BY <2>10 DEF HandlerReturns
    <3>2. Turn(r) = "leaving" /\ Turn(r)' = "away"
        BY <3>1, <2>b, <1>b, TurnIs, TurnWillBe
    <3>3. Service!Leave(r)
        BY <3>1, <3>2, <2>a, <2>b DEF Service!Leave, Service!Turns, Turning
    <3> QED
        BY <3>3, <2>i DEF Service!Request
  <2> QED
      BY <2>1, <2>2, <2>3, <2>4, <2>5, <2>6, <2>7, <2>8, <2>9, <2>10
         DEF Handle
<1>5. CASE UNCHANGED vars
    BY <1>5, <1>a, <1>c, NobodyTurns
<1> QED
    BY <1>1, <1>2, <1>3, <1>4, <1>5 DEF Next

\* Tunnel, with all its goroutines, implements the atomic service of
\* TunnelService (waitClient, maintain, serve and Stop in tunnel.go).
THEOREM TunnelImplementsService == Spec => ImplementsService
<1>1. Init => RInv
    BY DEF Init, RInv, DeafInv, StoppedInv, TriedInv, NewLinkInv
<1>2. Init => Service!Init
  <2> SUFFICES ASSUME Init PROVE Service!Init
      OBVIOUS
  <2>1. TypeOK
      BY DEF Init, TypeOK
  <2>2. Phase = "new"
      BY <2>1, PhaseIs DEF Init
  <2>3. \A r \in Requests : Turn(r) = "away"
      BY <2>1, TurnIs DEF Init
  <2> QED
      BY <2>2, <2>3 DEF Init, Service!Init
<1>3. Spec => []RInv
    BY <1>1, RInvStep, Invariance, PTL DEF Spec
<1> QED
    BY <1>2, <1>3, StepRefines, Invariance, PTL
       DEF Spec, ImplementsService, Service!Spec

=============================================================================
