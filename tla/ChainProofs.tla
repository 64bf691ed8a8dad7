----------------------------- MODULE ChainProofs -----------------------------
(***************************************************************************)
(* Proofs about Chain for a chain of any length.  The invariant says, for  *)
(* each place dialChain can be in, which connections are open and who is   *)
(* going to close them.                                                    *)
(***************************************************************************)
EXTENDS Chain, TLAPS

\* While the chain grows, exactly the hops that are done are connected.
Growing ==
    /\ pc \in {"config", "listing", "dial", "handshake", "signing", "stop"} =>
          /\ fate = "none"
          /\ \A i \in Hops : i < hop => conn[i] = "open"
    /\ \A i \in Hops : i > hop => conn[i] = "none"

\* The AfterFunc of a hop exists from its connection to stop().
AfterInv ==
    /\ pc \in {"config", "listing", "dial"} =>
          after \in {"none", "stopped"} /\ conn[hop] = "none"
    /\ pc \in {"handshake", "signing", "stop"} =>
          /\ after \in {"armed", "fired", "ran"}
          /\ conn[hop] = IF after = "ran" THEN "closed" ELSE "open"
    /\ pc \in {"closing", "returned"} => after # "armed" /\ ~agent
    /\ after = "fired" => conn[hop] # "none"

\* What is still open has somebody to close it.
ClosingInv ==
    /\ pc = "closing" =>
          /\ fate \in {"none", "over"}
          /\ \A i \in 1 .. top : conn[i] # "none"
          /\ \A i \in Hops :
                conn[i] = "open" => i <= top \/ (i = hop /\ after = "fired")
    /\ pc = "returned" => fate # "none"
    /\ fate = "ok" =>
          /\ pc = "returned"
          /\ after = "stopped"
          /\ \A i \in Hops : conn[i] = "open"
    /\ fate = "over" => after = "stopped"
    /\ pc = "returned" /\ fate # "ok" =>
          \A i \in Hops : conn[i] = "open" => i = hop /\ after = "fired"

IInv == TypeOK /\ Growing /\ AfterInv /\ ClosingInv

\* Every variable stays in its type.
LEMMA TypeStep == TypeOK /\ [Next]_vars => TypeOK'
<1> SUFFICES ASSUME TypeOK, [Next]_vars PROVE TypeOK'
    OBVIOUS
<1> USE ChainAssumption DEF TypeOK, Hops, vars
<1>1. CASE Configure
    BY <1>1 DEF Configure
<1>2. CASE ConfigFails
  <2>1. agent' \in BOOLEAN
      BY <1>2 DEF ConfigFails, DialHopFails
  <2> QED
      BY <1>2, <2>1 DEF ConfigFails, DialHopFails
<1>3. CASE AgentLists
  <2>1. CASE pc' = "dial"
      BY <1>3, <2>1 DEF AgentLists, DialHopFails
  <2>2. CASE DialHopFails /\ UNCHANGED <<after, conn>>
    <3>1. agent' \in BOOLEAN
        BY <2>2 DEF DialHopFails
    <3> QED
        BY <2>2, <3>1 DEF DialHopFails
  <2> QED
      BY <1>3, <2>1, <2>2 DEF AgentLists
<1>4. CASE DialOpens
    BY <1>4 DEF DialOpens
<1>5. CASE DialFails
  <2>1. agent' \in BOOLEAN
      BY <1>5 DEF DialFails, DialHopFails
  <2> QED
      BY <1>5, <2>1 DEF DialFails, DialHopFails
<1>6. CASE AgentAsked
    BY <1>6 DEF AgentAsked
<1>7. CASE AgentSigns
    BY <1>7 DEF AgentSigns
<1>8. CASE \E result \in {"ok", "error"} : HandshakeReturns(result)
    BY <1>8 DEF HandshakeReturns
<1>9. CASE HopSucceeds
  <2>1. agent' \in BOOLEAN
      BY <1>9 DEF HopSucceeds
  <2>2. timedOut' \in BOOLEAN
      BY <1>9 DEF HopSucceeds
  <2> QED
      BY <1>9, <2>1, <2>2 DEF HopSucceeds
<1>10. CASE HandshakeFailed
  <2>1. agent' \in BOOLEAN
      BY <1>10 DEF HandshakeFailed, DialHopFails
  <2> QED
      BY <1>10, <2>1 DEF HandshakeFailed, DialHopFails
<1>11. CASE StopTooLate
  <2>1. agent' \in BOOLEAN
      BY <1>11 DEF StopTooLate, DialHopFails
  <2> QED
      BY <1>11, <2>1 DEF StopTooLate, DialHopFails
<1>12. CASE CloseNext
    BY <1>12 DEF CloseNext
<1>13. CASE AllClosed
    BY <1>13 DEF AllClosed
<1>14. CASE AfterFires
    BY <1>14 DEF AfterFires
<1>15. CASE AfterCloses
    BY <1>15 DEF AfterCloses
<1>16. CASE Abandon
    BY <1>16 DEF Abandon
<1>17. CASE Cancel
    BY <1>17 DEF Cancel
<1>18. CASE HopTimesOut
    BY <1>18 DEF HopTimesOut
<1>19. CASE Lose
    BY <1>19 DEF Lose
<1>20. CASE UNCHANGED vars
    BY <1>20
<1> QED
    BY <1>1, <1>2, <1>3, <1>4, <1>5, <1>6, <1>7, <1>8, <1>9, <1>10,
       <1>11, <1>12, <1>13, <1>14, <1>15, <1>16, <1>17, <1>18, <1>19, <1>20
       DEF Next, Program, Agent

\* The places of dialChain and the connections it is answerable for.
LEMMA StateStep ==
    IInv /\ [Next]_vars => Growing' /\ AfterInv' /\ ClosingInv'
<1> SUFFICES ASSUME IInv, [Next]_vars PROVE Growing' /\ AfterInv' /\ ClosingInv'
    OBVIOUS
<1> USE ChainAssumption DEF IInv, TypeOK, Growing, AfterInv, ClosingInv, Hops,
        vars
<1>1. CASE Configure
    BY <1>1 DEF Configure
<1>2. CASE ConfigFails
    BY <1>2 DEF ConfigFails, DialHopFails
<1>3. CASE AgentLists
    BY <1>3 DEF AgentLists, DialHopFails
<1>4. CASE DialOpens
    BY <1>4 DEF DialOpens
<1>5. CASE DialFails
    BY <1>5 DEF DialFails, DialHopFails
<1>6. CASE AgentAsked
    BY <1>6 DEF AgentAsked
<1>7. CASE AgentSigns
    BY <1>7 DEF AgentSigns
<1>8. CASE \E result \in {"ok", "error"} : HandshakeReturns(result)
    BY <1>8 DEF HandshakeReturns
<1>9. CASE HopSucceeds
    BY <1>9 DEF HopSucceeds
<1>10. CASE HandshakeFailed
    BY <1>10 DEF HandshakeFailed, DialHopFails
<1>11. CASE StopTooLate
    BY <1>11 DEF StopTooLate, DialHopFails
<1>12. CASE CloseNext
  <2>1. top \in 1 .. N /\ top' \in 0 .. top /\ top' = top - 1
      BY <1>12 DEF CloseNext
  <2>2. Growing'
      BY <1>12, <2>1 DEF CloseNext
  <2>3. AfterInv'
      BY <1>12, <2>1 DEF CloseNext
  <2>4. ClosingInv'
      BY <1>12, <2>1 DEF CloseNext
  <2> QED
      BY <2>2, <2>3, <2>4
<1>13. CASE AllClosed
    BY <1>13 DEF AllClosed
<1>14. CASE AfterFires
    BY <1>14 DEF AfterFires
<1>15. CASE AfterCloses
    BY <1>15 DEF AfterCloses
<1>16. CASE Abandon
    BY <1>16 DEF Abandon
<1>17. CASE Cancel
    BY <1>17 DEF Cancel
<1>18. CASE HopTimesOut
    BY <1>18 DEF HopTimesOut
<1>19. CASE Lose
    BY <1>19 DEF Lose
<1>20. CASE UNCHANGED vars
    BY <1>20
<1> QED
    BY <1>1, <1>2, <1>3, <1>4, <1>5, <1>6, <1>7, <1>8, <1>9, <1>10,
       <1>11, <1>12, <1>13, <1>14, <1>15, <1>16, <1>17, <1>18, <1>19, <1>20
       DEF Next, Program, Agent

LEMMA Invariance == Spec => []IInv
<1>1. Init => IInv
  <2>1. ASSUME Init PROVE TypeOK
    <3>1. ctxDone \in BOOLEAN /\ timedOut \in BOOLEAN /\ agent \in BOOLEAN
        BY <2>1 DEF Init
    <3> QED
        BY <2>1, <3>1, ChainAssumption DEF Init, TypeOK, Hops
  <2>2. Init => Growing /\ AfterInv /\ ClosingInv
      BY ChainAssumption DEF Init, Growing, AfterInv, ClosingInv, Hops
  <2> QED
      BY <2>1, <2>2 DEF IInv
<1>2. IInv /\ [Next]_vars => IInv'
    BY TypeStep, StateStep DEF IInv
<1> QED
    BY <1>1, <1>2, PTL DEF Spec

\* The variables have their types whatever the length of the chain.
THEOREM TypeCorrect == Spec => []TypeOK
<1>1. IInv => TypeOK
    BY DEF IInv
<1> QED
    BY <1>1, Invariance, PTL

\* dialChain leaves no connection behind when it fails, closeClients none
\* when maintain is done (sshconn.go:374, 407 and 419).
THEOREM NothingLeaks == Spec => []NoLeak
<1>1. IInv => NoLeak
    BY DEF IInv, AfterInv, ClosingInv, NoLeak
<1> QED
    BY <1>1, Invariance, PTL

\* No AfterFunc outlives its hop to close a connection of a finished chain
\* (stop() in dialHop, sshconn.go:409).
THEOREM HandedOutChainIsOpen == Spec => []HandedOutStaysOpen
<1>1. IInv => HandedOutStaysOpen
    BY DEF IInv, ClosingInv, HandedOutStaysOpen
<1> QED
    BY <1>1, Invariance, PTL

-----------------------------------------------------------------------------
(* Chain implements DialService.                                           *)

\* Every step of dialChain, of its timers and of closeClients is one of the
\* service or none.
LEMMA StepRefines ==
    IInv /\ [Next]_vars => [Service!Next]_(Service!vars)
<1> SUFFICES ASSUME IInv, [Next]_vars
             PROVE  [Service!Next]_(Service!vars)
    OBVIOUS
<1> USE ChainAssumption DEF Hops
<1> DEFINE open == {i \in Hops : conn[i] = "open"}
<1>a. /\ hop \in Hops /\ top \in 0 .. N /\ conn \in [Hops -> {"none", "open", "closed"}]
      /\ fate \in {"none", "error", "ok", "over"}
    BY DEF IInv, TypeOK
<1>b. ASSUME UNCHANGED <<conn, hop, fate>>, pc' = pc \/ fate # "over"
      PROVE  UNCHANGED Service!vars
  <2>1. Made' = Made /\ open' = open
      BY <1>b DEF Made
  <2>2. Phase' = Phase
    <3>1. CASE pc' = pc
        BY <1>b, <3>1 DEF Phase
    <3>2. CASE fate # "over"
        BY <1>a, <1>b, <3>2 DEF Phase
    <3> QED
        BY <1>b, <3>1, <3>2
  <2> QED
      BY <2>1, <2>2 DEF Service!vars
<1>c. pc \in {"config", "listing", "dial", "handshake", "signing", "stop"} =>
          fate = "none"
    BY DEF IInv, Growing
<1>d. \A i \in Hops : i > hop => conn[i] = "none"
    BY DEF IInv, Growing
<1>e. ASSUME fate \in {"none", "error"}, UNCHANGED <<fate, hop>>,
             conn[hop] # "none", conn' = [conn EXCEPT ![hop] = "closed"]
      PROVE  [Service!Next]_(Service!vars)
  <2>1. Made = hop /\ Made' = hop
      BY <1>a, <1>e DEF Made
  <2>2. Phase' = Phase /\ Phase \in {"dialling", "failed"}
      BY <1>e DEF Phase
  <2>3. open' = open \ {hop}
      BY <1>a, <1>e
  <2>4. CASE hop \in open
    <3>1. \A j \in open : ~(j > hop)
        BY <1>d
    <3> QED
        BY <2>1, <2>2, <2>3, <2>4, <3>1 DEF Service!Next, Service!Disconnect
  <2>5. CASE hop \notin open
    <3>1. open' = open
        BY <2>3, <2>5
    <3> QED
        BY <2>1, <2>2, <3>1 DEF Service!vars
  <2> QED
      BY <2>4, <2>5
<1>1. CASE DialOpens
  <2>1. fate = "none" /\ fate' = "none" /\ Made = hop - 1 /\ Made' = hop
      BY <1>1, <1>a, <1>c DEF DialOpens, Made, IInv, AfterInv
  <2>2. \A i \in 1 .. hop - 1 : conn[i] = "open"
      BY <1>1 DEF DialOpens, Alive
  <2>3. conn[hop] = "none" /\ conn' = [conn EXCEPT ![hop] = "open"]
      BY <1>1 DEF DialOpens, IInv, AfterInv
  <2>4. open = 1 .. hop - 1
      BY <2>2, <2>3, <1>a, <1>d
  <2>5. open' = open \cup {hop}
      BY <2>3, <1>a
  <2>6. Phase = "dialling" /\ Phase' = "dialling"
      BY <2>1 DEF Phase
  <2> QED
      BY <2>1, <2>4, <2>5, <2>6, <1>a DEF Service!Next, Service!Connect
<1>2. CASE HopSucceeds
  <2>1. fate = "none" /\ conn[hop] = "open"
      BY <1>2, <1>c DEF HopSucceeds, IInv, AfterInv
  <2>2. open' = open
      BY <1>2 DEF HopSucceeds
  <2>3. Phase = "dialling"
      BY <2>1 DEF Phase
  <2>4. CASE hop < N /\ hop' = hop + 1 /\ fate' = fate
    <3>1. Made' = Made
        BY <1>2, <2>1, <2>4, <1>a, <1>d DEF HopSucceeds, Made
    <3>2. Phase' = Phase
        BY <2>1, <2>4 DEF Phase
    <3> QED
        BY <2>2, <3>1, <3>2 DEF Service!vars
  <2>5. CASE hop = N /\ fate' = "ok" /\ hop' = hop
    <3>1. Made' = Made
        BY <1>2, <2>5 DEF HopSucceeds, Made
    <3>2. open = 1 .. N
        BY <1>2, <2>1, <2>5, <1>a DEF HopSucceeds, IInv, Growing
    <3>3. Phase' = "up"
        BY <2>5 DEF Phase
    <3> QED
        BY <2>2, <2>3, <3>1, <3>2, <3>3 DEF Service!Next, Service!HandOut
  <2> QED
      BY <1>2, <2>4, <2>5 DEF HopSucceeds
<1>f. pc \in {"handshake", "signing", "stop"} => conn[hop] # "none"
    BY DEF IInv, AfterInv
<1>3. CASE HandshakeFailed
    BY <1>3, <1>c, <1>e, <1>f DEF HandshakeFailed, DialHopFails
<1>4. CASE StopTooLate
  <2>1. CASE handshake = "ok"
      BY <1>4, <2>1, <1>c, <1>e, <1>f DEF StopTooLate, DialHopFails
  <2>2. CASE handshake # "ok"
      BY <1>4, <2>2, <1>b, <1>c DEF StopTooLate, DialHopFails
  <2> QED
      BY <2>1, <2>2
<1>5. CASE AfterCloses
  <2>1. fate \in {"none", "error"} /\ conn[hop] # "none"
      BY <1>5, <1>a DEF AfterCloses, IInv, AfterInv, ClosingInv
  <2> QED
      BY <1>5, <1>e, <2>1 DEF AfterCloses
<1>6. CASE CloseNext
  <2>1. /\ pc = "closing" /\ top \in 1 .. N
        /\ UNCHANGED <<fate, hop, pc>>
        /\ conn' = [conn EXCEPT ![top] = "closed"]
      BY <1>6, <1>a DEF CloseNext
  <2>2. open' = open \ {top}
      BY <2>1, <1>a
  <2>3. fate \in {"none", "over"}
      BY <2>1 DEF IInv, ClosingInv
  <2>4. Phase' = Phase /\ Phase = IF fate = "none" THEN "dialling" ELSE "closing"
      BY <2>1, <2>3 DEF Phase
  <2>5. conn[top] # "none" => Made' = Made
      BY <2>1, <1>a DEF Made
  <2>6. \A j \in open : j > top => j = hop /\ after = "fired"
      BY <2>1, <1>a DEF IInv, ClosingInv
  <2>7. \A j \in open : j > top => fate = "none" /\ j = Made
      BY <2>3, <2>6 DEF IInv, ClosingInv, Made
  <2>8. CASE conn[top] = "open"
      BY <2>1, <2>2, <2>3, <2>4, <2>5, <2>7, <2>8
         DEF Service!Next, Service!Disconnect
  <2>9. CASE conn[top] = "closed"
      BY <2>1, <2>2, <2>4, <2>5, <2>9 DEF Service!vars
  <2>10. conn[top] # "none"
      BY <2>1 DEF IInv, ClosingInv
  <2> QED
      BY <2>1, <2>8, <2>9, <2>10, <1>a
<1>7. CASE AllClosed
  <2>1. UNCHANGED <<conn, hop>>
      BY <1>7 DEF AllClosed
  <2>2. Made' = Made /\ open' = open
      BY <2>1 DEF Made
  <2>3. CASE fate = "none"
    <3>1. open \subseteq {Made}
        BY <1>7, <1>a, <2>3 DEF AllClosed, IInv, ClosingInv, Made
    <3>2. Phase = "dialling" /\ Phase' = "failed"
        BY <1>7, <2>3 DEF AllClosed, Phase
    <3> QED
        BY <2>2, <3>1, <3>2 DEF Service!Next, Service!Fail
  <2>4. CASE fate = "over"
    <3>1. open = {}
        BY <1>7, <1>a, <2>4 DEF AllClosed, IInv, ClosingInv
    <3>2. Phase = "closing" /\ Phase' = "closed"
        BY <1>7, <2>4 DEF AllClosed, Phase
    <3> QED
        BY <2>2, <3>1, <3>2 DEF Service!Next, Service!Close
  <2> QED
      BY <1>7, <2>3, <2>4 DEF AllClosed, IInv, ClosingInv
<1>8. CASE Abandon
  <2>1. Made' = Made /\ open' = open
      BY <1>8 DEF Abandon, Made
  <2>2. Phase = "up" /\ Phase' = "closing"
      BY <1>8 DEF Abandon, Phase
  <2> QED
      BY <2>1, <2>2 DEF Service!Next, Service!GiveUp
<1>9. CASE Configure \/ AgentLists \/ ConfigFails \/ DialFails
    BY <1>9, <1>b, <1>c
       DEF Configure, AgentLists, ConfigFails, DialFails, DialHopFails
<1>10. CASE \/ AgentAsked \/ AgentSigns
            \/ \E result \in {"ok", "error"} : HandshakeReturns(result)
    BY <1>10, <1>b, <1>c DEF AgentAsked, AgentSigns, HandshakeReturns
<1>11. CASE AfterFires \/ Cancel \/ HopTimesOut \/ Lose \/ UNCHANGED vars
    BY <1>11, <1>b DEF AfterFires, Cancel, HopTimesOut, Lose, vars
<1> QED
    BY <1>1, <1>2, <1>3, <1>4, <1>5, <1>6, <1>7, <1>8, <1>9, <1>10, <1>11
       DEF Next, Program, Agent

\* Chain implements the service maintain counts on: all of a chain or an error,
\* nothing half made, and nothing taken out of a chain that is in use
\* (dialChain, dialHop and closeClients, sshconn.go:365-428).
THEOREM ChainImplementsDial == Spec => ImplementsDial
<1>1. Init => Service!Init
  <2> SUFFICES ASSUME Init PROVE Service!Init
      OBVIOUS
  <2>1. Phase = "dialling"
      BY DEF Init, Phase
  <2>2. Made = 0 /\ {i \in Hops : conn[i] = "open"} = {}
      BY ChainAssumption DEF Init, Made, Hops
  <2> QED
      BY <2>1, <2>2 DEF Service!Init
<1> QED
    BY <1>1, StepRefines, Invariance, PTL DEF Spec, ImplementsDial, Service!Spec

=============================================================================
