-------------------------------- MODULE Chain --------------------------------
(***************************************************************************)
(* Building one chain of SSH connections and taking it down: dialChain,    *)
(* dialHop, closeClients and the use of the ssh-agent in clientConfig      *)
(* (sshconn.go).  Hop i runs over hop i-1.  While a handshake runs, the    *)
(* goroutine of context.AfterFunc may close the connection under it.       *)
(***************************************************************************)
EXTENDS Naturals

CONSTANT N      \* servers in the chain

ASSUME ChainAssumption == N \in Nat \ {0}

Hops == 1 .. N

VARIABLES
    ctxDone,    \* the tunnel's context is cancelled
    timedOut,   \* the hopTimeout of the current hop has passed
    hop,        \* the server being dialled
    pc,
    handshake,  \* what NewClientConn returned: "none", "ok" or "error"
    after,      \* the AfterFunc of this hop: "none", "armed", "stopped",
                \* "fired" (its goroutine runs) or "ran"
    conn,       \* conn[i]: "none", "open" or "closed" by this program
    lost,       \* the connections that no longer carry anything
    agent,      \* the pipe to the ssh-agent is open
    top,        \* closeClients has yet to close the clients 1 .. top
    fate        \* dialChain's result: "none", "error", "ok", or "over" when
                \* maintain has closed what it was given

vars == <<ctxDone, timedOut, hop, pc, handshake, after, conn, lost, agent,
          top, fate>>

TypeOK ==
    /\ ctxDone \in BOOLEAN
    /\ timedOut \in BOOLEAN
    /\ hop \in Hops
    /\ pc \in {"config", "listing", "dial", "handshake", "signing", "stop",
               "closing", "returned"}
    /\ handshake \in {"none", "ok", "error"}
    /\ after \in {"none", "armed", "stopped", "fired", "ran"}
    /\ conn \in [Hops -> {"none", "open", "closed"}]
    /\ lost \subseteq Hops
    /\ agent \in BOOLEAN
    /\ top \in 0 .. N
    /\ fate \in {"none", "error", "ok", "over"}

Init ==
    /\ ctxDone = FALSE
    /\ timedOut = FALSE
    /\ hop = 1
    /\ pc = "config"
    /\ handshake = "none"
    /\ after = "none"
    /\ conn = [i \in Hops |-> "none"]
    /\ lost = {}
    /\ agent = FALSE
    /\ top = 0
    /\ fate = "none"

\* Broken variant: the hop has no timer of its own.
HopCtxCancelled == ctxDone

HopCtxDone == ctxDone \/ timedOut

\* Traffic passes through the first i hops.
Alive(i) == \A j \in 1 .. i : conn[j] = "open" /\ j \notin lost

\* dialHop returns an error: its deferred cleanup closes the agent's pipe,
\* and dialChain closes the clients it has, from the last to the first.
DialHopFails ==
    /\ pc' = "closing"
    /\ top' = hop - 1
    /\ agent' = FALSE
    /\ UNCHANGED <<ctxDone, timedOut, hop, handshake, lost, fate>>

-----------------------------------------------------------------------------
(* clientConfig *)

\* The keys of the configuration are read, or the agent is asked first.
Configure ==
    /\ pc = "config"
    /\ \E a \in BOOLEAN :
        /\ agent' = a
        /\ pc' = IF a THEN "listing" ELSE "dial"
    /\ UNCHANGED <<ctxDone, timedOut, hop, handshake, after, conn, lost, top,
                   fate>>

\* A key cannot be read, or there is no way to log in.
ConfigFails ==
    /\ pc = "config"
    /\ DialHopFails
    /\ UNCHANGED <<after, conn>>

\* The agent lists its keys, which may be none that can be used.
AgentLists ==
    /\ pc = "listing"
    /\ \/ /\ pc' = "dial"
          /\ UNCHANGED <<ctxDone, timedOut, hop, handshake, lost, agent, top, fate>>
       \/ DialHopFails
    /\ UNCHANGED <<after, conn>>

-----------------------------------------------------------------------------
(* dialHop *)

\* The connection is there; context.AfterFunc will close it when the context
\* of the hop ends.
DialOpens ==
    /\ pc = "dial"
    /\ ~HopCtxDone
    /\ Alive(hop - 1)
    /\ conn' = [conn EXCEPT ![hop] = "open"]
    /\ after' = "armed"
    /\ pc' = "handshake"
    /\ UNCHANGED <<ctxDone, timedOut, hop, handshake, lost, agent, top, fate>>

DialFails ==
    /\ pc = "dial"
    /\ DialHopFails
    /\ UNCHANGED <<after, conn>>

\* The server takes one of the agent's keys; NewClientConn asks the agent for
\* a signature and waits for it, whatever happens to the connection.
AgentAsked ==
    /\ pc = "handshake"
    /\ agent
    /\ Alive(hop)
    /\ pc' = "signing"
    /\ UNCHANGED <<ctxDone, timedOut, hop, handshake, after, conn, lost, agent,
                   top, fate>>

AgentSigns ==
    /\ pc = "signing"
    /\ pc' = "handshake"
    /\ UNCHANGED <<ctxDone, timedOut, hop, handshake, after, conn, lost, agent,
                   top, fate>>

HandshakeReturns(result) ==
    /\ pc = "handshake"
    /\ result = "ok" => Alive(hop)
    /\ handshake' = result
    /\ pc' = "stop"
    /\ UNCHANGED <<ctxDone, timedOut, hop, after, conn, lost, agent, top, fate>>

\* Broken variant: what stop() returns is not looked at.
HopSucceedsUnchecked ==
    /\ pc = "stop"
    /\ handshake = "ok"
    /\ agent' = FALSE
    /\ \/ /\ hop < N
          /\ hop' = hop + 1
          /\ timedOut' = FALSE
          /\ handshake' = "none"
          /\ pc' = "config"
          /\ fate' = fate
       \/ /\ hop = N
          /\ pc' = "returned"
          /\ fate' = "ok"
          /\ UNCHANGED <<hop, timedOut, handshake>>
    /\ UNCHANGED <<ctxDone, after, conn, lost, top>>

\* stop() prevents the AfterFunc from running: the hop is done.
HopSucceeds ==
    /\ pc = "stop"
    /\ after = "armed"
    /\ handshake = "ok"
    /\ after' = "stopped"
    /\ agent' = FALSE
    /\ \/ /\ hop < N
          /\ hop' = hop + 1
          /\ timedOut' = FALSE
          /\ handshake' = "none"
          /\ pc' = "config"
          /\ fate' = fate
       \/ /\ hop = N
          /\ pc' = "returned"
          /\ fate' = "ok"
          /\ UNCHANGED <<hop, timedOut, handshake>>
    /\ UNCHANGED <<ctxDone, conn, lost, top>>

\* Broken variant: a failed handshake leaves the connection to the timer.
HandshakeFailedOpen ==
    /\ pc = "stop"
    /\ after = "armed"
    /\ handshake = "error"
    /\ after' = "stopped"
    /\ DialHopFails
    /\ UNCHANGED conn

\* stop() in time, but the handshake failed.
HandshakeFailed ==
    /\ pc = "stop"
    /\ after = "armed"
    /\ handshake = "error"
    /\ after' = "stopped"
    /\ conn' = [conn EXCEPT ![hop] = "closed"]
    /\ DialHopFails

\* stop() too late: the AfterFunc's goroutine has the connection or will have
\* it.  A handshake that was done all the same is closed here.
StopTooLate ==
    /\ pc = "stop"
    /\ after \in {"fired", "ran"}
    /\ conn' = IF handshake = "ok" THEN [conn EXCEPT ![hop] = "closed"] ELSE conn
    /\ DialHopFails
    /\ UNCHANGED after

\* The goroutine of context.AfterFunc.
AfterFires ==
    /\ after = "armed"
    /\ HopCtxDone
    /\ after' = "fired"
    /\ UNCHANGED <<ctxDone, timedOut, hop, pc, handshake, conn, lost, agent, top,
                   fate>>

AfterCloses ==
    /\ after = "fired"
    /\ after' = "ran"
    /\ conn' = [conn EXCEPT ![hop] = "closed"]
    /\ UNCHANGED <<ctxDone, timedOut, hop, pc, handshake, lost, agent, top, fate>>

-----------------------------------------------------------------------------
(* closeClients *)

\* maintain has no more use for the chain it was given.
Abandon ==
    /\ pc = "returned"
    /\ fate = "ok"
    /\ pc' = "closing"
    /\ top' = N
    /\ fate' = "over"
    /\ UNCHANGED <<ctxDone, timedOut, hop, handshake, after, conn, lost, agent>>

\* Broken variant: the clients are closed from the first on.
CloseFirst ==
    /\ pc = "closing"
    /\ top > 0
    /\ conn' = [conn EXCEPT ![(IF fate = "over" THEN N ELSE hop - 1) + 1 - top] = "closed"]
    /\ top' = top - 1
    /\ UNCHANGED <<ctxDone, timedOut, hop, pc, handshake, after, lost, agent,
                   fate>>

CloseNext ==
    /\ pc = "closing"
    /\ top > 0
    /\ conn' = [conn EXCEPT ![top] = "closed"]
    /\ top' = top - 1
    /\ UNCHANGED <<ctxDone, timedOut, hop, pc, handshake, after, lost, agent,
                   fate>>

AllClosed ==
    /\ pc = "closing"
    /\ top = 0
    /\ pc' = "returned"
    /\ fate' = IF fate = "none" THEN "error" ELSE fate
    /\ UNCHANGED <<ctxDone, timedOut, hop, handshake, after, conn, lost, agent,
                   top>>

-----------------------------------------------------------------------------
(* Outside: Stop cancels, the timer of the hop fires, a connection dies.    *)

Cancel ==
    /\ ~ctxDone
    /\ ctxDone' = TRUE
    /\ UNCHANGED <<timedOut, hop, pc, handshake, after, conn, lost, agent, top,
                   fate>>

HopTimesOut ==
    /\ pc \in {"dial", "handshake", "signing", "stop"}
    /\ ~timedOut
    /\ timedOut' = TRUE
    /\ UNCHANGED <<ctxDone, hop, pc, handshake, after, conn, lost, agent, top,
                   fate>>

Lose ==
    /\ \E i \in Hops : conn[i] = "open" /\ lost' = lost \cup {i}
    /\ UNCHANGED <<ctxDone, timedOut, hop, pc, handshake, after, conn, agent,
                   top, fate>>

Agent == AgentLists \/ AgentSigns

\* The steps the program owes; the server's answers are not among them.
Program ==
    \/ Configure \/ ConfigFails \/ DialFails \/ DialOpens
    \/ ~Alive(hop) /\ HandshakeReturns("error")
    \/ HopSucceeds \/ HandshakeFailed \/ StopTooLate
    \/ CloseNext \/ AllClosed

Next ==
    \/ Program \/ Agent \/ AgentAsked
    \/ \E result \in {"ok", "error"} : HandshakeReturns(result)
    \/ AfterFires \/ AfterCloses
    \/ Abandon
    \/ Cancel \/ HopTimesOut \/ Lose

Spec == Init /\ [][Next]_vars

Fairness ==
    /\ WF_vars(Program)
    /\ WF_vars(AfterFires)
    /\ WF_vars(AfterCloses)
    /\ WF_vars(HopTimesOut)

FairSpec == Spec /\ Fairness

\* The ssh-agent answers what it is asked.
AnsweringSpec == FairSpec /\ WF_vars(Agent)

-----------------------------------------------------------------------------
\* An error leaves no connection behind, nor does a chain that maintain has
\* closed; only the goroutine of AfterFunc may still have one to close.  The
\* pipe to the agent is closed in any case.
NoLeak ==
    pc = "returned" =>
        /\ ~agent
        /\ fate # "ok" =>
              \A i \in Hops : conn[i] = "open" => i = hop /\ after = "fired"

\* No timer that is left over from dialling closes a connection of a chain
\* that has been handed out.
HandedOutStaysOpen ==
    fate = "ok" => \A i \in Hops : conn[i] = "open"

\* What maintain sees of a chain.
Phase ==
    CASE fate = "none" -> "dialling"
      [] fate = "error" -> "failed"
      [] fate = "ok" -> "up"
      [] fate = "over" -> IF pc = "closing" THEN "closing" ELSE "closed"
Made == IF conn[hop] = "none" THEN hop - 1 ELSE hop

Service == INSTANCE DialService WITH
    phase <- Phase,
    made <- Made,
    open <- {i \in Hops : conn[i] = "open"}

\* Whatever timers, cancellation and servers do during a handshake, maintain
\* gets a whole chain or an error, a chain it has been given stays whole until
\* it gives it up, and no connection is made once one before it is gone.
ImplementsDial == Service!Spec

\* However silent a server is, dialChain returns: hopTimeout bounds the
\* connection, the handshake and the authentication of each hop
\* (sshconn.go:27).
DialReturns == (pc # "returned") ~> (pc = "returned")

=============================================================================
