----------------------------- MODULE DialService -----------------------------
(***************************************************************************)
(* What dialling a chain promises maintain, without handshakes, timers or  *)
(* the agent.  The connections are made one after the other, each when all *)
(* before it stand.  The chain is handed out whole or not at all.  After   *)
(* that it stays whole until it is given up, and is then taken down from   *)
(* the last to the first.  Only the connection that was being made when    *)
(* dialling failed may be closed later than that, and never hold up the    *)
(* error.  Chain implements this (Chain!ImplementsDial).                   *)
(***************************************************************************)
EXTENDS Naturals

CONSTANT N      \* servers in the chain

VARIABLES
    phase,      \* "dialling", "failed", "up", "closing" or "closed"
    made,       \* the connections made so far are 1 .. made
    open        \* those of them that are open

vars == <<phase, made, open>>

Init ==
    /\ phase = "dialling"
    /\ made = 0
    /\ open = {}

Connect ==
    /\ phase = "dialling"
    /\ made < N
    /\ open = 1 .. made
    /\ made' = made + 1
    /\ open' = open \cup {made + 1}
    /\ phase' = phase

\* From the last to the first, but for the connection being made.
Disconnect ==
    /\ phase \in {"dialling", "failed", "closing"}
    /\ \E i \in open :
        /\ \A j \in open : j > i => phase = "dialling" /\ j = made
        /\ open' = open \ {i}
    /\ UNCHANGED <<phase, made>>

HandOut ==
    /\ phase = "dialling"
    /\ open = 1 .. N
    /\ phase' = "up"
    /\ UNCHANGED <<made, open>>

Fail ==
    /\ phase = "dialling"
    /\ open \subseteq {made}
    /\ phase' = "failed"
    /\ UNCHANGED <<made, open>>

GiveUp ==
    /\ phase = "up"
    /\ phase' = "closing"
    /\ UNCHANGED <<made, open>>

Close ==
    /\ phase = "closing"
    /\ open = {}
    /\ phase' = "closed"
    /\ UNCHANGED <<made, open>>

Next == Connect \/ Disconnect \/ HandOut \/ Fail \/ GiveUp \/ Close

Spec == Init /\ [][Next]_vars

=============================================================================
