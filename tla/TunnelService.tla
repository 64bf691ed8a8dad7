---------------------------- MODULE TunnelService ----------------------------
(***************************************************************************)
(* What a tunnel promises, without saying how.  To its owner: a port that   *)
(* is open or has failed to open, until Stop, after which nothing is left.  *)
(* To a local program that asks for a way to its target: the SSH client     *)
(* that is on offer when it looks; if there is none it waits; and it is     *)
(* refused only because of a failure that came in while it was asking.      *)
(* Tunnel implements this (Tunnel!ImplementsService).                       *)
(***************************************************************************)

CONSTANTS Requests, Clients, None

VARIABLES
    phase,      \* of the port
    offer,      \* the client on offer, or None
    turn,       \* turn[r]: how far request r has come
    given,      \* given[r]: the client that r was given
    failedFor   \* the requests that were asking when a failure came in

vars == <<phase, offer, turn, given, failedFor>>

Init ==
    /\ phase = "new"
    /\ offer = None
    /\ turn = [r \in Requests |-> "away"]
    /\ given = [r \in Requests |-> None]
    /\ failedFor = {}

Turns(r, from, to) ==
    /\ turn[r] = from
    /\ turn' = [turn EXCEPT ![r] = to]
    /\ UNCHANGED <<phase, offer>>

Alive == phase \in {"open", "stopping"}

-----------------------------------------------------------------------------
(* The owner *)

PhaseChanges ==
    /\ \/ phase = "new" /\ phase' \in {"open", "deaf"}
       \/ phase \in {"open", "deaf"} /\ phase' = "stopping"
       \/ /\ phase = "stopping"
          /\ offer = None
          /\ \A r \in Requests : turn[r] = "away"
          /\ phase' = "stopped"
    /\ UNCHANGED <<offer, turn, given, failedFor>>

-----------------------------------------------------------------------------
(* The chain of SSH connections *)

\* A client on offer is a new one: nobody has it yet.
Offer(c) ==
    /\ Alive
    /\ offer = None
    /\ \A r \in Requests : given[r] # c
    /\ offer' = c
    /\ UNCHANGED <<phase, turn, given, failedFor>>

Withdraw ==
    /\ offer # None
    /\ offer' = None
    /\ UNCHANGED <<phase, turn, given, failedFor>>

Announce ==
    /\ Alive
    /\ offer = None
    /\ failedFor' =
         failedFor \cup {r \in Requests : turn[r] \in {"asking", "waiting"}}
    /\ UNCHANGED <<phase, offer, turn, given>>

-----------------------------------------------------------------------------
(* A request *)

Ask(r) == Alive /\ Turns(r, "away", "asking") /\ UNCHANGED <<given, failedFor>>

Serve(r) ==
    /\ offer # None
    /\ Turns(r, "asking", "served")
    /\ given' = [given EXCEPT ![r] = offer]
    /\ failedFor' = failedFor \ {r}

Refuse(r) ==
    /\ offer = None
    /\ r \in failedFor
    /\ Turns(r, "asking", "leaving")
    /\ failedFor' = failedFor \ {r}
    /\ given' = given

Wait(r) ==
    /\ offer = None
    /\ Turns(r, "asking", "waiting")
    /\ UNCHANGED <<given, failedFor>>

Wake(r) == Turns(r, "waiting", "asking") /\ UNCHANGED <<given, failedFor>>

\* requestTimeout, or the end of the tunnel.
GiveUp(r) ==
    /\ Turns(r, "waiting", "leaving")
    /\ failedFor' = failedFor \ {r}
    /\ given' = given

\* The service is over, or was not what the program had come for.
Finish(r) ==
    /\ Turns(r, "served", "leaving") \/ (Alive /\ Turns(r, "away", "leaving"))
    /\ failedFor' = failedFor \ {r}
    /\ given' = given

Leave(r) ==
    /\ Turns(r, "leaving", "away")
    /\ given' = [given EXCEPT ![r] = None]
    /\ failedFor' = failedFor

Request(r) ==
    \/ Ask(r) \/ Serve(r) \/ Refuse(r) \/ Wait(r) \/ Wake(r) \/ GiveUp(r)
    \/ Finish(r) \/ Leave(r)

Next ==
    \/ PhaseChanges \/ Withdraw \/ Announce
    \/ \E c \in Clients : Offer(c)
    \/ \E r \in Requests : Request(r)

Spec == Init /\ [][Next]_vars

=============================================================================
