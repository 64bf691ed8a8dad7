----------------------------- MODULE KnownHosts -----------------------------
(***************************************************************************)
(* The file known_hosts (sshconn.go): which algorithms are asked for, the   *)
(* check of a host key and the line that a first connection appends.  The   *)
(* dials of this program share the lock of sshEnv; ssh, ssh-keygen and      *)
(* editors use the same file without it.                                    *)
(*                                                                          *)
(* The file is a row of pieces, each written at once by somebody.  A piece  *)
(* is an entry if it stands alone on its line and is whole.                 *)
(***************************************************************************)
EXTENDS Naturals, Sequences, FiniteSets

CONSTANTS
    Dials,          \* handshakes of this program
    Hosts,
    Preference,     \* the types of keys as asked of a host not known
    MaxAge,         \* bound: times a server is reinstalled
    MaxMishaps,     \* bound: changes by other programs, failing reads and writes
    None

ASSUME KnownHostsAssumption ==
    /\ None \notin Dials \cup Hosts
    /\ Preference \in Seq(STRING) /\ Preference # <<>>
    /\ MaxAge \in Nat /\ MaxMishaps \in Nat

Types == {Preference[i] : i \in DOMAIN Preference}
Keys == [type : Types, age : 0 .. MaxAge]
Pieces == [hosts : SUBSET Hosts, key : Keys, revoked : BOOLEAN,
           whole : BOOLEAN, nl : BOOLEAN]

VARIABLES
    file,       \* the pieces of the file
    server,     \* server[h]: the age and the types of the keys of h
    mishaps,    \* how many of them there were
    lock,       \* the dial that holds e.mu from a lookup to its append
    pc, host, asked, key, nl,   \* the local variables of each dial
    outside,    \* outside[d]: since d began, another program has changed the
                \* file, it could not be read, or a dial that has met this
                \* has written to it
    trusted     \* trusted[h]: the keys this program has accepted for h, as
                \* far as nobody has removed them

dialVars == <<pc, host, asked, key, nl>>
vars == <<file, server, mishaps, lock, dialVars, outside, trusted>>

Resting == {"idle", "alarm"}

TypeOK ==
    /\ file \in Seq(Pieces)
    /\ server \in [Hosts -> [age : 0 .. MaxAge, types : (SUBSET Types) \ {{}}]]
    /\ mishaps \in 0 .. MaxMishaps
    /\ lock \in Dials \cup {None}
    /\ pc \in [Dials -> Resting \cup {"offer", "check", "end", "append"}]
    /\ \A d \in Dials : lock = d <=> pc[d] \in {"end", "append"}
    /\ host \in [Dials -> Hosts \cup {None}]
    /\ DOMAIN asked = Dials
    /\ \A d \in Dials : \A i \in DOMAIN asked[d] : i \in Nat /\ asked[d][i] \in Types
    /\ key \in [Dials -> Keys \cup {None}]
    /\ nl \in [Dials -> BOOLEAN]
    /\ outside \in [Dials -> BOOLEAN]
    /\ trusted \in [Hosts -> SUBSET Keys]

Init ==
    /\ file = <<>>
    /\ server = [h \in Hosts |-> [age |-> 0, types |-> Types]]
    /\ mishaps = 0
    /\ lock = None
    /\ pc = [d \in Dials |-> "idle"]
    /\ host = [d \in Dials |-> None]
    /\ asked = [d \in Dials |-> <<>>]
    /\ key = [d \in Dials |-> None]
    /\ nl = [d \in Dials |-> FALSE]
    /\ outside = [d \in Dials |-> FALSE]
    /\ trusted = [h \in Hosts |-> {}]

-----------------------------------------------------------------------------
(* Reading the file *)

\* Lines that ssh.ParseKnownHosts does not understand are skipped: pieces that
\* are broken or share their line.
Entries(f) ==
    {i \in DOMAIN f : /\ f[i].whole
                      /\ i > 1 => f[i - 1].nl
                      /\ f[i].nl \/ i = Len(f)}

\* lookupHost
EntriesOf(f, h, revoked) ==
    {i \in Entries(f) : h \in f[i].hosts /\ f[i].revoked = revoked}
Known(f, h) == {f[i].key : i \in EntriesOf(f, h, FALSE)}
Revoked(f, h) == {f[i].key : i \in EntriesOf(f, h, TRUE)}

KeysOf(h) == [type : server[h].types, age : {server[h].age}]

\* hostKeyAlgorithms: the types of the known keys, each where the file has it
\* first.  An order of types is a function of places, of which some are free.
Wanted(f, h) ==
    LET es == EntriesOf(f, h, FALSE)
        firsts == {i \in es : \A j \in es : f[j].key.type = f[i].key.type => i <= j}
    IN  IF es = {} THEN Preference ELSE [i \in firsts |-> f[i].key.type]

-----------------------------------------------------------------------------
(* A dial *)

Mishap == mishaps < MaxMishaps /\ mishaps' = mishaps + 1

Goes(d, from, to) == pc[d] = from /\ pc' = [pc EXCEPT ![d] = to]

\* Broken variant: the algorithms are the same for every host.
AskAlways(d, h) ==
    /\ lock = None
    /\ pc[d] \in Resting
    /\ pc' = [pc EXCEPT ![d] = "offer"]
    /\ host' = [host EXCEPT ![d] = h]
    /\ asked' = [asked EXCEPT ![d] = Preference]
    /\ UNCHANGED <<file, server, mishaps, lock, key, nl, outside, trusted>>

\* clientConfig asks for the algorithms; that the file cannot be read is
\* ignored here.
Ask(d, h) ==
    /\ lock = None
    /\ pc[d] \in Resting
    /\ pc' = [pc EXCEPT ![d] = "offer"]
    /\ host' = [host EXCEPT ![d] = h]
    /\ \/ /\ asked' = [asked EXCEPT ![d] = Wanted(file, h)]
          /\ UNCHANGED <<mishaps, outside>>
       \/ /\ Mishap
          /\ asked' = [asked EXCEPT ![d] = Preference]
          /\ outside' = [outside EXCEPT ![d] = TRUE]
    /\ UNCHANGED <<file, server, lock, key, nl, trusted>>

\* The server shows its key of the first type asked for that it has, if any.
Offer(d) ==
    /\ Goes(d, "offer", "check")
    /\ \E i \in DOMAIN asked[d] :
        /\ asked[d][i] \in server[host[d]].types
        /\ \A j \in DOMAIN asked[d] : j < i => asked[d][j] \notin server[host[d]].types
        /\ key' = [key EXCEPT ![d] = [type |-> asked[d][i], age |-> server[host[d]].age]]
    /\ asked' = [asked EXCEPT ![d] = <<>>]
    /\ UNCHANGED <<file, server, mishaps, lock, host, nl, outside, trusted>>

\* The handshake of d is over.
Returns(d, from, to) ==
    /\ Goes(d, from, to)
    /\ host' = [host EXCEPT ![d] = None]
    /\ asked' = [asked EXCEPT ![d] = <<>>]
    /\ key' = [key EXCEPT ![d] = None]
    /\ nl' = [nl EXCEPT ![d] = FALSE]
    /\ server' = server

NoCommonType(d) ==
    /\ Returns(d, "offer", "idle")
    /\ \A i \in DOMAIN asked[d] : asked[d][i] \notin server[host[d]].types
    /\ outside' = [outside EXCEPT ![d] = FALSE]
    /\ UNCHANGED <<file, mishaps, lock, trusted>>

\* checkHostKey: the key is known, or it is not the known one, is revoked, or
\* the file cannot be read.
Judge(d) ==
    /\ lock = None
    /\ \/ /\ Returns(d, "check", "idle")
          /\ key[d] \in Known(file, host[d]) \ Revoked(file, host[d])
          /\ trusted' = [trusted EXCEPT ![host[d]] = @ \cup {key[d]}]
       \/ /\ Returns(d, "check", "alarm")
          /\ key[d] \notin Known(file, host[d]) \cup Revoked(file, host[d])
          /\ Known(file, host[d]) # {}
          /\ UNCHANGED trusted
       \/ /\ Returns(d, "check", "idle")
          /\ UNCHANGED trusted
    /\ outside' = [outside EXCEPT ![d] = FALSE]
    /\ UNCHANGED <<file, mishaps, lock>>

IsNew(d) ==
    /\ Known(file, host[d]) = {}
    /\ key[d] \notin Revoked(file, host[d])

\* Broken variant: the lock is not held until the line is written.
FirstUseUnlocked(d) ==
    /\ lock = None
    /\ Goes(d, "check", "end")
    /\ IsNew(d)
    /\ UNCHANGED <<file, server, mishaps, lock, host, asked, key, nl, outside,
                   trusted>>

\* checkHostKey for a host not known: e.mu stays locked until the line is written.
FirstUse(d) ==
    /\ lock = None
    /\ Goes(d, "check", "end")
    /\ IsNew(d)
    /\ lock' = d
    /\ UNCHANGED <<file, server, mishaps, host, asked, key, nl, outside, trusted>>

Unended(f) == f # <<>> /\ ~f[Len(f)].nl
Ended(f) == IF Unended(f) THEN [f EXCEPT ![Len(f)].nl = TRUE] ELSE f

\* Broken variant: the last line is taken to be ended.
LookAtEndNot(d) ==
    /\ Goes(d, "end", "append")
    /\ UNCHANGED <<file, server, mishaps, lock, host, asked, key, nl, outside, trusted>>

\* appendKnownHost looks at the last byte; if it cannot, there is none to end.
LookAtEnd(d) ==
    /\ Goes(d, "end", "append")
    /\ \/ /\ nl' = [nl EXCEPT ![d] = Unended(file)]
          /\ UNCHANGED <<mishaps, outside>>
       \/ /\ Mishap
          /\ outside' = [outside EXCEPT ![d] = TRUE]
          /\ nl' = nl
    /\ UNCHANGED <<file, server, lock, host, asked, key, trusted>>

Line(d, whole, ended) ==
    [hosts |-> {host[d]}, key |-> key[d], revoked |-> FALSE,
     whole |-> whole, nl |-> ended]

\* The line is written; only part of it is, the last newline missing or more;
\* or nothing is.  After a change from outside the new line may be joined to
\* another, or be of a type that later dials have not asked for.
Add(d) ==
    LET before == IF nl[d] THEN Ended(file) ELSE file
        all == Append(before, Line(d, TRUE, TRUE))
        now == IF file' = all THEN [trusted EXCEPT ![host[d]] = @ \cup {key[d]}]
               ELSE trusted
    IN  /\ Returns(d, "append", "idle")
        /\ lock' = None
        /\ \/ file' = all /\ mishaps' = mishaps
           \/ /\ Mishap
              /\ file' \in {file} \cup
                    {Append(before, Line(d, whole, FALSE)) : whole \in BOOLEAN}
        /\ IF outside[d]
           THEN /\ trusted' = [h \in Hosts |-> now[h] \cap Known(file', h)]
                /\ outside' = [e \in Dials |-> pc'[e] \notin Resting]
           ELSE trusted' = now /\ outside' = outside

-----------------------------------------------------------------------------
(* What happens outside *)

\* ssh or an editor adds an entry on a line of its own.
OtherAppends ==
    /\ \E e \in Pieces :
        /\ e.hosts # {} /\ e.whole
        /\ \E h \in e.hosts : e.key \in KeysOf(h)
        /\ file' = Append(Ended(file), e)
    /\ trusted' = trusted

\* ssh-keygen -R takes the entries of a host away.
OtherRemoves ==
    /\ \E h \in Hosts :
        LET keep == {i \in DOMAIN file : i \in Entries(file) => h \notin file[i].hosts}
        IN  /\ keep # DOMAIN file
            /\ \E rows \in [1 .. Cardinality(keep) -> keep] :
                /\ \A m, n \in DOMAIN rows : m < n => rows[m] < rows[n]
                /\ file' = [n \in DOMAIN rows |-> file[rows[n]]]
    /\ trusted' = [h \in Hosts |-> trusted[h] \cap Known(file', h)]

Outside ==
    /\ Mishap
    /\ OtherAppends \/ OtherRemoves
    /\ outside' = [d \in Dials |-> pc[d] \notin Resting]
    /\ UNCHANGED <<server, lock, dialVars>>

Reinstalled(h) ==
    /\ server[h].age < MaxAge
    /\ \E types \in (SUBSET Types) \ {{}} :
        server' = [server EXCEPT ![h] = [age |-> @.age + 1, types |-> types]]
    /\ UNCHANGED <<file, mishaps, lock, dialVars, outside, trusted>>

Next ==
    \/ \E d \in Dials :
        \/ \E h \in Hosts : Ask(d, h)
        \/ Offer(d) \/ NoCommonType(d) \/ Judge(d) \/ FirstUse(d) \/ LookAtEnd(d) \/ Add(d)
    \/ Outside
    \/ \E h \in Hosts : Reinstalled(h)

Spec == Init /\ [][Next]_vars

-----------------------------------------------------------------------------
(* Properties *)

\* What was accepted once stays recorded: no later append of this program, of
\* whatever host, complete or cut short, spoils the entry or another one, so
\* that the host would be taken for a new one (sshconn.go:329).
TrustedStaysRecorded == \A h \in Hosts : trusted[h] \subseteq Known(file, h)

\* Two dials that meet a new host at the same time record it once; and none
\* records a second key beside the first.
RecordedOnce ==
    [][\A d \in Dials :
          pc[d] = "append" /\ file' # file /\ ~outside[d] =>
             Known(file, host[d]) = {}]_vars

\* A server whose keys are all that is recorded of it raises no alarm
\* (sshconn.go:270), whatever the other dials of this program record between
\* the choice of the algorithms and the check.
NoFalseAlarm ==
    [][\A d \in Dials :
          pc[d] = "check" /\ pc'[d] = "alarm" /\ ~outside[d] =>
             \/ ~(Known(file, host[d]) \subseteq KeysOf(host[d]))
             \/ key[d] \notin KeysOf(host[d])]_vars

=============================================================================
