-------------------------- MODULE KnownHostsProofs --------------------------
(***************************************************************************)
(* Proofs about known_hosts and the lock of sshEnv, for any number of      *)
(* dials and hosts, any types of keys and any number of mishaps: who looks *)
(* for a host and finds it new is alone until its line is written; what    *)
(* was accepted stays recorded; and no type of key raises a false alarm.   *)
(***************************************************************************)
EXTENDS KnownHosts, FiniteSetTheorems, TLAPS

Recording == {"end", "append"}

\* The dial between its lookup and its append is the one with the lock.
LockInv ==
    /\ pc \in [Dials -> Resting \cup {"offer", "check"} \cup Recording]
    /\ outside \in [Dials -> BOOLEAN]
    /\ DOMAIN host = Dials
    /\ \A d \in Dials : pc[d] \in Recording => lock = d

\* Meanwhile its host stays new, as long as no other program interferes.
StillNew ==
    \A d \in Dials :
        pc[d] \in Recording /\ ~outside[d] => Known(file, host[d]) = {}

IInv == LockInv /\ StillNew

-----------------------------------------------------------------------------
USE DEF vars, dialVars

\* Every step of a dial, of another program and of a server keeps both.
LEMMA StepKeeps == IInv /\ [Next]_vars => IInv'
<1> SUFFICES ASSUME IInv, [Next]_vars PROVE IInv'
    OBVIOUS
<1> USE KnownHostsAssumption DEF IInv, LockInv, StillNew, Recording, Resting
<1>1. ASSUME NEW d \in Dials, NEW h \in Hosts, Ask(d, h) PROVE IInv'
    BY <1>1 DEF Ask
<1>2. ASSUME NEW d \in Dials, Offer(d) PROVE IInv'
    BY <1>2 DEF Offer, Goes
<1>3. ASSUME NEW d \in Dials, NoCommonType(d) PROVE IInv'
    BY <1>3 DEF NoCommonType, Returns, Goes
<1>4. ASSUME NEW d \in Dials, Judge(d) PROVE IInv'
    BY <1>4 DEF Judge, Returns, Goes
<1>5. ASSUME NEW d \in Dials, FirstUse(d) PROVE IInv'
    BY <1>5 DEF FirstUse, Goes, IsNew
<1>6. ASSUME NEW d \in Dials, LookAtEnd(d) PROVE IInv'
    BY <1>6 DEF LookAtEnd, Goes
<1>7. ASSUME NEW d \in Dials, Add(d) PROVE IInv'
  <2>1. /\ pc[d] = "append" /\ pc' = [pc EXCEPT ![d] = "idle"]
        /\ host' = [host EXCEPT ![d] = None] /\ lock' = None
      BY <1>7 DEF Add, Returns, Goes
  <2>2. lock = d /\ \A e \in Dials : e # d => pc[e] \notin Recording
      BY <2>1
  <2>3. \A e \in Dials : pc'[e] \notin Recording
      BY <2>1, <2>2
  <2>4. outside' \in [Dials -> BOOLEAN]
      BY <1>7 DEF Add
  <2> QED
      BY <2>1, <2>3, <2>4
<1>8. CASE Outside
    BY <1>8 DEF Outside
<1>9. ASSUME NEW h \in Hosts, Reinstalled(h) PROVE IInv'
    BY <1>9 DEF Reinstalled
<1>10. CASE UNCHANGED vars
    BY <1>10
<1> QED
    BY <1>1, <1>2, <1>3, <1>4, <1>5, <1>6, <1>7, <1>8, <1>9, <1>10 DEF Next

LEMMA Invariance == Spec => []IInv
<1>1. Init => IInv
    BY DEF Init, IInv, LockInv, StillNew, Recording, Resting
<1> QED
    BY <1>1, StepKeeps, PTL DEF Spec

\* Two first connections to one host record it once (checkHostKey and
\* appendKnownHost under e.mu, sshconn.go).
THEOREM HostsAreRecordedOnce == Spec => RecordedOnce
<1> DEFINE Recorded ==
        \A d \in Dials :
            pc[d] = "append" /\ file' # file /\ ~outside[d] =>
                Known(file, host[d]) = {}
<1>1. IInv => [Recorded]_vars
    BY DEF IInv, StillNew, Recording
<1> QED
    BY <1>1, Invariance, PTL DEF RecordedOnce

-----------------------------------------------------------------------------
(* What was accepted stays recorded.                                        *)

\* The types that the argument needs.
Typed ==
    /\ file \in Seq(Pieces)
    /\ server \in [Hosts -> [age : 0 .. MaxAge, types : SUBSET Types]]
    /\ host \in [Dials -> Hosts \cup {None}]
    /\ nl \in [Dials -> BOOLEAN]
    /\ trusted \in [Hosts -> SUBSET Keys]
    /\ DOMAIN key = Dials /\ DOMAIN asked = Dials
    /\ \A d \in Dials : pc[d] \in {"offer", "check"} \cup Recording =>
          host[d] \in Hosts
    /\ \A d \in Dials : pc[d] \in {"check"} \cup Recording => key[d] \in Keys

\* What appendKnownHost has seen of the last byte is still so.
EndSeen ==
    \A d \in Dials : pc[d] = "append" /\ ~outside[d] => nl[d] = Unended(file)

TInv == LockInv /\ Typed /\ EndSeen /\ TrustedStaysRecorded

\* Ending the last line spoils no entry and completes none that was broken.
LEMMA EndedIs ==
    ASSUME NEW f \in Seq(Pieces)
    PROVE  /\ Ended(f) \in Seq(Pieces)
           /\ Len(Ended(f)) = Len(f)
           /\ ~Unended(Ended(f))
           /\ \A i \in 1 .. Len(f) :
                /\ Ended(f)[i].hosts = f[i].hosts
                /\ Ended(f)[i].key = f[i].key
                /\ Ended(f)[i].revoked = f[i].revoked
                /\ Ended(f)[i].whole = f[i].whole
                /\ f[i].nl => Ended(f)[i].nl
                /\ i # Len(f) => Ended(f)[i] = f[i]
                /\ i = Len(f) => Ended(f)[i].nl
<1>1. CASE Unended(f)
  <2>1. f # <<>> /\ Len(f) \in 1 .. Len(f) /\ f[Len(f)] \in Pieces
      BY <1>1 DEF Unended
  <2> DEFINE last == [f[Len(f)] EXCEPT !.nl = TRUE]
  <2>2. Ended(f) = [f EXCEPT ![Len(f)] = last]
      BY <1>1 DEF Ended
  <2>3. /\ last \in Pieces /\ last.nl
        /\ last.hosts = f[Len(f)].hosts
        /\ last.key = f[Len(f)].key
        /\ last.revoked = f[Len(f)].revoked
        /\ last.whole = f[Len(f)].whole
      BY <2>1 DEF Pieces
  <2> HIDE DEF last
  <2>4. Ended(f) \in Seq(Pieces) /\ Len(Ended(f)) = Len(f)
      BY <2>1, <2>2, <2>3
  <2>5. \A i \in 1 .. Len(f) :
           Ended(f)[i] = IF i = Len(f) THEN last ELSE f[i]
      BY <2>1, <2>2
  <2> QED
      BY <2>1, <2>3, <2>4, <2>5 DEF Unended
<1>2. CASE ~Unended(f)
  <2>1. Ended(f) = f
      BY <1>2 DEF Ended
  <2>2. f # <<>> => f[Len(f)].nl
      BY <1>2 DEF Unended
  <2>3. ASSUME NEW i \in 1 .. Len(f), i = Len(f) PROVE f[i].nl
    <3>1. f # <<>>
        BY <2>3
    <3> QED
        BY <2>2, <2>3, <3>1
  <2> QED
      BY <1>2, <2>1, <2>3
<1> QED
    BY <1>1, <1>2

\* A piece put behind a file whose last line is ended leaves every entry
\* readable, and is itself an entry if it is whole.
LEMMA AppendKeeps ==
    ASSUME NEW f \in Seq(Pieces), NEW e \in Pieces, NEW h
    PROVE  LET g == Append(Ended(f), e)
           IN  /\ g \in Seq(Pieces)
               /\ Known(f, h) \subseteq Known(g, h)
               /\ e.whole /\ ~e.revoked /\ h \in e.hosts => e.key \in Known(g, h)
<1> DEFINE g == Append(Ended(f), e)
<1>1. /\ g \in Seq(Pieces) /\ Len(g) = Len(f) + 1 /\ g[Len(f) + 1] = e
      /\ \A i \in 1 .. Len(f) : g[i] = Ended(f)[i]
    BY EndedIs
<1>2. DOMAIN f = 1 .. Len(f) /\ DOMAIN g = 1 .. Len(f) + 1 /\ Len(f) \in Nat
    BY <1>1
<1>a. \A i \in 1 .. Len(f) : f[i].nl => g[i].nl
    BY <1>1, EndedIs
<1> HIDE DEF g
<1>3. ASSUME NEW i \in Entries(f)
      PROVE  i \in Entries(g)
  <2>1. i \in 1 .. Len(f) /\ f[i].whole /\ (i > 1 => f[i - 1].nl)
          /\ (f[i].nl \/ i = Len(f))
      BY <1>2, <1>3 DEF Entries
  <2>2. g[i].whole /\ g[i].nl
      BY <2>1, <1>1, EndedIs
  <2>3. ASSUME i > 1 PROVE g[i - 1].nl
    <3> DEFINE j == i - 1
    <3>1. j \in 1 .. Len(f)
      <4>1. i \in 1 .. Len(f) /\ Len(f) \in Nat
          BY <2>1, <1>2
      <4> QED
          BY <4>1, <2>3
    <3>2. f[j].nl
        BY <2>1, <2>3
    <3> HIDE DEF j
    <3>3. g[j].nl
        BY <3>1, <3>2, <1>a, Zenon
    <3> QED
        BY <3>3 DEF j
  <2> QED
      BY <2>1, <2>2, <2>3, <1>2 DEF Entries
<1>4. \A i \in Entries(f) :
         g[i].hosts = f[i].hosts /\ g[i].key = f[i].key
           /\ g[i].revoked = f[i].revoked
    BY <1>1, <1>2, EndedIs DEF Entries
<1>5. Known(f, h) \subseteq Known(g, h)
    BY <1>3, <1>4 DEF Known, EntriesOf
<1>6. ASSUME e.whole, ~e.revoked, h \in e.hosts PROVE e.key \in Known(g, h)
  <2>1. ASSUME Len(f) + 1 > 1 PROVE g[Len(f) + 1 - 1].nl
    <3>1. Len(f) \in 1 .. Len(f) /\ Len(f) + 1 - 1 = Len(f)
        BY <2>1, <1>2
    <3> QED
        BY <3>1, <1>1, EndedIs
  <2>2. Len(f) + 1 \in Entries(g)
      BY <1>1, <1>2, <1>6, <2>1 DEF Entries
  <2> QED
      BY <1>1, <1>6, <2>2 DEF Known, EntriesOf
<1> QED
    BY <1>1, <1>5, <1>6 DEF g

\* A line that appendKnownHost writes, or the part of it that it writes.
LEMMA LineIs ==
    ASSUME NEW d \in Dials, host[d] \in Hosts, key[d] \in Keys,
           NEW w \in BOOLEAN, NEW n \in BOOLEAN
    PROVE  /\ Line(d, w, n) \in Pieces
           /\ Line(d, w, n).whole = w /\ ~Line(d, w, n).revoked
           /\ Line(d, w, n).hosts = {host[d]} /\ Line(d, w, n).key = key[d]
    BY DEF Line, Pieces

\* Add adds its own entry and spoils none.
LEMMA AddStep ==
    ASSUME TInv, NEW d \in Dials, Add(d)
    PROVE  TInv'
<1> DEFINE before == IF nl[d] THEN Ended(file) ELSE file
           all == Append(before, Line(d, TRUE, TRUE))
           now == IF file' = all
                  THEN [trusted EXCEPT ![host[d]] = @ \cup {key[d]}]
                  ELSE trusted
<1>1. /\ pc[d] = "append" /\ pc' = [pc EXCEPT ![d] = "idle"]
      /\ host' = [host EXCEPT ![d] = None] /\ lock' = None
      /\ key' = [key EXCEPT ![d] = None]
      /\ asked' = [asked EXCEPT ![d] = <<>>]
      /\ nl' = [nl EXCEPT ![d] = FALSE]
      /\ server' = server
    BY DEF Add, Returns, Goes
<1>2. \A e \in Dials : pc'[e] \notin Recording
    BY <1>1, KnownHostsAssumption DEF TInv, LockInv, Recording, Resting
<1>3. host[d] \in Hosts /\ key[d] \in Keys
    BY <1>1 DEF TInv, Typed, Recording
<1>4. file \in Seq(Pieces) /\ trusted \in [Hosts -> SUBSET Keys]
        /\ \A h \in Hosts : trusted[h] \subseteq Known(file, h)
    BY DEF TInv, Typed, TrustedStaysRecorded
<1>5. \/ file' = file
      \/ \E w, n \in BOOLEAN : file' = Append(before, Line(d, w, n))
    BY DEF Add
<1>6. before \in Seq(Pieces)
    BY <1>4, EndedIs
<1>7. /\ outside[d] => trusted' = [h \in Hosts |-> now[h] \cap Known(file', h)]
      /\ ~outside[d] => trusted' = now
    BY DEF Add
<1>8. /\ now \in [Hosts -> SUBSET Keys]
      /\ \A h \in Hosts : now[h] = IF file' = all /\ h = host[d]
                                   THEN trusted[h] \cup {key[d]}
                                   ELSE trusted[h]
    BY <1>3, <1>4
<1>9. outside' \in [Dials -> BOOLEAN]
    BY DEF Add, TInv, LockInv
<1>10. ~outside[d] => before = Ended(file)
    BY <1>1 DEF Ended, TInv, EndSeen
<1> HIDE DEF before, now
<1>11. file' \in Seq(Pieces)
  <2>1. CASE file' = file
      BY <1>4, <2>1
  <2>2. ASSUME NEW w \in BOOLEAN, NEW n \in BOOLEAN,
               file' = Append(before, Line(d, w, n))
        PROVE  file' \in Seq(Pieces)
    <3>1. Line(d, w, n) \in Pieces
        BY <1>3, LineIs
    <3> QED
        BY <1>6, <2>2, <3>1
  <2> QED
      BY <1>5, <2>1, <2>2
<1>12. trusted' \in [Hosts -> SUBSET Keys]
  <2>1. CASE outside[d]
    <3>1. \A h \in Hosts : now[h] \cap Known(file', h) \in SUBSET Keys
        BY <1>8
    <3> QED
        BY <1>7, <2>1, <3>1
  <2> QED
      BY <1>7, <1>8, <2>1
<1>13. ASSUME NEW h \in Hosts PROVE trusted'[h] \subseteq Known(file', h)
  <2>1. CASE outside[d]
    <3>1. trusted'[h] = now[h] \cap Known(file', h)
        BY <1>7, <2>1
    <3> QED
        BY <3>1
  <2>2. CASE ~outside[d]
    <3>1. before = Ended(file) /\ trusted' = now
        BY <1>7, <1>10, <2>2
    <3>2. trusted[h] \subseteq Known(file', h)
      <4>1. CASE file' = file
          BY <1>4, <4>1
      <4>2. ASSUME NEW w \in BOOLEAN, NEW n \in BOOLEAN,
                   file' = Append(before, Line(d, w, n))
            PROVE  trusted[h] \subseteq Known(file', h)
        <5>1. Line(d, w, n) \in Pieces
            BY <1>3, LineIs
        <5>2. Known(file, h) \subseteq Known(file', h)
            BY <1>4, <3>1, <4>2, <5>1, AppendKeeps
        <5> QED
            BY <1>4, <5>2
      <4> QED
          BY <1>5, <4>1, <4>2
    <3>3. CASE file' = all /\ h = host[d]
      <4>1. /\ Line(d, TRUE, TRUE) \in Pieces
            /\ Line(d, TRUE, TRUE).whole /\ ~Line(d, TRUE, TRUE).revoked
            /\ h \in Line(d, TRUE, TRUE).hosts
            /\ Line(d, TRUE, TRUE).key = key[d]
          BY <1>3, <3>3, LineIs
      <4>2. key[d] \in Known(file', h)
          BY <1>4, <3>1, <3>3, <4>1, AppendKeeps
      <4> QED
          BY <1>8, <3>1, <3>2, <3>3, <4>2
    <3> QED
        BY <1>8, <3>1, <3>2, <3>3
  <2> QED
      BY <2>1, <2>2
<1>14. LockInv'
    BY <1>1, <1>2, <1>9 DEF TInv, LockInv, Resting
<1>15. EndSeen'
    BY <1>2 DEF EndSeen, Recording
<1>16. Typed'
    BY <1>1, <1>2, <1>11, <1>12 DEF TInv, LockInv, Typed, Recording, Resting
<1> QED
    BY <1>13, <1>14, <1>15, <1>16 DEF TInv, TrustedStaysRecorded

\* Other programs add entries on lines of their own, or take entries away.
LEMMA OutsideStep ==
    ASSUME TInv, Outside
    PROVE  TInv'
<1>1. /\ UNCHANGED <<server, lock, dialVars>>
      /\ outside' = [d \in Dials |-> pc[d] \notin Resting]
      /\ OtherAppends \/ OtherRemoves
    BY DEF Outside
<1>2. /\ file \in Seq(Pieces) /\ trusted \in [Hosts -> SUBSET Keys]
      /\ \A h \in Hosts : trusted[h] \subseteq Known(file, h)
    BY DEF TInv, Typed, TrustedStaysRecorded
<1>3. CASE OtherAppends
  <2>1. PICK e \in Pieces : file' = Append(Ended(file), e)
      BY <1>3 DEF OtherAppends
  <2>2. file' \in Seq(Pieces)
          /\ \A h \in Hosts : Known(file, h) \subseteq Known(file', h)
      BY <1>2, <2>1, AppendKeeps
  <2>3. trusted' = trusted
      BY <1>3 DEF OtherAppends
  <2>4. \A h \in Hosts : trusted'[h] \subseteq Known(file', h)
      BY <1>2, <2>2, <2>3
  <2>5. LockInv' /\ EndSeen' /\ Typed'
      BY <1>1, <2>2, <2>3
         DEF TInv, LockInv, EndSeen, Typed, Recording, Resting
  <2> QED
      BY <2>4, <2>5 DEF TInv, TrustedStaysRecorded
<1>4. CASE OtherRemoves
  <2>1. PICK h \in Hosts :
          \E rows \in [1 .. Cardinality({i \in DOMAIN file : i \in Entries(file)
                                            => h \notin file[i].hosts})
                       -> {i \in DOMAIN file : i \in Entries(file)
                                            => h \notin file[i].hosts}] :
              file' = [n \in DOMAIN rows |-> file[rows[n]]]
      BY <1>4 DEF OtherRemoves
  <2> DEFINE keep == {i \in DOMAIN file : i \in Entries(file)
                                            => h \notin file[i].hosts}
  <2>2. PICK rows \in [1 .. Cardinality(keep) -> keep] :
          file' = [n \in DOMAIN rows |-> file[rows[n]]]
      BY <2>1
  <2>3. keep \subseteq DOMAIN file
      OBVIOUS
  <2> HIDE DEF keep
  <2>4. Cardinality(keep) \in Nat
    <3>1. Len(file) \in Nat /\ DOMAIN file = 1 .. Len(file)
        BY <1>2
    <3>2. IsFiniteSet(1 .. Len(file))
      <4>1. 1 \in Int /\ Len(file) \in Int
          BY <3>1
      <4> QED
          BY <4>1, FS_Interval
    <3>3. IsFiniteSet(keep)
        BY <2>3, <3>1, <3>2, FS_Subset
    <3> QED
        BY <3>3, FS_CardinalityType
  <2>5. \A n \in 1 .. Cardinality(keep) : file[rows[n]] \in Pieces
      BY <1>2, <2>2, <2>3
  <2>6. file' \in Seq(Pieces)
      BY <2>2, <2>4, <2>5
  <2>7. trusted' = [g \in Hosts |-> trusted[g] \cap Known(file', g)]
      BY <1>4 DEF OtherRemoves
  <2>8. trusted' \in [Hosts -> SUBSET Keys]
          /\ \A g \in Hosts : trusted'[g] \subseteq Known(file', g)
      BY <1>2, <2>7
  <2>9. LockInv' /\ EndSeen' /\ Typed'
      BY <1>1, <2>6, <2>8
         DEF TInv, LockInv, EndSeen, Typed, Recording, Resting
  <2> QED
      BY <2>8, <2>9 DEF TInv, TrustedStaysRecorded
<1> QED
    BY <1>1, <1>3, <1>4

\* Every other step leaves the file alone; who has a key has got it from a
\* server.
LEMMA TrustStep == TInv /\ [Next]_vars => TInv'
<1> SUFFICES ASSUME TInv, [Next]_vars PROVE TInv'
    OBVIOUS
<1> USE KnownHostsAssumption
<1> USE DEF TInv, LockInv, Typed, EndSeen, TrustedStaysRecorded, Recording,
            Resting
<1>1. ASSUME NEW d \in Dials, NEW h \in Hosts, Ask(d, h) PROVE TInv'
    BY <1>1 DEF Ask
<1>2. ASSUME NEW d \in Dials, Offer(d) PROVE TInv'
  <2>1. key'[d] \in Keys
    <3>1. host[d] \in Hosts
        BY <1>2 DEF Offer, Goes
    <3>2. server[host[d]].types \subseteq Types
             /\ server[host[d]].age \in 0 .. MaxAge
        BY <3>1
    <3> QED
        BY <1>2, <3>2 DEF Offer, Keys
  <2> QED
      BY <1>2, <2>1 DEF Offer, Goes
<1>3. ASSUME NEW d \in Dials, NoCommonType(d) PROVE TInv'
    BY <1>3 DEF NoCommonType, Returns, Goes
<1>4. ASSUME NEW d \in Dials, Judge(d) PROVE TInv'
  <2>1. /\ trusted' \in [Hosts -> SUBSET Keys]
        /\ \A h \in Hosts : trusted'[h] \subseteq Known(file, h)
    <3>1. host[d] \in Hosts /\ key[d] \in Keys
        BY <1>4 DEF Judge, Returns, Goes
    <3>2. CASE trusted' = trusted
        BY <3>2
    <3>3. CASE /\ key[d] \in Known(file, host[d])
               /\ trusted' = [trusted EXCEPT ![host[d]] = @ \cup {key[d]}]
        BY <3>1, <3>3
    <3> QED
        BY <1>4, <3>2, <3>3 DEF Judge
  <2>2. \A h : Known(file', h) = Known(file, h)
      BY <1>4 DEF Judge
  <2>3. LockInv' /\ EndSeen'
      BY <1>4 DEF Judge, Returns, Goes
  <2>4. Typed'
    <3>1. /\ file' = file /\ server' = server
          /\ host' = [host EXCEPT ![d] = None]
          /\ key' = [key EXCEPT ![d] = None]
          /\ asked' = [asked EXCEPT ![d] = <<>>]
          /\ nl' = [nl EXCEPT ![d] = FALSE]
        BY <1>4 DEF Judge, Returns
    <3>2. PICK to \in Resting : pc' = [pc EXCEPT ![d] = to]
        BY <1>4 DEF Judge, Returns, Goes
    <3> QED
        BY <2>1, <3>1, <3>2
  <2> QED
      BY <2>1, <2>2, <2>3, <2>4
<1>5. ASSUME NEW d \in Dials, FirstUse(d) PROVE TInv'
    BY <1>5 DEF FirstUse, Goes
<1>6. ASSUME NEW d \in Dials, LookAtEnd(d) PROVE TInv'
    BY <1>6 DEF LookAtEnd, Goes, Unended
<1>7. ASSUME NEW d \in Dials, Add(d) PROVE TInv'
    BY <1>7, AddStep
<1>8. CASE Outside
    BY <1>8, OutsideStep
<1>9. ASSUME NEW h \in Hosts, Reinstalled(h) PROVE TInv'
    BY <1>9 DEF Reinstalled
<1>10. CASE UNCHANGED vars
    BY <1>10 DEF Known, EntriesOf, Entries
<1> QED
    BY <1>1, <1>2, <1>3, <1>4, <1>5, <1>6, <1>7, <1>8, <1>9, <1>10 DEF Next

LEMMA InitTrust == Init => TInv
<1> SUFFICES ASSUME Init PROVE TInv
    OBVIOUS
<1>1. LockInv /\ EndSeen /\ TrustedStaysRecorded
    BY DEF Init, LockInv, EndSeen, TrustedStaysRecorded, Recording, Resting
<1>2. file \in Seq(Pieces)
    BY DEF Init
<1>3. server \in [Hosts -> [age : 0 .. MaxAge, types : SUBSET Types]]
  <2>1. 0 \in 0 .. MaxAge
      BY KnownHostsAssumption
  <2>2. [age |-> 0, types |-> Types]
          \in [age : 0 .. MaxAge, types : SUBSET Types]
      BY <2>1
  <2> QED
      BY <2>2 DEF Init
<1>4. Typed
    BY <1>2, <1>3 DEF Init, Typed, Recording
<1> QED
    BY <1>1, <1>4 DEF TInv

\* No append, complete or cut short, of whatever dial, spoils what this
\* program has recorded of a key it accepted (appendKnownHost, sshconn.go).
THEOREM TrustIsKept == Spec => []TrustedStaysRecorded
<1>1. Init => TInv
    BY InitTrust
<1>2. TInv => TrustedStaysRecorded
    BY DEF TInv
<1> QED
    BY <1>1, <1>2, TrustStep, PTL DEF Spec

-----------------------------------------------------------------------------
(* No false alarm.                                                          *)
(*                                                                          *)
(* A dial that asks for the types it knows is shown a key of such a type,   *)
(* and what it knows stays in the file.  One that knows nothing asks for    *)
(* all types; whoever records the host in the meantime has asked for all    *)
(* of them, too, and so was shown the same key, unless the server has been  *)
(* reinstalled.                                                             *)

\* t is the first type of the preference that h has.
Preferred(h, t) ==
    \E i \in DOMAIN Preference :
        /\ Preference[i] = t /\ t \in server[h].types
        /\ \A j \in DOMAIN Preference :
              j < i => Preference[j] \notin server[h].types

\* h has shown k to somebody who asked for all types.
Best(h, k) ==
    /\ k.age <= server[h].age
    /\ k.age = server[h].age => Preferred(h, k.type)

AllBest(d) == \A k \in Known(file, host[d]) : Best(host[d], k)

Has(d, t) == \E k \in Known(file, host[d]) : k.type = t

AsksRight(d) ==
    ~outside[d] =>
        /\ pc[d] = "offer" =>
            \/ \A i \in DOMAIN asked[d] : Has(d, asked[d][i])
            \/ asked[d] = Preference /\ AllBest(d)
        /\ pc[d] = "check" =>
            /\ key[d].age <= server[host[d]].age
            /\ Has(d, key[d].type) \/ (Best(host[d], key[d]) /\ AllBest(d))
        /\ pc[d] \in Recording => Best(host[d], key[d])

AskInv == \A d \in Dials : AsksRight(d)

\* An append brings its own key and makes no other one readable.
LEMMA AppendAdds ==
    ASSUME NEW f \in Seq(Pieces), NEW e \in Pieces, NEW h,
           NEW k \in Known(Append(Ended(f), e), h)
    PROVE  k \in Known(f, h) \/ (k = e.key /\ h \in e.hosts)
<1> DEFINE g == Append(Ended(f), e)
<1>1. /\ g \in Seq(Pieces) /\ Len(g) = Len(f) + 1 /\ g[Len(f) + 1] = e
      /\ \A i \in 1 .. Len(f) : g[i] = Ended(f)[i]
    BY EndedIs
<1>2. DOMAIN f = 1 .. Len(f) /\ DOMAIN g = 1 .. Len(f) + 1 /\ Len(f) \in Nat
    BY <1>1
<1> HIDE DEF g
<1>3. PICK i \in Entries(g) :
        h \in g[i].hosts /\ g[i].revoked = FALSE /\ k = g[i].key
    BY DEF g, Known, EntriesOf
<1>4. CASE i = Len(f) + 1
    BY <1>1, <1>3, <1>4
<1>5. CASE i # Len(f) + 1
  <2>1. i \in 1 .. Len(f) /\ g[i].whole /\ (i > 1 => g[i - 1].nl) /\ g[i].nl
      BY <1>1, <1>2, <1>3, <1>5 DEF Entries
  <2>2. /\ g[i].hosts = f[i].hosts /\ g[i].key = f[i].key
        /\ g[i].revoked = f[i].revoked /\ g[i].whole = f[i].whole
        /\ i # Len(f) => g[i] = f[i]
    <3>1. g[i] = Ended(f)[i]
        BY <1>1, <2>1
    <3>2. i \in 1 .. Len(f)
        BY <2>1
    <3>3. /\ Ended(f)[i].hosts = f[i].hosts /\ Ended(f)[i].key = f[i].key
          /\ Ended(f)[i].revoked = f[i].revoked
          /\ Ended(f)[i].whole = f[i].whole
          /\ i # Len(f) => Ended(f)[i] = f[i]
        BY <3>2, EndedIs
    <3> QED
        BY <3>1, <3>3
  <2>3. ASSUME i > 1 PROVE f[i - 1].nl
    <3> DEFINE j == i - 1
    <3>1. j \in 1 .. Len(f) /\ j # Len(f)
        BY <1>2, <2>1, <2>3
    <3>2. g[j].nl
        BY <2>1, <2>3
    <3> HIDE DEF j
    <3>3. g[j] = f[j]
      <4>1. g[j] = Ended(f)[j]
          BY <1>1, <3>1
      <4> QED
          BY <3>1, <4>1, EndedIs
    <3>4. f[j].nl
        BY <3>2, <3>3
    <3> QED
        BY <3>4 DEF j
  <2>4. i \in Entries(f)
      BY <1>2, <2>1, <2>2, <2>3 DEF Entries
  <2> QED
      BY <1>3, <2>2, <2>4 DEF Known, EntriesOf
<1> QED
    BY <1>4, <1>5

\* Whatever happens to others, a dial's facts stay as long as its file grows
\* only by keys that its host shows.
LEMMA OthersKeep ==
    ASSUME NEW d \in Dials, AsksRight(d), server' = server,
           pc'[d] = pc[d], host'[d] = host[d], key'[d] = key[d],
           asked'[d] = asked[d], outside[d] => outside'[d],
           ~outside'[d] =>
              /\ Known(file, host[d]) \subseteq Known(file', host[d])
              /\ \A k \in Known(file', host[d]) :
                    k \in Known(file, host[d]) \/ Best(host[d], k)
    PROVE  AsksRight(d)'
<1> SUFFICES ASSUME ~outside'[d] PROVE AsksRight(d)'
    BY DEF AsksRight
<1>1. ~outside[d]
    OBVIOUS
<1>2. \A h, k : Best(h, k)' <=> Best(h, k)
    BY DEF Best, Preferred
<1>3. \A t : Has(d, t) => Has(d, t)'
    BY DEF Has
<1>4. AllBest(d) => AllBest(d)'
    BY <1>2 DEF AllBest
<1>5. CASE pc[d] = "offer"
    BY <1>1, <1>3, <1>4, <1>5 DEF AsksRight, Recording
<1>6. CASE pc[d] = "check"
    BY <1>1, <1>2, <1>3, <1>4, <1>6 DEF AsksRight, Recording
<1>7. CASE pc[d] \notin {"offer", "check"}
    BY <1>1, <1>2, <1>7 DEF AsksRight
<1> QED
    BY <1>5, <1>6, <1>7

\* A reinstalled server has a new age, and what it has shown before is old.
LEMMA ReinstalledKeeps ==
    ASSUME TInv, NEW g \in Hosts, Reinstalled(g),
           NEW d \in Dials, AsksRight(d)
    PROVE  AsksRight(d)'
<1>1. UNCHANGED <<file, pc, host, asked, key, outside>>
    BY DEF Reinstalled, dialVars
<1>2. \A h \in Hosts : server[h].age \in Nat
    BY KnownHostsAssumption DEF TInv, Typed
<1>3. PICK ty : server' = [server EXCEPT ![g] = [age |-> @.age + 1, types |-> ty]]
    BY DEF Reinstalled
<1>4. \A h \in Hosts : server'[h] = server[h] \/ server'[h].age = server[h].age + 1
    BY <1>3 DEF TInv, Typed
<1>5. ASSUME NEW h \in Hosts, NEW k \in Keys, Best(h, k) PROVE Best(h, k)'
  <2>1. k.age \in Nat
      BY KnownHostsAssumption DEF Keys
  <2>2. CASE server'[h] = server[h]
      BY <1>5, <2>2 DEF Best, Preferred
  <2>3. CASE server'[h].age = server[h].age + 1
      BY <1>2, <1>5, <2>1, <2>3 DEF Best
  <2> QED
      BY <1>4, <2>2, <2>3
<1>6. \A h : Known(file, h) \subseteq Keys
  <2>1. \A i \in DOMAIN file : file[i] \in Pieces
      BY DEF TInv, Typed
  <2>2. \A i \in DOMAIN file : file[i].key \in Keys
      BY <2>1 DEF Pieces
  <2> QED
      BY <2>2 DEF Known, EntriesOf, Entries
<1>7. host[d] \in Hosts => (AllBest(d) => AllBest(d)')
    BY <1>1, <1>5, <1>6 DEF AllBest
<1>8. \A t : Has(d, t)' <=> Has(d, t)
    BY <1>1 DEF Has
<1>9. CASE pc[d] = "offer"
  <2>1. host[d] \in Hosts
      BY <1>9 DEF TInv, Typed
  <2> QED
      BY <1>1, <1>7, <1>8, <1>9, <2>1 DEF AsksRight, Recording
<1>10. CASE pc[d] = "check"
  <2>1. host[d] \in Hosts /\ key[d] \in Keys /\ key[d].age \in Nat
      BY <1>10, KnownHostsAssumption DEF TInv, Typed, Keys
  <2>2. key[d].age <= server[host[d]].age => key[d].age <= server'[host[d]].age
      BY <1>2, <1>4, <2>1
  <2> QED
      BY <1>1, <1>5, <1>7, <1>8, <1>10, <2>1, <2>2 DEF AsksRight, Recording
<1>11. CASE pc[d] \in Recording
  <2>1. host[d] \in Hosts /\ key[d] \in Keys
      BY <1>11 DEF TInv, Typed
  <2> QED
      BY <1>1, <1>5, <1>11, <2>1 DEF AsksRight, Recording
<1> QED
    BY <1>1, <1>9, <1>10, <1>11 DEF AsksRight

\* Asking for what is known, or for everything.
LEMMA AskRight ==
    ASSUME TInv, NEW d \in Dials, NEW h \in Hosts, Ask(d, h)
    PROVE  AsksRight(d)'
<1> SUFFICES ASSUME ~outside'[d] PROVE AsksRight(d)'
    BY DEF AsksRight
<1>1. /\ file' = file /\ pc'[d] = "offer" /\ host'[d] = h
      /\ asked'[d] = Wanted(file, h)
    BY DEF Ask, TInv, LockInv, Typed, Goes
<1>2. CASE EntriesOf(file, h, FALSE) = {}
  <2>1. asked'[d] = Preference /\ Known(file, h) = {}
      BY <1>1, <1>2 DEF Wanted, Known
  <2> QED
      BY <1>1, <2>1 DEF AsksRight, AllBest, Recording
<1>3. CASE EntriesOf(file, h, FALSE) # {}
  <2>1. \A i \in DOMAIN asked'[d] :
           i \in EntriesOf(file, h, FALSE) /\ asked'[d][i] = file[i].key.type
      BY <1>1, <1>3 DEF Wanted
  <2>2. \A i \in DOMAIN asked'[d] :
           \E k \in Known(file', h) : k.type = asked'[d][i]
      BY <1>1, <2>1 DEF Known
  <2> QED
      BY <1>1, <2>2 DEF AsksRight, Has, Recording
<1> QED
    BY <1>2, <1>3

\* What the server then shows.
LEMMA OfferRight ==
    ASSUME TInv, NEW d \in Dials, AsksRight(d), Offer(d)
    PROVE  AsksRight(d)'
<1> SUFFICES ASSUME ~outside'[d] PROVE AsksRight(d)'
    BY DEF AsksRight
<1>1. /\ UNCHANGED <<file, server, host, outside>>
      /\ pc[d] = "offer" /\ pc'[d] = "check"
    BY DEF Offer, Goes, TInv, LockInv
<1>2. PICK i \in DOMAIN asked[d] :
        /\ asked[d][i] \in server[host[d]].types
        /\ \A j \in DOMAIN asked[d] :
              j < i => asked[d][j] \notin server[host[d]].types
        /\ key'[d] = [type |-> asked[d][i], age |-> server[host[d]].age]
    BY DEF Offer, TInv, Typed
<1>3. server[host[d]].age \in Nat
    BY <1>1, KnownHostsAssumption DEF TInv, Typed
<1>4. key'[d].age <= server[host[d]].age /\ key'[d].type = asked[d][i]
    BY <1>2, <1>3
<1>5. CASE \A n \in DOMAIN asked[d] : Has(d, asked[d][n])
  <2>1. \E k \in Known(file', host'[d]) : k.type = key'[d].type
      BY <1>1, <1>2, <1>4, <1>5 DEF Has
  <2> QED
      BY <1>1, <1>4, <2>1 DEF AsksRight, Has, Recording
<1>6. CASE asked[d] = Preference /\ AllBest(d)
  <2>1. Preferred(host[d], asked[d][i])
      BY <1>2, <1>6 DEF Preferred
  <2>2. AllBest(d)' /\ Best(host[d], key[d])'
      BY <1>1, <1>4, <1>6, <2>1 DEF AllBest, Best, Preferred
  <2> QED
      BY <1>1, <1>4, <2>2 DEF AsksRight, Recording
<1> QED
    BY <1>1, <1>5, <1>6 DEF AsksRight

\* What Add writes is a key that its host shows, or every dial is told.
LEMMA AddRight ==
    ASSUME TInv, AskInv, NEW e \in Dials, Add(e), NEW d \in Dials, d # e
    PROVE  AsksRight(d)'
<1>1. /\ server' = server /\ pc[e] = "append"
      /\ pc'[d] = pc[d] /\ host'[d] = host[d] /\ key'[d] = key[d]
      /\ asked'[d] = asked[d]
    BY DEF Add, Returns, Goes, TInv, LockInv, Typed
<1>2. AsksRight(d)
    BY DEF AskInv
<1>3. CASE pc[d] \in Resting
    BY <1>1, <1>3 DEF AsksRight, Resting, Recording
<1>4. CASE pc[d] \notin Resting /\ outside[e]
  <2>1. outside'[d]
      BY <1>1, <1>4 DEF Add
  <2> QED
      BY <2>1 DEF AsksRight
<1>5. CASE ~outside[e]
  <2>1. outside' = outside /\ nl[e] = Unended(file)
      BY <1>1, <1>5 DEF Add, TInv, EndSeen
  <2>2. \/ file' = file
        \/ \E w, n \in BOOLEAN : file' = Append(Ended(file), Line(e, w, n))
      BY <2>1 DEF Add, Ended
  <2>3. Best(host[e], key[e]) /\ host[e] \in Hosts /\ key[e] \in Keys
      BY <1>1, <1>5 DEF AskInv, AsksRight, Recording, TInv, Typed
  <2>4. file \in Seq(Pieces)
      BY DEF TInv, Typed
  <2>5. /\ Known(file, host[d]) \subseteq Known(file', host[d])
        /\ \A k \in Known(file', host[d]) :
              k \in Known(file, host[d]) \/ Best(host[d], k)
    <3>1. CASE file' = file
        BY <3>1
    <3>2. ASSUME NEW w \in BOOLEAN, NEW n \in BOOLEAN,
                 file' = Append(Ended(file), Line(e, w, n))
          PROVE  <2>5!1 /\ <2>5!2
      <4>1. /\ Line(e, w, n) \in Pieces
            /\ Line(e, w, n).hosts = {host[e]} /\ Line(e, w, n).key = key[e]
          BY <2>3, LineIs
      <4>2. Known(file, host[d]) \subseteq Known(file', host[d])
          BY <2>4, <3>2, <4>1, AppendKeeps
      <4>3. ASSUME NEW k \in Known(file', host[d])
            PROVE  k \in Known(file, host[d]) \/ Best(host[d], k)
        <5>1. \/ k \in Known(file, host[d])
              \/ k = Line(e, w, n).key /\ host[d] \in Line(e, w, n).hosts
            BY <2>4, <3>2, <4>1, <4>3, AppendAdds
        <5> QED
            BY <2>3, <4>1, <5>1
      <4> QED
          BY <4>2, <4>3
    <3> QED
        BY <2>2, <3>1, <3>2
  <2> QED
      BY <1>1, <1>2, <2>1, <2>5, OthersKeep
<1> QED
    BY <1>3, <1>4, <1>5

LEMMA AskStep == TInv /\ AskInv /\ [Next]_vars => AskInv'
<1> SUFFICES ASSUME TInv, AskInv, [Next]_vars, NEW d \in Dials
             PROVE  AsksRight(d)'
    BY DEF AskInv
<1> USE DEF LockInv, Typed
<1>0. AsksRight(d) /\ TInv
    BY DEF AskInv
<1>1. ASSUME NEW e \in Dials, NEW h \in Hosts, Ask(e, h) PROVE AsksRight(d)'
  <2>1. CASE e = d
      BY <1>1, <2>1, AskRight
  <2>2. CASE e # d
    <3>1. /\ file' = file /\ server' = server /\ key' = key
          /\ pc'[d] = pc[d] /\ host'[d] = host[d] /\ asked'[d] = asked[d]
          /\ outside'[d] = outside[d]
        BY <1>1, <2>2 DEF Ask, TInv
    <3> QED
        BY <1>0, <3>1, OthersKeep
  <2> QED
      BY <2>1, <2>2
<1>2. ASSUME NEW e \in Dials, Offer(e) PROVE AsksRight(d)'
  <2>1. CASE e = d
      BY <1>0, <1>2, <2>1, OfferRight
  <2>2. CASE e # d
    <3>1. /\ UNCHANGED <<file, server, host, outside>>
          /\ pc'[d] = pc[d] /\ asked'[d] = asked[d] /\ key'[d] = key[d]
        BY <1>2, <2>2 DEF Offer, Goes, TInv
    <3> QED
        BY <1>0, <3>1, OthersKeep
  <2> QED
      BY <2>1, <2>2
<1>3. ASSUME NEW e \in Dials, NoCommonType(e) \/ Judge(e) PROVE AsksRight(d)'
  <2>1. CASE e = d
    <3>1. pc'[d] \in Resting
        BY <1>3, <2>1 DEF NoCommonType, Judge, Returns, Goes, Resting, TInv
    <3> QED
        BY <3>1 DEF AsksRight, Resting, Recording
  <2>2. CASE e # d
    <3>1. /\ UNCHANGED <<file, server>>
          /\ pc'[d] = pc[d] /\ host'[d] = host[d] /\ asked'[d] = asked[d]
          /\ key'[d] = key[d] /\ outside'[d] = outside[d]
        BY <1>3, <2>2 DEF NoCommonType, Judge, Returns, Goes, TInv
    <3> QED
        BY <1>0, <3>1, OthersKeep
  <2> QED
      BY <2>1, <2>2
<1>4. ASSUME NEW e \in Dials, FirstUse(e) PROVE AsksRight(d)'
  <2>1. UNCHANGED <<file, server, host, asked, key, outside>>
      BY <1>4 DEF FirstUse
  <2>2. CASE e = d
    <3>1. pc[d] = "check" /\ pc'[d] = "end" /\ Known(file, host[d]) = {}
        BY <1>4, <2>2 DEF FirstUse, Goes, IsNew, TInv
    <3>2. outside[d] \/ Best(host[d], key[d])
        BY <1>0, <3>1 DEF AsksRight, Has
    <3> QED
        BY <2>1, <3>1, <3>2 DEF AsksRight, Recording, Best, Preferred
  <2>3. CASE e # d
    <3>1. pc'[d] = pc[d]
        BY <1>4, <2>3 DEF FirstUse, Goes, TInv
    <3> QED
        BY <1>0, <2>1, <3>1, OthersKeep
  <2> QED
      BY <2>2, <2>3
<1>5. ASSUME NEW e \in Dials, LookAtEnd(e) PROVE AsksRight(d)'
  <2>1. UNCHANGED <<file, server, host, asked, key>>
      BY <1>5 DEF LookAtEnd
  <2>2. outside[d] => outside'[d]
      BY <1>5 DEF LookAtEnd, TInv
  <2>3. CASE e = d
    <3>1. pc[d] = "end" /\ pc'[d] = "append"
        BY <1>5, <2>3 DEF LookAtEnd, Goes, TInv
    <3>2. outside[d] \/ Best(host[d], key[d])
        BY <1>0, <3>1 DEF AsksRight, Recording
    <3> QED
        BY <2>1, <2>2, <3>1, <3>2 DEF AsksRight, Recording, Best, Preferred
  <2>4. CASE e # d
    <3>1. pc'[d] = pc[d]
        BY <1>5, <2>4 DEF LookAtEnd, Goes, TInv
    <3> QED
        BY <1>0, <2>1, <2>2, <3>1, OthersKeep
  <2> QED
      BY <2>3, <2>4
<1>6. ASSUME NEW e \in Dials, Add(e) PROVE AsksRight(d)'
  <2>1. CASE e = d
    <3>1. pc'[d] \in Resting
        BY <1>6, <2>1 DEF Add, Returns, Goes, Resting, TInv
    <3> QED
        BY <3>1 DEF AsksRight, Resting, Recording
  <2>2. CASE e # d
      BY <1>6, <2>2, AddRight
  <2> QED
      BY <2>1, <2>2
<1>7. CASE Outside
  <2>1. UNCHANGED pc /\ outside' = [e \in Dials |-> pc[e] \notin Resting]
      BY <1>7 DEF Outside
  <2>2. pc'[d] \in Resting \/ outside'[d]
      BY <2>1
  <2> QED
      BY <2>2 DEF AsksRight, Resting, Recording
<1>8. ASSUME NEW h \in Hosts, Reinstalled(h) PROVE AsksRight(d)'
    BY <1>0, <1>8, ReinstalledKeeps
<1>9. CASE UNCHANGED vars
    BY <1>0, <1>9, OthersKeep
<1> QED
    BY <1>1, <1>2, <1>3, <1>4, <1>5, <1>6, <1>7, <1>8, <1>9 DEF Next

LEMMA TrustInvariance == Spec => [](TInv /\ AskInv)
<1>1. Init => TInv
    BY InitTrust
<1>2. Init => AskInv
    BY DEF Init, AskInv, AsksRight, Recording
<1> QED
    BY <1>1, <1>2, TrustStep, AskStep, PTL DEF Spec

\* The first of them is one.
LEMMA PreferredOne ==
    ASSUME NEW h, NEW t, NEW u, Preferred(h, t), Preferred(h, u)
    PROVE  t = u
<1>1. DOMAIN Preference \subseteq Nat
    BY KnownHostsAssumption
<1>2. PICK i \in DOMAIN Preference :
        /\ Preference[i] = t /\ t \in server[h].types
        /\ \A j \in DOMAIN Preference :
              j < i => Preference[j] \notin server[h].types
    BY DEF Preferred
<1>3. PICK j \in DOMAIN Preference :
        /\ Preference[j] = u /\ u \in server[h].types
        /\ \A n \in DOMAIN Preference :
              n < j => Preference[n] \notin server[h].types
    BY DEF Preferred
<1>4. i = j
    BY <1>1, <1>2, <1>3
<1> QED
    BY <1>2, <1>3, <1>4

\* No alarm for a server whose keys are all that is recorded of it, whatever
\* other dials record between the choice of the algorithms and the check
\* (hostKeyAlgorithms and checkHostKey, sshconn.go).
THEOREM NoAlarmIsFalse == Spec => NoFalseAlarm
<1> DEFINE Alarmed(d) ==
        pc[d] = "check" /\ pc'[d] = "alarm" /\ ~outside[d]
           Rightly(d) ==
        \/ ~(Known(file, host[d]) \subseteq KeysOf(host[d]))
        \/ key[d] \notin KeysOf(host[d])
<1>1. ASSUME TInv, AskInv, [Next]_vars, NEW d \in Dials, Alarmed(d)
      PROVE  Rightly(d)
  <2>1. /\ key[d] \notin Known(file, host[d])
        /\ Known(file, host[d]) # {}
    <3>1. Judge(d)
      <4>1. \A e \in Dials : e # d =>
               /\ ~Offer(e) /\ ~NoCommonType(e) /\ ~Judge(e) /\ ~FirstUse(e)
               /\ ~LookAtEnd(e) /\ ~Add(e) /\ \A h \in Hosts : ~Ask(e, h)
          BY <1>1 DEF TInv, LockInv, Offer, NoCommonType, Judge, FirstUse,
                      LookAtEnd, Add, Ask, Returns, Goes
      <4>2. /\ ~Offer(d) /\ ~NoCommonType(d) /\ ~FirstUse(d) /\ ~LookAtEnd(d)
            /\ ~Add(d) /\ \A h \in Hosts : ~Ask(d, h)
          BY <1>1 DEF TInv, LockInv, Offer, NoCommonType, FirstUse, LookAtEnd,
                      Add, Ask, Returns, Goes, Resting
      <4>3. ~Outside /\ ~UNCHANGED vars /\ \A h \in Hosts : ~Reinstalled(h)
          BY <1>1 DEF Outside, Reinstalled
      <4> QED
          BY <1>1, <4>1, <4>2, <4>3 DEF Next
    <3> QED
        BY <1>1, <3>1 DEF Judge, Returns, Goes, TInv, LockInv
  <2>2. SUFFICES ASSUME Known(file, host[d]) \subseteq KeysOf(host[d]),
                        key[d] \in KeysOf(host[d])
                 PROVE  key[d] \in Known(file, host[d])
      BY <2>1
  <2>3. \A k, l \in KeysOf(host[d]) : k.type = l.type => k = l
      BY DEF KeysOf
  <2>4. CASE Has(d, key[d].type)
      BY <2>2, <2>3, <2>4 DEF Has
  <2>5. CASE Best(host[d], key[d]) /\ AllBest(d)
    <3>1. PICK k : k \in Known(file, host[d])
        BY <2>1
    <3>2. k.age = server[host[d]].age /\ key[d].age = server[host[d]].age
        BY <2>2, <3>1 DEF KeysOf
    <3>3. Preferred(host[d], k.type) /\ Preferred(host[d], key[d].type)
        BY <2>5, <3>1, <3>2 DEF AllBest, Best
    <3>4. k.type = key[d].type
        BY <3>3, PreferredOne
    <3> QED
        BY <2>2, <2>3, <3>1, <3>4
  <2> QED
      BY <1>1, <2>4, <2>5 DEF AskInv, AsksRight
<1>2. TInv /\ AskInv /\ [Next]_vars => [\A d \in Dials : Alarmed(d) => Rightly(d)]_vars
    BY <1>1
<1> QED
    BY <1>2, TrustInvariance, PTL DEF NoFalseAlarm, Spec

-----------------------------------------------------------------------------
(* Types.                                                                   *)

\* What TypeOK says beyond the types above.
LockHeld ==
    /\ lock \in Dials \cup {None}
    /\ \A d \in Dials : lock = d <=> pc[d] \in Recording

Orders ==
    /\ DOMAIN asked = Dials
    /\ \A d \in Dials : \A i \in DOMAIN asked[d] :
          i \in Nat /\ asked[d][i] \in Types

Shown ==
    /\ server \in [Hosts -> [age : 0 .. MaxAge, types : (SUBSET Types) \ {{}}]]
    /\ key \in [Dials -> Keys \cup {None}]
    /\ mishaps \in 0 .. MaxMishaps

LEMMA TypeOKIs == TInv => (TypeOK <=> LockHeld /\ Orders /\ Shown)
<1> SUFFICES ASSUME TInv PROVE TypeOK <=> LockHeld /\ Orders /\ Shown
    OBVIOUS
<1>1. /\ file \in Seq(Pieces) /\ host \in [Dials -> Hosts \cup {None}]
      /\ nl \in [Dials -> BOOLEAN] /\ outside \in [Dials -> BOOLEAN]
      /\ trusted \in [Hosts -> SUBSET Keys]
      /\ pc \in [Dials -> Resting \cup {"offer", "check"} \cup Recording]
    BY Zenon DEF TInv, LockInv, Typed
<1>2. Resting \cup {"offer", "check"} \cup Recording
         = Resting \cup {"offer", "check", "end", "append"}
    BY DEF Recording
<1>3. Recording = {"end", "append"}
    BY DEF Recording
<1> QED
    BY <1>1, <1>2, <1>3, Zenon DEF TypeOK, LockHeld, Orders, Shown

LEMMA LockStep == TInv /\ LockHeld /\ [Next]_vars => LockHeld'
<1> SUFFICES ASSUME TInv, LockHeld, [Next]_vars PROVE LockHeld'
    OBVIOUS
<1> USE KnownHostsAssumption DEF TInv, LockInv, LockHeld, Recording, Resting
<1>1. ASSUME NEW d \in Dials,
             \/ \E h \in Hosts : Ask(d, h)
             \/ Offer(d) \/ NoCommonType(d) \/ Judge(d)
      PROVE  LockHeld'
    BY <1>1 DEF Ask, Offer, NoCommonType, Judge, Returns, Goes
<1>2. ASSUME NEW d \in Dials, FirstUse(d) PROVE LockHeld'
    BY <1>2 DEF FirstUse, Goes
<1>3. ASSUME NEW d \in Dials, LookAtEnd(d) PROVE LockHeld'
    BY <1>3 DEF LookAtEnd, Goes
<1>4. ASSUME NEW d \in Dials, Add(d) PROVE LockHeld'
  <2>1. /\ pc[d] = "append" /\ pc' = [pc EXCEPT ![d] = "idle"] /\ lock' = None
      BY <1>4 DEF Add, Returns, Goes
  <2> QED
      BY <2>1
<1>5. CASE UNCHANGED <<lock, pc>>
    BY <1>5
<1> QED
    BY <1>1, <1>2, <1>3, <1>4, <1>5 DEF Next, Outside, Reinstalled

LEMMA WantedOrder ==
    ASSUME file \in Seq(Pieces), NEW h, NEW i \in DOMAIN Wanted(file, h)
    PROVE  i \in Nat /\ Wanted(file, h)[i] \in Types
<1>1. \A n \in DOMAIN file : n \in Nat /\ file[n] \in Pieces
    OBVIOUS
<1>2. \A n \in EntriesOf(file, h, FALSE) : n \in Nat /\ file[n].key.type \in Types
    BY <1>1 DEF EntriesOf, Entries, Pieces, Keys
<1>3. \A n \in DOMAIN Preference : n \in Nat /\ Preference[n] \in Types
    BY KnownHostsAssumption DEF Types
<1> QED
    BY <1>2, <1>3 DEF Wanted

LEMMA OrderStep == TInv /\ Orders /\ [Next]_vars => Orders'
<1> SUFFICES ASSUME TInv, Orders, [Next]_vars PROVE Orders'
    OBVIOUS
<1>1. ASSUME NEW d \in Dials, NEW h \in Hosts, Ask(d, h) PROVE Orders'
  <2>1. PICK order : /\ asked' = [asked EXCEPT ![d] = order]
                     /\ order = Wanted(file, h) \/ order = Preference
      BY <1>1 DEF Ask
  <2>2. \A i \in DOMAIN order : i \in Nat /\ order[i] \in Types
    <3>1. \A n \in DOMAIN Preference : n \in Nat /\ Preference[n] \in Types
        BY KnownHostsAssumption DEF Types
    <3>2. file \in Seq(Pieces)
        BY DEF TInv, Typed
    <3> QED
        BY <2>1, <3>1, <3>2, WantedOrder
  <2> QED
      BY <2>1, <2>2 DEF Orders
<1>2. ASSUME NEW d \in Dials, asked' = [asked EXCEPT ![d] = <<>>] PROVE Orders'
    BY <1>2 DEF Orders
<1>3. CASE asked' = asked
    BY <1>3 DEF Orders
<1> QED
    BY <1>1, <1>2, <1>3
       DEF Next, Offer, NoCommonType, Judge, FirstUse, LookAtEnd, Add, Returns,
           Outside, Reinstalled

LEMMA ShownStep == TInv /\ Shown /\ [Next]_vars => Shown'
<1> SUFFICES ASSUME TInv, Shown, [Next]_vars PROVE Shown'
    OBVIOUS
<1>1. server' \in [Hosts -> [age : 0 .. MaxAge, types : (SUBSET Types) \ {{}}]]
  <2>1. CASE \E h \in Hosts : Reinstalled(h)
    <3>1. PICK h \in Hosts, ty \in (SUBSET Types) \ {{}} :
            /\ server[h].age < MaxAge
            /\ server' = [server EXCEPT ![h] = [age |-> @.age + 1, types |-> ty]]
        BY <2>1 DEF Reinstalled
    <3>2. server[h].age + 1 \in 0 .. MaxAge
        BY <3>1, KnownHostsAssumption DEF Shown
    <3> QED
        BY <3>1, <3>2 DEF Shown
  <2>2. CASE server' = server
      BY <2>2 DEF Shown
  <2> QED
      BY <2>1, <2>2
         DEF Next, Ask, Offer, NoCommonType, Judge, FirstUse, LookAtEnd, Add,
             Returns, Outside
<1>2. key' \in [Dials -> Keys \cup {None}]
  <2>1. ASSUME NEW d \in Dials, Offer(d)
        PROVE  key' \in [Dials -> Keys \cup {None}]
    <3>1. TInv'
        BY TrustStep
    <3>2. pc'[d] = "check"
        BY <2>1 DEF Offer, Goes, TInv, LockInv
    <3>3. key'[d] \in Keys
        BY <3>1, <3>2 DEF TInv, Typed
    <3>4. \E k : key' = [key EXCEPT ![d] = k]
        BY <2>1 DEF Offer
    <3> QED
        BY <3>3, <3>4 DEF Shown
  <2>2. ASSUME NEW d \in Dials, key' = [key EXCEPT ![d] = None]
        PROVE  key' \in [Dials -> Keys \cup {None}]
      BY <2>2 DEF Shown
  <2>3. CASE key' = key
      BY <2>3 DEF Shown
  <2> QED
      BY <2>1, <2>2, <2>3
         DEF Next, Ask, NoCommonType, Judge, FirstUse, LookAtEnd, Add, Returns,
             Outside, dialVars, Reinstalled
<1>3. mishaps' \in 0 .. MaxMishaps
  <2>1. mishaps' = mishaps \/ Mishap
      BY DEF Next, Ask, Offer, NoCommonType, Judge, FirstUse, LookAtEnd, Add,
             Outside, Reinstalled
  <2> QED
      BY <2>1, KnownHostsAssumption DEF Mishap, Shown
<1> QED
    BY <1>1, <1>2, <1>3 DEF Shown

\* The types of the file, of the servers and of the dials, and that e.mu is
\* held exactly from a lookup that finds nothing to the end of the append.
THEOREM TypeCorrect == Spec => []TypeOK
<1>1. Init => LockHeld /\ Orders
    BY KnownHostsAssumption DEF Init, LockHeld, Orders, Recording
<1>2. Init => Shown
  <2> SUFFICES ASSUME Init PROVE Shown
      OBVIOUS
  <2>1. 0 \in 0 .. MaxAge /\ 0 \in 0 .. MaxMishaps
      BY KnownHostsAssumption
  <2>2. Types \in (SUBSET Types) \ {{}}
    <3>1. Preference[1] \in Types
      <4>1. 1 \in DOMAIN Preference
          BY KnownHostsAssumption
      <4> QED
          BY <4>1 DEF Types
    <3> QED
        BY <3>1
  <2> QED
      BY <2>1, <2>2 DEF Init, Shown
<1> QED
    BY <1>1, <1>2, TrustInvariance, LockStep, OrderStep, ShownStep, TypeOKIs, PTL
       DEF Spec

=============================================================================
