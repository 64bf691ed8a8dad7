----------------------------- MODULE ParsingProofs -----------------------------
(***************************************************************************)
(* Proofs about the readers of the two files.  wildcardMatch, which         *)
(* remembers only the last star, decides every pattern rightly, and         *)
(* matchHost with it every list of patterns.  ParseConfig and LoadConfig    *)
(* accept exactly the files that are well-formed as a whole and make of     *)
(* them what their lines say, and a quoted value is read as it is.          *)
(***************************************************************************)
EXTENDS Config, HostPatterns, Integers, WellFoundedInduction, NaturalsInduction,
        SequenceTheorems, TLAPS

Cuts(chars, host) == [0..Len(chars) -> 0..Len(host)]

\* Where a round of the loop may be: q and j are p and i, s and m star and
\* mark.  What stands behind the last star has been matched in one stretch.
Place(chars, host, q, j, s, m) ==
    /\ q \in 1..Len(chars) + 1 /\ j \in 1..Len(host) + 1
    /\ s \in 0..q - 1 /\ m \in 1..j
    /\ j - m = q - 1 - s
    /\ s = 0 => m = 1
    /\ s > 0 => chars[s] = "*"
    /\ \A a \in s + 1 .. q - 1 : chars[a] # "*"

\* What has been matched so far can be, with the last star up to the mark.
Possible(chars, host, q, j, s, m) ==
    \E cut \in Cuts(chars, host) :
        /\ Stand(chars, host, cut, q - 1)
        /\ cut[q - 1] = j - 1 /\ cut[s] = m - 1

\* In no match of the whole does the last star end before the mark: what was
\* tried before it leads nowhere.
Earliest(chars, host, q, j, s, m) ==
    \A cut \in Cuts(chars, host) :
        Fits(chars, host, cut) =>
            /\ cut[s] >= m - 1
            /\ \A a \in s .. q - 1 : cut[a] = cut[s] + (a - s)

Loop(chars, host, q, j, s, m) ==
    /\ Place(chars, host, q, j, s, m)
    /\ Possible(chars, host, q, j, s, m)
    /\ Earliest(chars, host, q, j, s, m)

\* No case of the switch but the last two is left.
NoWay(chars, host, q, j) ==
    /\ j <= Len(host)
    /\ q <= Len(chars) => chars[q] \notin {"?", host[j], "*"}

-----------------------------------------------------------------------------
(* The loop of wildcardMatch, round by round.                              *)

LEMMA LoopBegins ==
    ASSUME NEW chars \in Seq(STRING), NEW host \in Seq(STRING \ {"*"})
    PROVE  Loop(chars, host, 1, 1, 0, 1)
<1>1. Place(chars, host, 1, 1, 0, 1)
  BY DEF Place
<1>2. Possible(chars, host, 1, 1, 0, 1)
  <2> DEFINE cut == [a \in 0..Len(chars) |-> 0]
  <2>1. cut \in Cuts(chars, host) /\ cut[0] = 0
    BY DEF Cuts
  <2>2. Stand(chars, host, cut, 0)
    BY <2>1 DEF Stand
  <2> QED BY <2>1, <2>2 DEF Possible
<1>3. Earliest(chars, host, 1, 1, 0, 1)
  BY DEF Earliest, Cuts, Fits, Stand
<1> QED BY <1>1, <1>2, <1>3 DEF Loop

LEMMA LoopSameChar ==
    ASSUME NEW chars \in Seq(STRING), NEW host \in Seq(STRING \ {"*"}),
           NEW q, NEW j, NEW s, NEW m,
           Loop(chars, host, q, j, s, m),
           j <= Len(host), q <= Len(chars), chars[q] \in {"?", host[j]}
    PROVE  Loop(chars, host, q + 1, j + 1, s, m)
<1> USE DEF Loop
<1>1. /\ q \in 1..Len(chars) /\ j \in 1..Len(host)
      /\ s \in 0..q - 1 /\ m \in 1..j /\ j - m = q - 1 - s
  BY DEF Place
<1>2. host[j] # "*"
  BY <1>1
<1>3. chars[q] # "*"
  BY <1>2
<1>4. Place(chars, host, q + 1, j + 1, s, m)
  BY <1>1, <1>3 DEF Place
<1>5. Possible(chars, host, q + 1, j + 1, s, m)
  <2>1. PICK cut \in Cuts(chars, host) :
            /\ Stand(chars, host, cut, q - 1)
            /\ cut[q - 1] = j - 1 /\ cut[s] = m - 1
    BY DEF Possible
  <2> DEFINE new == [cut EXCEPT ![q] = j]
  <2>2. new \in Cuts(chars, host) /\ new[q] = j
    BY <1>1 DEF Cuts
  <2>3. \A a \in 0..q - 1 : new[a] = cut[a]
    BY <1>1 DEF Cuts
  <2>4. ASSUME NEW a \in 0..q - 1
        PROVE  cut[a] <= j - 1 /\ cut[a] \in Nat
    <3>1. a \in 0..Len(chars) /\ a <= q - 1 /\ q - 1 \in 0..q - 1
      BY <1>1
    <3>2. cut[a] \in Nat
      BY <3>1 DEF Cuts
    <3> QED BY <1>1, <2>1, <3>1, <3>2 DEF Stand
  <2> HIDE DEF new
  <2>5. Stand(chars, host, new, q)
    <3>1. new[0] = 0
      BY <1>1, <2>1, <2>3 DEF Stand
    <3>2. ASSUME NEW a \in 1..q, chars[a] # "*"
          PROVE  new[a] = new[a - 1] + 1 /\ chars[a] \in {"?", host[new[a]]}
      <4>1. CASE a = q
        BY <1>1, <2>1, <2>2, <2>3, <4>1
      <4>2. CASE a # q
        <5>1. a \in 1..q - 1 /\ a - 1 \in 0..q - 1
          BY <1>1, <4>2
        <5>2. cut[a] = cut[a - 1] + 1 /\ chars[a] \in {"?", host[cut[a]]}
          BY <2>1, <3>2, <5>1 DEF Stand
        <5> QED BY <2>3, <5>1, <5>2
      <4> QED BY <4>1, <4>2
    <3>3. ASSUME NEW a \in 0..q, NEW b \in 0..q, a <= b
          PROVE  new[a] <= new[b]
      <4>1. CASE b = q
        BY <1>1, <2>2, <2>3, <2>4, <4>1
      <4>2. CASE b # q
        BY <1>1, <2>1, <2>3, <3>3, <4>2 DEF Stand
      <4> QED BY <4>1, <4>2
    <3> QED BY <3>1, <3>2, <3>3 DEF Stand
  <2>6. new[s] = m - 1
    BY <1>1, <2>1, <2>3
  <2> QED BY <1>1, <2>2, <2>5, <2>6 DEF Possible
<1>6. Earliest(chars, host, q + 1, j + 1, s, m)
  <2> SUFFICES ASSUME NEW cut \in Cuts(chars, host), Fits(chars, host, cut)
               PROVE  /\ cut[s] >= m - 1
                      /\ \A a \in s .. q : cut[a] = cut[s] + (a - s)
    BY <1>1 DEF Earliest
  <2>1. /\ cut[s] >= m - 1
        /\ \A a \in s .. q - 1 : cut[a] = cut[s] + (a - s)
    BY DEF Earliest
  <2>2. cut[q] = cut[q - 1] + 1
    BY <1>1, <1>3 DEF Fits, Stand
  <2>3. cut[q] = cut[s] + (q - s)
    <3>1. cut[q - 1] = cut[s] + (q - 1 - s)
      BY <1>1, <2>1
    <3>2. cut[s] \in Int /\ q \in Int /\ s \in Int
      BY <1>1 DEF Cuts
    <3> QED BY <2>2, <3>1, <3>2
  <2> QED BY <1>1, <2>1, <2>3
<1> QED BY <1>4, <1>5, <1>6

LEMMA LoopIsStar ==
    ASSUME NEW chars \in Seq(STRING), NEW host \in Seq(STRING \ {"*"}),
           NEW q, NEW j, NEW s, NEW m,
           Loop(chars, host, q, j, s, m),
           j <= Len(host), q <= Len(chars), chars[q] = "*"
    PROVE  Loop(chars, host, q + 1, j, q, j)
<1> USE DEF Loop
<1>1. /\ q \in 1..Len(chars) /\ j \in 1..Len(host)
      /\ s \in 0..q - 1 /\ m \in 1..j /\ j - m = q - 1 - s
  BY DEF Place
<1>2. Place(chars, host, q + 1, j, q, j)
  BY <1>1 DEF Place
<1>3. Possible(chars, host, q + 1, j, q, j)
  <2>1. PICK cut \in Cuts(chars, host) :
            /\ Stand(chars, host, cut, q - 1)
            /\ cut[q - 1] = j - 1
    BY DEF Possible
  <2> DEFINE new == [cut EXCEPT ![q] = j - 1]
  <2>2. new \in Cuts(chars, host) /\ new[q] = j - 1
    BY <1>1 DEF Cuts
  <2>3. \A a \in 0..q - 1 : new[a] = cut[a]
    BY <1>1 DEF Cuts
  <2>4. ASSUME NEW a \in 0..q - 1
        PROVE  cut[a] <= j - 1 /\ cut[a] \in Nat
    <3>1. a \in 0..Len(chars) /\ a <= q - 1 /\ q - 1 \in 0..q - 1
      BY <1>1
    <3>2. cut[a] \in Nat
      BY <3>1 DEF Cuts
    <3> QED BY <1>1, <2>1, <3>1, <3>2 DEF Stand
  <2> HIDE DEF new
  <2>5. Stand(chars, host, new, q)
    <3>1. new[0] = 0
      BY <1>1, <2>1, <2>3 DEF Stand
    <3>2. ASSUME NEW a \in 1..q, chars[a] # "*"
          PROVE  new[a] = new[a - 1] + 1 /\ chars[a] \in {"?", host[new[a]]}
      <4>1. a # q
        BY <3>2
      <4> QED BY <1>1, <2>1, <2>3, <3>2, <4>1 DEF Stand
    <3>3. ASSUME NEW a \in 0..q, NEW b \in 0..q, a <= b
          PROVE  new[a] <= new[b]
      <4>1. CASE b = q
        BY <1>1, <2>2, <2>3, <2>4, <4>1
      <4>2. CASE b # q
        BY <1>1, <2>1, <2>3, <3>3, <4>2 DEF Stand
      <4> QED BY <4>1, <4>2
    <3> QED BY <3>1, <3>2, <3>3 DEF Stand
  <2> QED BY <1>1, <2>2, <2>5 DEF Possible
<1>4. Earliest(chars, host, q + 1, j, q, j)
  <2> SUFFICES ASSUME NEW cut \in Cuts(chars, host), Fits(chars, host, cut)
               PROVE  /\ cut[q] >= j - 1
                      /\ \A a \in q .. q : cut[a] = cut[q] + (a - q)
    BY <1>1 DEF Earliest
  <2>1. /\ cut[s] >= m - 1
        /\ cut[q - 1] = cut[s] + (q - 1 - s)
    BY <1>1 DEF Earliest
  <2>2. cut[q - 1] <= cut[q]
    BY <1>1 DEF Fits, Stand
  <2>3. cut[s] \in Nat /\ cut[q] \in Nat
    BY <1>1 DEF Cuts
  <2> QED BY <1>1, <2>1, <2>2, <2>3
<1> QED BY <1>2, <1>3, <1>4

\* Where the loop is stuck the last star does not end at the mark.
LEMMA Beyond ==
    ASSUME NEW chars \in Seq(STRING), NEW host \in Seq(STRING \ {"*"}),
           NEW q, NEW j, NEW s, NEW m,
           Loop(chars, host, q, j, s, m), NoWay(chars, host, q, j),
           NEW cut \in Cuts(chars, host), Fits(chars, host, cut)
    PROVE  cut[s] >= m
<1> SUFFICES ASSUME cut[s] = m - 1 PROVE FALSE
  <2>1. cut[s] >= m - 1 /\ s \in 0..Len(chars) /\ m \in Nat
    BY DEF Loop, Earliest, Place
  <2> QED BY <2>1 DEF Cuts
<1>1. /\ q \in 1..Len(chars) + 1 /\ j \in 1..Len(host)
      /\ s \in 0..q - 1 /\ m \in 1..j /\ j - m = q - 1 - s
  BY DEF Loop, Place, NoWay
<1>2. cut[q - 1] = cut[s] + (q - 1 - s)
  BY <1>1 DEF Loop, Earliest
<1>3. cut[q - 1] = j - 1
  BY <1>1, <1>2
<1>4. CASE q = Len(chars) + 1
  BY <1>1, <1>3, <1>4 DEF Fits
<1>5. CASE q <= Len(chars)
  <2>1. chars[q] \notin {"?", host[j], "*"}
    BY <1>5 DEF NoWay
  <2>2. cut[q] = cut[q - 1] + 1 /\ chars[q] \in {"?", host[cut[q]]}
    BY <1>1, <1>5, <2>1 DEF Fits, Stand
  <2> QED BY <1>1, <1>3, <2>1, <2>2
<1> QED BY <1>1, <1>4, <1>5

LEMMA LoopGoBack ==
    ASSUME NEW chars \in Seq(STRING), NEW host \in Seq(STRING \ {"*"}),
           NEW q, NEW j, NEW s, NEW m,
           Loop(chars, host, q, j, s, m), NoWay(chars, host, q, j), s > 0
    PROVE  Loop(chars, host, s + 1, m + 1, s, m + 1)
<1>1. /\ q \in 1..Len(chars) + 1 /\ j \in 1..Len(host)
      /\ s \in 1..q - 1 /\ m \in 1..j /\ j - m = q - 1 - s /\ chars[s] = "*"
  BY DEF Loop, Place, NoWay
<1>2. Place(chars, host, s + 1, m + 1, s, m + 1)
  BY <1>1 DEF Place
<1>3. Possible(chars, host, s + 1, m + 1, s, m + 1)
  <2>1. PICK cut \in Cuts(chars, host) :
            /\ Stand(chars, host, cut, q - 1)
            /\ cut[s] = m - 1
    BY DEF Loop, Possible
  <2> DEFINE new == [cut EXCEPT ![s] = m]
  <2>2. new \in Cuts(chars, host) /\ new[s] = m
    BY <1>1 DEF Cuts
  <2>3. \A a \in 0..s - 1 : new[a] = cut[a]
    BY <1>1 DEF Cuts
  <2>4. ASSUME NEW a \in 0..s - 1
        PROVE  cut[a] <= m - 1 /\ cut[a] \in Nat
    <3>1. a \in 0..Len(chars) /\ a \in 0..q - 1 /\ s \in 0..q - 1 /\ a <= s
      BY <1>1
    <3>2. cut[a] \in Nat
      BY <3>1 DEF Cuts
    <3>3. cut[a] <= cut[s]
      BY <2>1, <3>1 DEF Stand
    <3> QED BY <2>1, <3>2, <3>3
  <2> HIDE DEF new
  <2>5. Stand(chars, host, new, s)
    <3>1. new[0] = 0
      BY <1>1, <2>1, <2>3 DEF Stand
    <3>2. ASSUME NEW a \in 1..s, chars[a] # "*"
          PROVE  new[a] = new[a - 1] + 1 /\ chars[a] \in {"?", host[new[a]]}
      <4>1. a # s
        BY <1>1, <3>2
      <4> QED BY <1>1, <2>1, <2>3, <3>2, <4>1 DEF Stand
    <3>3. ASSUME NEW a \in 0..s, NEW b \in 0..s, a <= b
          PROVE  new[a] <= new[b]
      <4>1. CASE b = s
        BY <1>1, <2>2, <2>3, <2>4, <4>1
      <4>2. CASE b # s
        BY <1>1, <2>1, <2>3, <3>3, <4>2 DEF Stand
      <4> QED BY <4>1, <4>2
    <3> QED BY <3>1, <3>2, <3>3 DEF Stand
  <2> QED BY <1>1, <2>2, <2>5 DEF Possible
<1>4. Earliest(chars, host, s + 1, m + 1, s, m + 1)
  <2> SUFFICES ASSUME NEW cut \in Cuts(chars, host), Fits(chars, host, cut)
               PROVE  /\ cut[s] >= m
                      /\ \A a \in s .. s : cut[a] = cut[s] + (a - s)
    BY <1>1 DEF Earliest
  <2>1. cut[s] >= m /\ cut[s] \in Nat
    BY <1>1, Beyond DEF Cuts
  <2> QED BY <1>1, <2>1
<1> QED BY <1>2, <1>3, <1>4 DEF Loop

\* Without a star to go back to there is no match.
LEMMA LoopFails ==
    ASSUME NEW chars \in Seq(STRING), NEW host \in Seq(STRING \ {"*"}),
           NEW q, NEW j, NEW s, NEW m,
           Loop(chars, host, q, j, s, m), NoWay(chars, host, q, j), s = 0,
           NEW cut \in Cuts(chars, host)
    PROVE  ~Fits(chars, host, cut)
<1> SUFFICES ASSUME Fits(chars, host, cut) PROVE FALSE
  OBVIOUS
<1>1. cut[0] >= m
  BY Beyond
<1>2. cut[0] = 0 /\ m = 1
  BY DEF Loop, Place, Fits, Stand
<1> QED BY <1>1, <1>2

\* At the end of the name it has been covered if only stars are left.
LEMMA LoopEnds ==
    ASSUME NEW chars \in Seq(STRING), NEW host \in Seq(STRING \ {"*"}),
           NEW q, NEW j, NEW s, NEW m,
           Loop(chars, host, q, j, s, m), j > Len(host)
    PROVE  (\E cut \in Cuts(chars, host) : Fits(chars, host, cut))
               <=> \A k \in q..Len(chars) : chars[k] = "*"
<1>1. /\ q \in 1..Len(chars) + 1 /\ j = Len(host) + 1
      /\ s \in 0..q - 1 /\ m \in 1..j /\ j - m = q - 1 - s
  BY DEF Loop, Place
<1>2. ASSUME NEW cut \in Cuts(chars, host), Fits(chars, host, cut),
             NEW k \in q..Len(chars)
      PROVE  chars[k] = "*"
  <2>1. /\ s \in 0..Len(chars) /\ q - 1 \in 0..Len(chars)
        /\ k \in 1..Len(chars) /\ k - 1 \in 0..Len(chars) /\ q - 1 <= k - 1
    BY <1>1
  <2>2. cut[s] >= m - 1 /\ cut[q - 1] = cut[s] + (q - 1 - s)
    BY <1>1, <1>2 DEF Loop, Earliest
  <2>3. /\ cut[s] \in 0..Len(host) /\ cut[k] \in 0..Len(host)
        /\ cut[k - 1] \in 0..Len(host) /\ cut[q - 1] \in 0..Len(host)
    <3>1. \A a \in 0..Len(chars) : cut[a] \in 0..Len(host)
      BY DEF Cuts
    <3> QED BY <2>1, <3>1
  <2>4. cut[q - 1] >= Len(host)
    <3>1. m - 1 + (q - 1 - s) = Len(host) /\ q - 1 - s \in Nat /\ m - 1 \in Nat
      BY <1>1
    <3> DEFINE long == q - 1 - s
    <3> HIDE DEF long
    <3>2. cut[q - 1] = cut[s] + long /\ m - 1 + long = Len(host) /\ long \in Nat
      BY <2>2, <3>1 DEF long
    <3> QED BY <2>2, <2>3, <3>1, <3>2
  <2>5. cut[q - 1] <= cut[k - 1]
    BY <1>2, <2>1 DEF Fits, Stand
  <2>6. cut[k] # cut[k - 1] + 1
    BY <2>3, <2>4, <2>5
  <2> QED BY <1>2, <2>1, <2>6 DEF Fits, Stand
<1>3. ASSUME \A k \in q..Len(chars) : chars[k] = "*"
      PROVE  \E cut \in Cuts(chars, host) : Fits(chars, host, cut)
  <2>1. PICK cut \in Cuts(chars, host) :
            Stand(chars, host, cut, q - 1) /\ cut[q - 1] = j - 1
    BY DEF Loop, Possible
  <2> DEFINE new == [a \in 0..Len(chars) |-> IF a < q THEN cut[a] ELSE Len(host)]
  <2>2. new \in Cuts(chars, host)
    BY DEF Cuts
  <2>3. \A a \in 0..Len(chars) :
            new[a] = IF a < q THEN cut[a] ELSE Len(host)
    OBVIOUS
  <2>4. \A a \in 0..Len(chars) : cut[a] \in 0..Len(host)
    BY DEF Cuts
  <2> HIDE DEF new
  <2>5. new[0] = 0
    <3>1. cut[0] = 0
      BY <2>1 DEF Stand
    <3> QED BY <1>1, <2>3, <3>1
  <2>6. ASSUME NEW a \in 1..Len(chars), chars[a] # "*"
        PROVE  new[a] = new[a - 1] + 1 /\ chars[a] \in {"?", host[new[a]]}
    <3>1. a < q
      BY <1>1, <1>3, <2>6
    <3>2. a \in 1..q - 1
      BY <1>1, <3>1
    <3>3. cut[a] = cut[a - 1] + 1 /\ chars[a] \in {"?", host[cut[a]]}
      BY <2>1, <2>6, <3>2 DEF Stand
    <3>4. new[a] = cut[a] /\ new[a - 1] = cut[a - 1]
      BY <1>1, <2>3, <3>1
    <3> QED BY <3>3, <3>4
  <2>7. ASSUME NEW a \in 0..Len(chars), NEW b \in 0..Len(chars), a <= b
        PROVE  new[a] <= new[b]
    <3>1. CASE b < q
      BY <1>1, <2>1, <2>3, <2>7, <3>1 DEF Stand
    <3>2. CASE ~(b < q)
      BY <1>1, <2>3, <2>4, <3>2
    <3> QED BY <3>1, <3>2
  <2>8. new[Len(chars)] = Len(host)
    <3>1. Len(chars) < q => Len(chars) = q - 1 /\ j - 1 = Len(host)
      BY <1>1
    <3> QED BY <2>1, <2>3, <3>1
  <2>9. Fits(chars, host, new)
    BY <2>5, <2>6, <2>7, <2>8 DEF Fits, Stand
  <2> QED BY <2>2, <2>9
<1> QED BY <1>2, <1>3

-----------------------------------------------------------------------------
(* matchHost.                                                              *)

Given == patterns \in PatternLists /\ name \in Names

\* What is known of the patterns before the one being tried.
SoFar ==
    /\ matched <=> \E k \in 1..n - 1 : Covers(patterns[k], name)
    /\ \A k \in 1..n - 1 : Covers(patterns[k], name) => ~patterns[k].negate

\* The loop is in one of the places where it decides rightly.
AtWork ==
    n <= Len(patterns) /\ ~patterns[n].hashed =>
        Loop(patterns[n].chars, name, p, i, star, mark)

\* The variables of the loop are naturals, and a fresh pattern is begun with
\* both at their beginning.
Counters ==
    /\ p \in Nat \ {0} /\ star \in Nat /\ mark \in Nat \ {0}
    /\ n > Len(patterns) => p = 1

PatternsInv ==
    /\ Given /\ PatternsTypeOK /\ Counters
    /\ answer = Undecided => SoFar /\ AtWork
    /\ MatchesAsMeant

\* The arguments are sequences.
LEMMA TypesOfGiven ==
    ASSUME Given
    PROVE  /\ Len(patterns) \in Nat /\ DOMAIN patterns = 1..Len(patterns)
           /\ name \in Seq(STRING \ {"*"}) /\ Len(name) \in Nat
           /\ \A k \in 1..Len(patterns) :
                  /\ patterns[k].chars \in Seq(STRING)
                  /\ Len(patterns[k].chars) \in Nat
                  /\ patterns[k].negate \in BOOLEAN
                  /\ patterns[k].hashed \in BOOLEAN
<1> DEFINE Patterns == [negate : BOOLEAN, hashed : BOOLEAN, chars : Seq(STRING)]
<1>1. patterns \in Seq(Patterns) /\ name \in Seq(STRING \ {"*"})
  BY PatternsAssumption DEF Given
<1>2. ASSUME NEW k \in 1..Len(patterns)
      PROVE  /\ patterns[k].chars \in Seq(STRING)
             /\ patterns[k].negate \in BOOLEAN
             /\ patterns[k].hashed \in BOOLEAN
  <2>1. patterns[k] \in Patterns
    <3> HIDE DEF Patterns
    <3> QED BY <1>1, <1>2
  <2> QED BY <2>1
<1> HIDE DEF Patterns
<1>3. /\ Len(patterns) \in Nat /\ DOMAIN patterns = 1..Len(patterns)
      /\ Len(name) \in Nat
  BY <1>1
<1>4. \A k \in 1..Len(patterns) : Len(patterns[k].chars) \in Nat
  BY <1>2
<1> QED BY <1>1, <1>2, <1>3, <1>4

LEMMA InitPatterns == PatternsInit => PatternsInv
<1> SUFFICES ASSUME PatternsInit PROVE PatternsInv
  OBVIOUS
<1>1. Given
  BY DEF PatternsInit, Given
<1>2. PatternsTypeOK /\ Counters
  <2>1. /\ 1 \in 1..Len(patterns) + 1 /\ 1 \in 1..Len(name) + 1
        /\ 1 <= Len(patterns) => 1 \in 1..Len(patterns[1].chars) + 1
    BY <1>1, TypesOfGiven
  <2>2. /\ n = 1 /\ p = 1 /\ i = 1 /\ star = 0 /\ mark = 1
        /\ matched = FALSE /\ answer = Undecided
    BY DEF PatternsInit
  <2>3. star < p /\ mark <= i
    BY <2>2
  <2>4. PatternsTypeOK
    BY <2>1, <2>2, <2>3, Zenon DEF PatternsTypeOK
  <2> QED BY <2>2, <2>4 DEF Counters
<1>3. SoFar
  BY DEF PatternsInit, SoFar
<1>4. AtWork
  BY <1>1, TypesOfGiven, LoopBegins DEF PatternsInit, AtWork
<1>5. MatchesAsMeant
  BY DEF PatternsInit, MatchesAsMeant
<1> QED BY <1>1, <1>2, <1>3, <1>4, <1>5 DEF PatternsInv

\* matchHost draws the right conclusion from the result of one pattern.
LEMMA StepTried ==
    ASSUME PatternsInv, answer = Undecided, n <= Len(patterns),
           NEW ok \in BOOLEAN, ok <=> Covers(patterns[n], name),
           Tried(ok)
    PROVE  PatternsInv'
<1>1. /\ Len(patterns) \in Nat /\ n \in 1..Len(patterns)
      /\ patterns[n].negate \in BOOLEAN /\ Given
      /\ DOMAIN patterns = 1..Len(patterns)
  BY TypesOfGiven DEF PatternsInv, PatternsTypeOK
<1>2. /\ patterns' = patterns /\ name' = name /\ n' = n + 1
      /\ p' = 1 /\ i' = 1 /\ star' = 0 /\ mark' = 1
      /\ matched' = (matched \/ ok)
      /\ answer' = IF ok /\ patterns[n].negate THEN FALSE ELSE Undecided
  BY DEF Tried
<1>3. Given'
  BY <1>1, <1>2 DEF Given
<1>4. PatternsTypeOK' /\ Counters'
  <2>1. matched' \in BOOLEAN
    BY <1>2 DEF PatternsInv, PatternsTypeOK
  <2>2. answer' \in {Undecided, TRUE, FALSE}
    BY <1>2
  <2>3. n' \in 1..Len(patterns') + 1 /\ i' \in 1..Len(name') + 1
    BY <1>1, <1>2, TypesOfGiven
  <2>4. n' <= Len(patterns') => p' \in 1..Len(patterns'[n'].chars) + 1
    BY <1>1, <1>2, TypesOfGiven
  <2> QED BY <1>2, <2>1, <2>2, <2>3, <2>4 DEF PatternsTypeOK, Counters
<1>5. ASSUME answer' = Undecided
      PROVE  SoFar' /\ AtWork'
  <2>1. ~(ok /\ patterns[n].negate)
    BY <1>2, <1>5, PatternsAssumption
  <2>2. SoFar
    BY DEF PatternsInv
  <2>3. SoFar'
    <3>1. \A k : k \in 1..n' - 1 <=> k \in 1..n - 1 \/ k = n
      BY <1>1, <1>2
    <3>2. /\ patterns' = patterns /\ name' = name /\ matched' = (matched \/ ok)
          /\ ok <=> Covers(patterns[n], name)
      BY <1>2
    <3>3. /\ matched <=> \E k \in 1..n - 1 : Covers(patterns[k], name)
          /\ \A k \in 1..n - 1 :
                 Covers(patterns[k], name) => ~patterns[k].negate
      BY <2>2 DEF SoFar
    <3>4. matched' <=> \E k \in 1..n' - 1 : Covers(patterns'[k], name')
      BY <3>1, <3>2, <3>3, Zenon
    <3>5. \A k \in 1..n' - 1 :
              Covers(patterns'[k], name') => ~patterns'[k].negate
      BY <2>1, <3>1, <3>2, <3>3, Zenon
    <3> QED BY <3>4, <3>5 DEF SoFar
  <2>4. AtWork'
    BY <1>1, <1>2, TypesOfGiven, LoopBegins DEF AtWork
  <2> QED BY <2>3, <2>4
<1>6. MatchesAsMeant'
  <2>1. CASE ok /\ patterns[n].negate
    BY <1>1, <1>2, <2>1 DEF MatchesAsMeant
  <2>2. CASE ~(ok /\ patterns[n].negate)
    BY <1>2, <2>2 DEF MatchesAsMeant
  <2> QED BY <2>1, <2>2
<1> QED BY <1>3, <1>4, <1>5, <1>6 DEF PatternsInv

LEMMA PlaceBounds ==
    ASSUME NEW chars, NEW host, Len(chars) \in Nat, Len(host) \in Nat,
           NEW q, NEW j, NEW s, NEW m, Place(chars, host, q, j, s, m)
    PROVE  /\ q \in 1..Len(chars) + 1 /\ j \in 1..Len(host) + 1
           /\ s \in Nat /\ s < q /\ m \in Nat \ {0} /\ m <= j
BY DEF Place

\* A round of the loop changes nothing else.
LEMMA StepLoop ==
    ASSUME PatternsInv, Trying(FALSE),
           UNCHANGED <<patterns, name, n, matched, answer>>,
           Loop(pattern, name, p', i', star', mark')
    PROVE  PatternsInv'
<1>1. n \in 1..Len(patterns) /\ Given /\ n \in Nat /\ Len(patterns) \in Nat
  BY TypesOfGiven DEF Trying, PatternsInv, PatternsTypeOK
<1>2. /\ Len(patterns[n].chars) \in Nat /\ Len(name) \in Nat
  BY <1>1, TypesOfGiven
<1>3. /\ p' \in 1..Len(patterns[n].chars) + 1 /\ i' \in 1..Len(name) + 1
      /\ star' \in Nat /\ star' < p' /\ mark' \in Nat \ {0} /\ mark' <= i'
  BY <1>2, PlaceBounds DEF Loop, pattern
<1>4. Given'
  BY <1>1 DEF Given
<1>5. PatternsTypeOK'
  BY <1>1, <1>3 DEF PatternsInv, PatternsTypeOK
<1>6. Counters'
  BY <1>1, <1>2, <1>3 DEF Counters
<1>7. SoFar'
  BY DEF PatternsInv, SoFar, Trying
<1>8. AtWork'
  BY DEF AtWork, pattern
<1>9. MatchesAsMeant'
  BY DEF MatchesAsMeant, Trying
<1> QED BY <1>4, <1>5, <1>6, <1>7, <1>8, <1>9 DEF PatternsInv

LEMMA StepPatterns ==
    ASSUME PatternsInv, [PatternsNext]_patternVars
    PROVE  PatternsInv'
<1>1. Given
  BY DEF PatternsInv
<1>2. ASSUME Trying(FALSE)
      PROVE  /\ pattern \in Seq(STRING) /\ name \in Seq(STRING \ {"*"})
             /\ Loop(pattern, name, p, i, star, mark)
             /\ n \in 1..Len(patterns) /\ answer = Undecided
             /\ Covers(patterns[n], name) <=>
                    \E cut \in Cuts(pattern, name) : Fits(pattern, name, cut)
  <2>1. n \in 1..Len(patterns) /\ ~patterns[n].hashed /\ answer = Undecided
    BY <1>1, <1>2, TypesOfGiven DEF Trying, PatternsInv, PatternsTypeOK
  <2> QED BY <1>1, <2>1, TypesOfGiven
          DEF PatternsInv, AtWork, pattern, Covers, Cuts
<1>3. CASE SameChar
  <2>1. Loop(pattern, name, p', i', star', mark')
    BY <1>2, <1>3, LoopSameChar DEF SameChar
  <2> QED BY <1>3, <2>1, StepLoop DEF SameChar
<1>4. CASE IsStar
  <2>1. Loop(pattern, name, p', i', star', mark')
    BY <1>2, <1>4, LoopIsStar DEF IsStar
  <2> QED BY <1>4, <2>1, StepLoop DEF IsStar
<1>5. ASSUME Stuck
      PROVE  NoWay(pattern, name, p, i) /\ Trying(FALSE)
  BY <1>5 DEF Stuck, NoWay
<1>6. CASE GoBack
  <2>1. Loop(pattern, name, p', i', star', mark')
    BY <1>2, <1>5, <1>6, LoopGoBack DEF GoBack
  <2>2. Trying(FALSE) /\ UNCHANGED <<patterns, name, n, matched, answer>>
    BY <1>5, <1>6 DEF GoBack
  <2> QED BY <2>1, <2>2, StepLoop
<1>7. CASE NoStar
  <2>1. Stuck /\ star = 0 /\ Tried(FALSE)
    BY <1>7 DEF NoStar
  <2>2. ~Covers(patterns[n], name)
    BY <1>2, <1>5, <2>1, LoopFails
  <2>3. answer = Undecided /\ n <= Len(patterns)
    BY <1>5, <2>1 DEF Trying
  <2> QED BY <2>1, <2>2, <2>3, StepTried
<1>8. CASE NameEnds
  <2> DEFINE ok == \A k \in p..Len(pattern) : pattern[k] = "*"
  <2>1. Trying(FALSE) /\ i > Len(name) /\ Tried(ok)
    BY <1>8 DEF NameEnds
  <2>2. ok <=> Covers(patterns[n], name)
    BY <1>2, <2>1, LoopEnds
  <2>3. answer = Undecided /\ n <= Len(patterns) /\ ok \in BOOLEAN
    BY <2>1 DEF Trying
  <2> HIDE DEF ok
  <2> QED BY <2>1, <2>2, <2>3, StepTried
<1>9. CASE Hashed
  <2> DEFINE ok == pattern = name
  <2>1. Trying(TRUE) /\ Tried(ok)
    BY <1>9 DEF Hashed
  <2>2. ok <=> Covers(patterns[n], name)
    BY <2>1 DEF Trying, Covers, pattern
  <2>3. answer = Undecided /\ n <= Len(patterns) /\ ok \in BOOLEAN
    BY <2>1 DEF Trying
  <2> HIDE DEF ok
  <2> QED BY <2>1, <2>2, <2>3, StepTried
<1>10. CASE AllTried
  <2>1. /\ n = Len(patterns) + 1 /\ Len(patterns) \in Nat
        /\ DOMAIN patterns = 1..Len(patterns)
    BY <1>1, <1>10, TypesOfGiven DEF AllTried, PatternsInv, PatternsTypeOK
  <2>2. /\ matched <=> \E k \in DOMAIN patterns : Covers(patterns[k], name)
        /\ \A k \in DOMAIN patterns :
               Covers(patterns[k], name) => ~patterns[k].negate
    BY <1>10, <2>1 DEF AllTried, PatternsInv, SoFar
  <2>3. /\ answer' = matched /\ matched \in BOOLEAN
        /\ UNCHANGED <<patterns, name, n, matched, loopVars>>
    BY <1>10 DEF AllTried, PatternsInv, PatternsTypeOK
  <2>4. MatchesAsMeant'
    BY <2>2, <2>3 DEF MatchesAsMeant
  <2>5. Given' /\ PatternsTypeOK' /\ Counters'
    BY <2>3 DEF PatternsInv, Given, PatternsTypeOK, Counters, loopVars
  <2>6. answer' # Undecided
    BY <2>3, PatternsAssumption
  <2> QED BY <2>4, <2>5, <2>6 DEF PatternsInv
<1>11. CASE UNCHANGED patternVars
  BY <1>11 DEF patternVars, loopVars, PatternsInv, Given, PatternsTypeOK,
               Counters, SoFar, AtWork, MatchesAsMeant
<1> QED BY <1>3, <1>4, <1>6, <1>7, <1>8, <1>9, <1>10, <1>11 DEF PatternsNext

LEMMA PatternsInvariance == PatternsSpec => []PatternsInv
BY InitPatterns, StepPatterns, PTL DEF PatternsSpec

\* The loop stays within the pattern and the name (wildcardMatch).
THEOREM PatternsTypeCorrect == PatternsSpec => []PatternsTypeOK
BY PatternsInvariance, PTL DEF PatternsInv

\* matchHost says of every list of patterns and every name what the patterns
\* mean: one covers the name, and none that does is negated (matchHost,
\* wildcardMatch).
THEOREM MatchesAlwaysAsMeant == PatternsSpec => []MatchesAsMeant
BY PatternsInvariance, PTL DEF PatternsInv

\* No round of the loop leads back to where it has been (wildcardMatch).
THEOREM RoundsAlwaysProgress == PatternsSpec => RoundsProgress
<1>1. ASSUME PatternsInv, [PatternsNext]_patternVars
      PROVE  [\/ n' > n \/ answer' # Undecided
              \/ mark' > mark
              \/ mark' = mark /\ (i' > i \/ p' > p)]_patternVars
  <2>1. /\ n \in Nat /\ p \in Nat /\ i \in Nat /\ mark \in Nat
        /\ mark <= i /\ matched \in BOOLEAN
    <3>1. Len(patterns) \in Nat /\ Len(name) \in Nat
      BY <1>1, TypesOfGiven DEF PatternsInv
    <3> QED BY <1>1, <3>1 DEF PatternsInv, PatternsTypeOK, Counters
  <2>2. CASE SameChar
    BY <2>1, <2>2 DEF SameChar
  <2>3. CASE IsStar
    BY <2>1, <2>3 DEF IsStar
  <2>4. CASE GoBack
    BY <2>1, <2>4 DEF GoBack
  <2>5. ASSUME NEW ok, Tried(ok)
        PROVE  n' > n
    BY <2>1, <2>5 DEF Tried
  <2>6. CASE NoStar
    BY <2>5, <2>6 DEF NoStar
  <2>7. CASE NameEnds
    BY <2>5, <2>7 DEF NameEnds
  <2>8. CASE Hashed
    BY <2>5, <2>8 DEF Hashed
  <2>9. CASE AllTried
    BY <2>1, <2>9, PatternsAssumption DEF AllTried
  <2> QED BY <1>1, <2>2, <2>3, <2>4, <2>6, <2>7, <2>8, <2>9 DEF PatternsNext
<1> QED BY <1>1, PatternsInvariance, PTL DEF PatternsSpec, RoundsProgress

-----------------------------------------------------------------------------
(* ParseConfig and LoadConfig *)

\* The order of the numbers as a relation: it is well-founded.
Below == {xy \in Nat \X Nat : xy[1] < xy[2]}

\* Min and Max are a choice; of what there is to choose from they take the
\* least and, if it is bounded, the greatest.
LEMMA MinIs ==
    ASSUME NEW T \in SUBSET Nat, T # {}
    PROVE  Min(T) \in T /\ \A y \in T : Min(T) <= y
<1>1. IsWellFoundedOn(Below, Nat)
    BY NatLessThanWellFounded DEF OpToRel, Below
<1>2. PICK x \in T : \A y \in T : ~ (<<y, x>> \in Below)
    BY <1>1, WFMin
<1>3. ASSUME NEW y \in T PROVE x <= y
  <2>1. y < x => <<y, x>> \in Below
      BY DEF Below
  <2> QED
      BY <1>2, <2>1
<1> QED
    BY <1>3 DEF Min

LEMMA MaxIs ==
    ASSUME NEW m \in Nat, NEW T \in SUBSET (0 .. m), T # {}
    PROVE  Max(T) \in T /\ \A y \in T : Max(T) >= y
<1> DEFINE U == {m - x : x \in T}
<1>a. U \in SUBSET Nat /\ U # {}
    OBVIOUS
<1> HIDE DEF U
<1>1. Min(U) \in U /\ \A y \in U : Min(U) <= y
    BY <1>a, MinIs
<1>2. PICK x \in T : Min(U) = m - x
    BY <1>1 DEF U
<1>3. ASSUME NEW y \in T PROVE x >= y
  <2>1. m - y \in U
      BY DEF U
  <2> QED
      BY <1>1, <1>2, <2>1
<1> QED
    BY <1>3 DEF Max

\* The number that bounds a set and is in it is the one chosen.
LEMMA MinEquals ==
    ASSUME NEW T \in SUBSET Nat, NEW a \in T, \A y \in T : a <= y
    PROVE  Min(T) = a
<1>1. Min(T) \in T /\ Min(T) <= a
    BY MinIs
<1>2. a <= Min(T)
    BY <1>1
<1>3. Min(T) \in Nat /\ a \in Nat
    BY <1>1
<1> QED
    BY <1>1, <1>2, <1>3

LEMMA MaxEquals ==
    ASSUME NEW m \in Nat, NEW T \in SUBSET (0 .. m), NEW a \in T, \A y \in T : a >= y
    PROVE  Max(T) = a
<1>1. Max(T) \in T /\ Max(T) >= a
    BY MaxIs
<1>2. a >= Max(T)
    BY <1>1
<1>3. Max(T) \in 0 .. m /\ a \in 0 .. m
    BY <1>1
<1> QED
    BY <1>1, <1>2, <1>3

\* A sequence and what is appended to it.
LEMMA AppendIs ==
    ASSUME NEW S, NEW t \in Seq(S), NEW raw
    PROVE  /\ Len(t) \in Nat /\ Len(Append(t, raw)) = Len(t) + 1
           /\ DOMAIN t = 1 .. Len(t)
           /\ DOMAIN Append(t, raw) = 1 .. Len(t) + 1
           /\ \A j \in 1 .. Len(t) : Append(t, raw)[j] = t[j]
           /\ Append(t, raw)[Len(t) + 1] = raw
           /\ Append(t, raw) \in Seq(ToSet(Append(t, raw)))
<1>1. t \in Seq(S \cup {raw})
    OBVIOUS
<1> DEFINE u == Append(t, raw)
<1>2. u \in Seq(S \cup {raw})
    BY <1>1
<1>3. \A j \in 1 .. Len(u) : u[j] \in ToSet(u)
    BY <1>2 DEF ToSet
<1>4. u \in Seq(ToSet(u))
    BY <1>2, <1>3
<1> QED
    BY <1>1, <1>4

\* One more line leaves the sections of the lines before it and itself as they
\* are; a header is the section of the line that comes next.
LEMMA Sections ==
    ASSUME NEW S, NEW t \in Seq(S), NEW raw
    PROVE  /\ \A j \in 1 .. Len(t) + 1 : SectionAt(Append(t, raw), j) = SectionAt(t, j)
           /\ SectionAt(Append(t, raw), Len(t) + 2) =
                IF IsHeader(Content(raw)) THEN Header(Content(raw))
                ELSE SectionAt(t, Len(t) + 1)
<1> DEFINE u == Append(t, raw)
           hs(v, j) == {k \in 1 .. j - 1 : IsHeader(Content(v[k]))}
<1>1. Len(t) \in Nat
    BY AppendIs
<1>2. ASSUME NEW j \in 1 .. Len(t) + 1 PROVE SectionAt(u, j) = SectionAt(t, j)
  <2>1. \A k \in 1 .. j - 1 : u[k] = t[k]
      BY <1>1, AppendIs
  <2>2. hs(u, j) = hs(t, j)
      BY <2>1
  <2>3. ASSUME hs(t, j) # {} PROVE Max(hs(t, j)) \in 1 .. j - 1
    <3> DEFINE T == hs(t, j)
    <3>1. T \in SUBSET (0 .. j) /\ T # {} /\ j \in Nat
        BY <1>1, <2>3
    <3>2. T \subseteq 1 .. j - 1
        OBVIOUS
    <3> HIDE DEF T
    <3>3. Max(T) \in T
        BY <3>1, MaxIs
    <3>4. Max(T) \in 1 .. j - 1
        BY <3>2, <3>3
    <3> QED
        BY <3>4 DEF T
  <2> QED
      BY <2>1, <2>2, <2>3 DEF SectionAt
<1>3. CASE IsHeader(Content(raw))
  <2>1. Len(t) + 1 \in hs(u, Len(t) + 2) /\ u[Len(t) + 1] = raw
      BY <1>1, <1>3, AppendIs
  <2>2. \A k \in hs(u, Len(t) + 2) : k <= Len(t) + 1
      BY <1>1
  <2>3. Max(hs(u, Len(t) + 2)) = Len(t) + 1
      BY <1>1, <2>1, <2>2 DEF Max
  <2>4. SectionAt(u, Len(t) + 2) = Header(Content(u[Len(t) + 1]))
      BY <2>1, <2>3 DEF SectionAt
  <2>5. u[Len(t) + 1] = raw
      BY <2>1
  <2> HIDE DEF u
  <2>6. SectionAt(u, Len(t) + 2) = Header(Content(raw))
      BY <2>4, <2>5
  <2> QED
      BY <1>2, <1>3, <2>6 DEF u
<1>4. CASE ~IsHeader(Content(raw))
  <2>1. hs(u, Len(t) + 2) = hs(u, Len(t) + 1)
    <3>1. \A k \in 1 .. Len(t) + 1 : k \in hs(u, Len(t) + 2) <=> k \in hs(u, Len(t) + 1)
        BY <1>1, <1>4, AppendIs
    <3> QED
        BY <1>1, <3>1
  <2>2. SectionAt(u, Len(t) + 2) = SectionAt(u, Len(t) + 1)
      BY <2>1 DEF SectionAt
  <2> QED
      BY <1>1, <1>2, <1>4, <2>2
<1> QED
    BY <1>2, <1>3, <1>4

IsEntry(line) == line # <<>> /\ ~IsHeader(line)

\* One more line may be one more entry, of the section it is in.
LEMMA Entries ==
    ASSUME NEW S, NEW t \in Seq(S), NEW raw, NEW sec
    PROVE  /\ EntriesIn(t, sec) \subseteq 1 .. Len(t)
           /\ EntriesIn(Append(t, raw), sec) =
                IF IsEntry(Content(raw)) /\ SectionAt(t, Len(t) + 1) = <<sec>>
                THEN EntriesIn(t, sec) \cup {Len(t) + 1}
                ELSE EntriesIn(t, sec)
<1> DEFINE u == Append(t, raw)
<1>1. /\ Len(t) \in Nat /\ DOMAIN t = 1 .. Len(t) /\ DOMAIN u = 1 .. Len(t) + 1
      /\ \A k \in 1 .. Len(t) : u[k] = t[k]
      /\ u[Len(t) + 1] = raw
    BY AppendIs
<1>2. \A k \in 1 .. Len(t) + 1 : SectionAt(u, k) = SectionAt(t, k)
    BY Sections
<1> HIDE DEF u
<1>3. EntriesIn(t, sec) \subseteq 1 .. Len(t)
    BY <1>1 DEF EntriesIn
<1>4. ASSUME NEW k
      PROVE  k \in EntriesIn(u, sec) <=>
               \/ k \in EntriesIn(t, sec)
               \/ /\ k = Len(t) + 1 /\ IsEntry(Content(raw))
                  /\ SectionAt(t, Len(t) + 1) = <<sec>>
  <2>1. CASE k \in 1 .. Len(t)
      BY <1>1, <1>2, <2>1 DEF EntriesIn
  <2>2. CASE k = Len(t) + 1
      BY <1>1, <1>2, <2>2 DEF EntriesIn, IsEntry
  <2>3. CASE k \notin 1 .. Len(t) + 1
      BY <1>1, <2>3 DEF EntriesIn
  <2> QED
      BY <1>1, <2>1, <2>2, <2>3
<1> QED
    BY <1>3, <1>4 DEF u

\* What has been said of the lines so far stays so.
LEMMA Before ==
    ASSUME NEW S, NEW t \in Seq(S), NEW raw, NEW k \in 1 .. Len(t)
    PROVE  /\ NameAt(Append(t, raw), k) = NameAt(t, k)
           /\ ServerAt(Append(t, raw), k) = ServerAt(t, k)
           /\ ProxyAt(Append(t, raw), k) = ProxyAt(t, k)
           /\ LineIsGood(Append(t, raw), k) <=> LineIsGood(t, k)
<1> DEFINE u == Append(t, raw)
<1>1. u[k] = t[k] /\ Len(t) \in Nat
    BY AppendIs
<1>2. \A sec : k \in EntriesIn(u, sec) <=> k \in EntriesIn(t, sec)
    BY <1>1, Entries
<1> HIDE DEF u
<1>3. /\ NameAt(u, k) = NameAt(t, k)
      /\ ServerAt(u, k) = ServerAt(t, k)
      /\ ProxyAt(u, k) = ProxyAt(t, k)
    BY <1>1 DEF NameAt, ServerAt, ProxyAt
<1>4. LineIsGood(u, k) <=> LineIsGood(t, k)
    BY <1>1, <1>2, <1>3 DEF LineIsGood
<1> QED
    BY <1>3, <1>4 DEF u

\* What a proxy line has is known even if its words are not looked at.
LEMMA ProxyIs ==
    ASSUME NEW line, ProxyOf(line) # Bad
    PROVE  ProxyOf(line).listen = NormalizeListen(Entry(line).name)
    BY DEF ProxyOf, ParseProxy

\* Making a path absolute that is so already changes nothing.
LEMMA AbsoluteTwice ==
    ASSUME NEW s
    PROVE  Absolute(Absolute(s)) = Absolute(s)
<1> DEFINE keys == [k \in DOMAIN s.keys |-> ResolvePath(s.keys[k])]
           a == Absolute(s)
<1>1. a = [x \in DOMAIN s |-> IF x = "keys" THEN keys ELSE s[x]]
    BY DEF Absolute
<1>2. CASE "keys" \in DOMAIN s
  <2>1. a.keys = keys
      BY <1>1, <1>2
  <2>2. \A k \in DOMAIN keys : ResolvePath(keys[k]) = keys[k]
      BY DEF ResolvePath
  <2>3. [k \in DOMAIN keys |-> ResolvePath(keys[k])] = keys
      BY <2>2
  <2> HIDE DEF keys
  <2>4. [k \in DOMAIN a.keys |-> ResolvePath(a.keys[k])] = keys
      BY <2>1, <2>3
  <2>5. Absolute(a) = [x \in DOMAIN a |-> IF x = "keys" THEN keys ELSE a[x]]
      BY <2>4 DEF Absolute
  <2> QED
      BY <1>1, <2>5
<1>3. CASE "keys" \notin DOMAIN s
  <2> DEFINE again == [k \in DOMAIN a.keys |-> ResolvePath(a.keys[k])]
  <2>1. Absolute(a) = [x \in DOMAIN a |-> IF x = "keys" THEN again ELSE a[x]]
      BY DEF Absolute
  <2> HIDE DEF again, keys
  <2> QED
      BY <1>1, <1>3, <2>1
<1> QED
    BY <1>2, <1>3

-----------------------------------------------------------------------------
(* The invariant *)

\* The section of the next line is that of the last header.
SectionInv ==
    /\ section \in {Absent, "servers", "proxies"}
    /\ SectionAt(text, Len(text) + 1) =
         IF section = Absent THEN <<>> ELSE <<section>>
    /\ todo = {}

\* Each line is good by itself, and no server has been defined twice.
GoodInv ==
    /\ \A k \in DOMAIN text : LineIsGood(text, k)
    /\ \A k, l \in EntriesIn(text, "servers") :
         NameAt(text, k) = NameAt(text, l) => k = l

\* The servers are those of the lines read, as they are there until LoadConfig
\* comes to them.
ServersInv ==
    /\ DOMAIN servers = {NameAt(text, k) : k \in EntriesIn(text, "servers")}
    /\ \A k \in EntriesIn(text, "servers") :
         /\ servers[NameAt(text, k)] \in {ServerAt(text, k), Absolute(ServerAt(text, k))}
         /\ state = "reading" => servers[NameAt(text, k)] = ServerAt(text, k)

\* The proxy is the one said, whatever has become of the keys.
SameProxy(proxy, said) ==
    /\ DOMAIN proxy = {"line", "listen", "auth", "hops"}
    /\ proxy.listen = said.listen /\ proxy.auth = said.auth
    /\ DOMAIN proxy.hops = DOMAIN said.hops
    /\ \A h \in DOMAIN said.hops : proxy.hops[h].name = said.hops[h].name

\* The proxies are those of the lines read, in their order; their hops are so
\* until LoadConfig comes to them.
ProxiesInv ==
    /\ proxies \in Seq(ToSet(proxies))
    /\ EntriesIn(text, "proxies") = {proxies[k].line : k \in DOMAIN proxies}
    /\ \A k, l \in DOMAIN proxies : k < l => proxies[k].line < proxies[l].line
    /\ \A k \in DOMAIN proxies :
         /\ SameProxy(proxies[k], ProxyAt(text, proxies[k].line))
         /\ proxies[k].listen = NormalizeListen(NameAt(text, proxies[k].line))
         /\ state = "reading" => proxies[k].hops = ProxyAt(text, proxies[k].line).hops

\* What LoadConfig has come to is absolute.
HopInv(k, h) ==
    LET said == ProxyAt(text, proxies[k].line).hops[h]
        loaded == [proxy |-> k, hop |-> h] \notin todo
    IN  /\ said.name = Absent =>
             /\ proxies[k].hops[h].server \in {said.server, Absolute(said.server)}
             /\ loaded => proxies[k].hops[h].server = Absolute(said.server)
        /\ said.name # Absent =>
             /\ said.name \in DOMAIN servers
             /\ \A l \in EntriesIn(text, "servers") :
                  NameAt(text, l) = said.name /\ loaded =>
                      servers[said.name] = Absolute(ServerAt(text, l))

LoadInv ==
    /\ todo \subseteq HopsOf(proxies)
    /\ \A k \in DOMAIN proxies : \A h \in DOMAIN proxies[k].hops : HopInv(k, h)

\* Whether there is an error is decided line by line, but means that the text
\* as a whole is not well-formed.
ConfigInv ==
    /\ text \in Seq(ToSet(text))
    /\ state \in {"reading", "parsed", "loaded", "error"}
    /\ state = "error" => ~WellFormed(text)
    /\ state # "error" => GoodInv /\ ServersInv /\ ProxiesInv
    /\ state = "reading" => SectionInv
    /\ state \in {"parsed", "loaded"} => WellFormed(text) /\ LoadInv
    /\ state = "loaded" => todo = {}

\* ParseConfig takes a line: any of the four kinds, or a wrong one.
LEMMA LineStep ==
    ASSUME ConfigInv, ReadLine PROVE ConfigInv'
<1> PICK raw : /\ text' = Append(text, raw)
               /\ GoodLine(Content(raw)) \/ WrongLine(Content(raw))
    BY DEF ReadLine
<1> DEFINE line == Content(raw)
           new == Len(text) + 1
           in == IF section = Absent THEN <<>> ELSE <<section>>
<1>a. /\ state = "reading" /\ todo' = todo
      /\ text \in Seq(ToSet(text))
      /\ GoodInv /\ ServersInv /\ ProxiesInv /\ SectionInv
    BY DEF ConfigInv, ReadLine
<1>b. /\ Len(text) \in Nat /\ Len(text') = new
      /\ DOMAIN text = 1 .. Len(text) /\ DOMAIN text' = 1 .. new
      /\ text'[new] = raw
      /\ text' \in Seq(ToSet(text'))
    BY <1>a, AppendIs
<1>c. \A sec : EntriesIn(text, sec) \subseteq 1 .. Len(text)
    BY <1>a, Entries
<1>d. \A sec : EntriesIn(text', sec) =
                 IF IsEntry(line) /\ in = <<sec>>
                 THEN EntriesIn(text, sec) \cup {new} ELSE EntriesIn(text, sec)
    BY <1>a, Entries DEF SectionInv
<1>e. SectionAt(text', Len(text') + 1) = IF IsHeader(line) THEN Header(line) ELSE in
    BY <1>a, <1>b, Sections DEF SectionInv
<1>f. \A k \in 1 .. Len(text) :
        /\ NameAt(text', k) = NameAt(text, k)
        /\ ServerAt(text', k) = ServerAt(text, k)
        /\ ProxyAt(text', k) = ProxyAt(text, k)
        /\ LineIsGood(text', k) <=> LineIsGood(text, k)
    BY <1>a, Before
<1>g. /\ NameAt(text', new) = Entry(line).name
      /\ ServerAt(text', new) = ServerOf(line)
      /\ ProxyAt(text', new) = ProxyOf(line)
    BY <1>b DEF NameAt, ServerAt, ProxyAt
<1>h. ASSUME EntriesIn(text', "servers") = EntriesIn(text, "servers"),
             UNCHANGED <<servers, state>>, LineIsGood(text', new)
      PROVE  GoodInv' /\ ServersInv'
  <2>1. GoodInv'
      BY <1>a, <1>b, <1>c, <1>f, <1>h DEF GoodInv
  <2>2. {NameAt(text', k) : k \in EntriesIn(text', "servers")}
          = {NameAt(text, k) : k \in EntriesIn(text, "servers")}
      BY <1>c, <1>f, <1>h
  <2>3. ServersInv'
      BY <1>a, <1>c, <1>f, <1>h, <2>2 DEF ServersInv
  <2> QED
      BY <2>1, <2>3
<1>i. ASSUME EntriesIn(text', "proxies") = EntriesIn(text, "proxies"),
             UNCHANGED <<proxies, state>>
      PROVE  ProxiesInv'
  <2>1. \A k \in DOMAIN proxies : proxies[k].line \in 1 .. Len(text)
      BY <1>a, <1>c DEF ProxiesInv
  <2> QED
      BY <1>a, <1>f, <1>i, <2>1 DEF ProxiesInv
<1>j. ASSUME state' = "reading", GoodInv', ServersInv', ProxiesInv', SectionInv'
      PROVE  ConfigInv'
    BY <1>b, <1>j DEF ConfigInv
<1>1. CASE Blank(line)
  <2>1. ~IsEntry(line) /\ ~IsHeader(line) /\ UNCHANGED <<section, servers, proxies, state>>
      BY <1>1 DEF Blank, IsEntry, IsHeader
  <2>2. LineIsGood(text', new)
      BY <1>1, <1>b DEF Blank, LineIsGood
  <2>3. SectionInv'
      BY <1>a, <1>e, <2>1 DEF SectionInv
  <2> QED
      BY <1>a, <1>d, <1>h, <1>i, <1>j, <2>1, <2>2, <2>3
<1>2. CASE NewSection(line)
  <2>1. /\ ~IsEntry(line) /\ IsHeader(line)
        /\ Header(line) \in {<<"servers">>, <<"proxies">>}
        /\ section' = Header(line)[1]
        /\ UNCHANGED <<servers, proxies, state>>
      BY <1>2 DEF NewSection, IsEntry
  <2>2. LineIsGood(text', new)
      BY <2>1, <1>b DEF LineIsGood
  <2>3. /\ section' \in {"servers", "proxies"} /\ Header(line) = <<section'>>
        /\ section' # Absent
      BY <2>1, ConfigAssumption
  <2>4. SectionInv'
      BY <1>a, <1>e, <2>1, <2>3 DEF SectionInv
  <2> QED
      BY <1>a, <1>d, <1>h, <1>i, <1>j, <2>1, <2>2, <2>4
<1>3. CASE NewServer(line)
  <2>1. /\ IsEntry(line) /\ in = <<"servers">> /\ ServerOf(line) # Bad
        /\ Entry(line).name \notin DOMAIN servers
        /\ UNCHANGED <<section, proxies, state>>
      BY <1>3, ConfigAssumption DEF NewServer, IsEntry
  <2>2. /\ EntriesIn(text', "servers") = EntriesIn(text, "servers") \cup {new}
        /\ EntriesIn(text', "proxies") = EntriesIn(text, "proxies")
      BY <1>d, <2>1
  <2>3. LineIsGood(text', new)
      BY <1>g, <2>1, <2>2 DEF LineIsGood
  <2>4. SectionInv'
      BY <1>a, <1>e, <2>1 DEF SectionInv, IsEntry
  <2>5. \A k \in EntriesIn(text, "servers") : NameAt(text, k) # Entry(line).name
      BY <1>a, <2>1 DEF ServersInv
  <2>6. GoodInv'
      BY <1>a, <1>b, <1>c, <1>f, <1>g, <2>2, <2>3, <2>5 DEF GoodInv
  <2>7. DOMAIN servers' = {NameAt(text', k) : k \in EntriesIn(text', "servers")}
    <3>1. {NameAt(text', k) : k \in EntriesIn(text', "servers")}
            = {NameAt(text, k) : k \in EntriesIn(text, "servers")} \cup {Entry(line).name}
        BY <1>c, <1>f, <1>g, <2>2
    <3> QED
        BY <1>3, <1>a, <3>1 DEF NewServer, ServersInv
  <2>8. \A k \in EntriesIn(text', "servers") :
          servers'[NameAt(text', k)] = ServerAt(text', k)
      BY <1>3, <1>a, <1>c, <1>f, <1>g, <2>2, <2>5 DEF NewServer, ServersInv
  <2>9. ServersInv'
      BY <2>7, <2>8 DEF ServersInv
  <2> QED
      BY <1>a, <1>i, <1>j, <2>1, <2>2, <2>4, <2>6, <2>9
<1>4. CASE NewProxy(line)
  <2> DEFINE said == ProxyOf(line)
             r == [line |-> new, listen |-> said.listen, auth |-> said.auth,
                   hops |-> said.hops]
  <2>1. /\ IsEntry(line) /\ in = <<"proxies">> /\ said # Bad
        /\ proxies' = Append(proxies, r)
        /\ UNCHANGED <<section, servers, state>>
      BY <1>4, <1>b, ConfigAssumption DEF NewProxy, IsEntry
  <2>2. /\ EntriesIn(text', "proxies") = EntriesIn(text, "proxies") \cup {new}
        /\ EntriesIn(text', "servers") = EntriesIn(text, "servers")
      BY <1>d, <2>1
  <2>3. LineIsGood(text', new)
      BY <1>g, <2>1, <2>2 DEF LineIsGood
  <2>4. SectionInv'
      BY <1>a, <1>e, <2>1 DEF SectionInv, IsEntry
  <2>5. /\ Len(proxies) \in Nat /\ DOMAIN proxies = 1 .. Len(proxies)
        /\ DOMAIN proxies' = 1 .. Len(proxies) + 1
        /\ \A k \in 1 .. Len(proxies) : proxies'[k] = proxies[k]
        /\ proxies'[Len(proxies) + 1] = r
        /\ proxies' \in Seq(ToSet(proxies'))
      BY <1>a, <2>1, AppendIs DEF ProxiesInv
  <2>6. said.listen = NormalizeListen(Entry(line).name)
      BY <2>1, ProxyIs
  <2>7. \A k \in 1 .. Len(proxies) : proxies[k].line \in 1 .. Len(text)
      BY <1>a, <1>c, <2>5 DEF ProxiesInv
  <2> HIDE DEF said
  <2>8. EntriesIn(text', "proxies") = {proxies'[k].line : k \in DOMAIN proxies'}
    <3>1. {proxies'[k].line : k \in DOMAIN proxies'}
            = {proxies[k].line : k \in DOMAIN proxies} \cup {new}
        BY <2>5
    <3> QED
        BY <1>a, <2>2, <3>1 DEF ProxiesInv
  <2>9. \A k, l \in DOMAIN proxies' : k < l => proxies'[k].line < proxies'[l].line
      BY <1>a, <1>b, <2>5, <2>7 DEF ProxiesInv
  <2>10. ASSUME NEW k \in DOMAIN proxies'
         PROVE  /\ SameProxy(proxies'[k], ProxyAt(text', proxies'[k].line))
                /\ proxies'[k].listen = NormalizeListen(NameAt(text', proxies'[k].line))
                /\ proxies'[k].hops = ProxyAt(text', proxies'[k].line).hops
    <3>1. CASE k \in 1 .. Len(proxies)
        BY <1>a, <1>f, <2>5, <2>7, <3>1 DEF ProxiesInv
    <3>2. CASE k = Len(proxies) + 1
        BY <1>g, <2>5, <2>6, <3>2 DEF SameProxy, said
    <3> QED
        BY <2>5, <3>1, <3>2
  <2>11. ProxiesInv'
      BY <2>5, <2>8, <2>9, <2>10 DEF ProxiesInv
  <2> QED
      BY <1>a, <1>h, <1>j, <2>1, <2>2, <2>3, <2>4, <2>11
<1>5. CASE WrongLine(line)
  <2>1. ~LineIsGood(text', new) \/
          \E k, l \in EntriesIn(text', "servers") :
            NameAt(text', k) = NameAt(text', l) /\ k # l
    <3>1. new \notin EntriesIn(text, "servers") \cup EntriesIn(text, "proxies")
        BY <1>b, <1>c
    <3>2. CASE IsHeader(line)
        BY <1>5, <1>b, <1>d, <3>1, <3>2 DEF WrongLine, LineIsGood, IsEntry
    <3>3. CASE ~IsHeader(line) /\ section = "servers"
      <4>1. CASE ServerOf(line) = Bad
          BY <1>5, <1>b, <1>d, <1>g, <3>1, <3>3, <4>1, ConfigAssumption
             DEF WrongLine, LineIsGood, IsEntry
      <4>2. CASE Entry(line).name \in DOMAIN servers
        <5>1. PICK k \in EntriesIn(text, "servers") : NameAt(text, k) = Entry(line).name
            BY <1>a, <4>2 DEF ServersInv
        <5>2. k \in EntriesIn(text', "servers") /\ NameAt(text', k) = Entry(line).name
                /\ k # new
            BY <1>b, <1>c, <1>d, <1>f, <5>1
        <5>3. new \in EntriesIn(text', "servers")
            BY <1>5, <1>d, <3>3, ConfigAssumption DEF WrongLine, IsEntry
        <5> QED
            BY <1>g, <5>2, <5>3
      <4> QED
          BY <1>5, <3>3, <4>1, <4>2 DEF WrongLine
    <3>4. CASE ~IsHeader(line) /\ section = "proxies"
        BY <1>5, <1>b, <1>d, <1>g, <3>1, <3>4, ConfigAssumption
           DEF WrongLine, LineIsGood, IsEntry
    <3>5. CASE ~IsHeader(line) /\ section = Absent
        BY <1>5, <1>b, <1>d, <3>1, <3>5, ConfigAssumption
           DEF WrongLine, LineIsGood, IsEntry
    <3> QED
        BY <1>a, <3>2, <3>3, <3>4, <3>5 DEF SectionInv
  <2>2. ~WellFormed(text')
      BY <1>b, <2>1 DEF WellFormed
  <2> QED
      BY <1>5, <1>b, <2>2 DEF WrongLine, ConfigInv
<1> QED
    BY <1>1, <1>2, <1>3, <1>4, <1>5 DEF GoodLine

\* ParseConfig has seen all lines: the addresses and the names of the hops are
\* then checked.
LEMMA LinkStep ==
    ASSUME ConfigInv, Link PROVE ConfigInv'
<1>a. /\ state = "reading" /\ UNCHANGED <<text, section, servers, proxies>>
      /\ text \in Seq(ToSet(text))
      /\ GoodInv /\ ServersInv /\ ProxiesInv
    BY DEF ConfigInv, Link
<1>b. ASSUME NEW k \in DOMAIN proxies
      PROVE  /\ proxies[k].line \in EntriesIn(text, "proxies")
             /\ proxies[k].listen = NormalizeListen(NameAt(text, proxies[k].line))
             /\ SameProxy(proxies[k], ProxyAt(text, proxies[k].line))
             /\ proxies[k].hops = ProxyAt(text, proxies[k].line).hops
    BY <1>a DEF ProxiesInv
<1>1. CASE CanLink
  <2>1. \A k \in DOMAIN proxies : \A h \in DOMAIN proxies[k].hops :
          proxies[k].hops[h].name \in DOMAIN servers \cup {Absent}
      BY <1>1 DEF CanLink, ToSet
  <2>2. WellFormed(text)
    <3>1. \A k, l \in EntriesIn(text, "proxies") :
            NormalizeListen(NameAt(text, k)) = NormalizeListen(NameAt(text, l)) => k = l
      <4> SUFFICES ASSUME NEW k \in DOMAIN proxies, NEW l \in DOMAIN proxies,
                          proxies[k].listen = proxies[l].listen
                   PROVE  k = l
          BY <1>a, <1>b DEF ProxiesInv
      <4> QED
          BY <1>1 DEF CanLink
    <3>2. ASSUME NEW k \in EntriesIn(text, "proxies"),
                 NEW h \in ToSet(ProxyAt(text, k).hops)
          PROVE  h.name = Absent \/ \E l \in EntriesIn(text, "servers") : NameAt(text, l) = h.name
      <4>1. PICK j \in DOMAIN proxies : proxies[j].line = k
          BY <1>a DEF ProxiesInv
      <4>2. h.name \in DOMAIN servers \cup {Absent}
          BY <1>b, <2>1, <4>1 DEF ToSet
      <4> QED
          BY <1>a, <4>2 DEF ServersInv
    <3> QED
        BY <1>a, <3>1, <3>2 DEF WellFormed, GoodInv
  <2>3. state' = "parsed" /\ todo' = HopsOf(proxies)
      BY <1>1 DEF Link
  <2>4. ServersInv' /\ ProxiesInv' /\ GoodInv'
      BY <1>a, <2>3 DEF ServersInv, ProxiesInv, GoodInv
  <2>5. ASSUME NEW k \in DOMAIN proxies, NEW h \in DOMAIN proxies[k].hops
        PROVE  HopInv(k, h)'
    <3>1. [proxy |-> k, hop |-> h] \in HopsOf(proxies)
        BY DEF HopsOf
    <3> QED
        BY <1>a, <1>b, <2>1, <2>3, <3>1 DEF HopInv
  <2> QED
      BY <1>a, <2>2, <2>3, <2>4, <2>5 DEF ConfigInv, LoadInv
<1>2. CASE ~CanLink
  <2>1. state' = "error"
      BY <1>2 DEF Link
  <2>2. ~WellFormed(text)
    <3>1. CASE \E k, l \in DOMAIN proxies : proxies[k].listen = proxies[l].listen /\ k # l
      <4>1. PICK k, l \in DOMAIN proxies : proxies[k].listen = proxies[l].listen /\ k # l
          BY <3>1
      <4>2. proxies[k].line # proxies[l].line
        <5>1. k \in Nat /\ l \in Nat /\ (k < l \/ l < k)
            BY <1>a, <4>1 DEF ProxiesInv
        <5>2. EntriesIn(text, "proxies") \subseteq 1 .. Len(text)
            BY <1>a, Entries
        <5>3. proxies[k].line \in Int /\ proxies[l].line \in Int
            BY <1>b, <5>2
        <5> QED
            BY <1>a, <5>1, <5>3 DEF ProxiesInv
      <4> QED
          BY <1>b, <4>1, <4>2 DEF WellFormed
    <3>2. CASE \E k \in DOMAIN proxies : \E h \in ToSet(proxies[k].hops) :
                 h.name \notin DOMAIN servers \cup {Absent}
        BY <1>a, <1>b, <3>2 DEF WellFormed, ServersInv
    <3> QED
        BY <1>2, <3>1, <3>2 DEF CanLink
  <2> QED
      BY <1>a, <2>1, <2>2 DEF ConfigInv
<1> QED
    BY <1>1, <1>2

\* LoadConfig comes to one more hop, with a server of its own or a shared one,
\* which it may have come to before.
LEMMA LoadStep ==
    ASSUME ConfigInv, NEW at \in todo, LoadHop(at) PROVE ConfigInv'
<1> DEFINE k0 == at.proxy
           h0 == at.hop
           hop == proxies[k0].hops[h0]
           said(k) == ProxyAt(text, proxies[k].line)
<1>a. /\ state = "parsed" /\ UNCHANGED <<text, section, state>>
      /\ text \in Seq(ToSet(text)) /\ WellFormed(text)
      /\ GoodInv /\ ServersInv /\ ProxiesInv /\ LoadInv
      /\ todo' = todo \ {at}
    BY DEF ConfigInv, LoadHop
<1>b. /\ k0 \in DOMAIN proxies /\ h0 \in DOMAIN proxies[k0].hops
      /\ at = [proxy |-> k0, hop |-> h0]
    BY <1>a DEF LoadInv, HopsOf
<1>c. \A k \in DOMAIN proxies : SameProxy(proxies[k], said(k))
    BY <1>a DEF ProxiesInv
<1>d. \A k \in DOMAIN proxies : \A h \in DOMAIN proxies[k].hops : HopInv(k, h)
    BY <1>a DEF LoadInv
<1>1. CASE hop.name = Absent
  <2> DEFINE new == [name |-> Absent, server |-> Absolute(hop.server)]
  <2>1. /\ proxies' = [proxies EXCEPT ![k0].hops[h0] = new]
        /\ servers' = servers
      BY <1>1 DEF LoadHop
  <2>2. /\ DOMAIN proxies' = DOMAIN proxies
        /\ \A k \in DOMAIN proxies : k # k0 => proxies'[k] = proxies[k]
        /\ proxies'[k0] = [proxies[k0] EXCEPT !.hops[h0] = new]
      BY <1>b, <2>1
  <2>3. DOMAIN proxies[k0] = {"line", "listen", "auth", "hops"}
      BY <1>b, <1>c DEF SameProxy
  <2>4. /\ DOMAIN proxies'[k0] = {"line", "listen", "auth", "hops"}
        /\ proxies'[k0].line = proxies[k0].line
        /\ proxies'[k0].listen = proxies[k0].listen
        /\ proxies'[k0].auth = proxies[k0].auth
        /\ proxies'[k0].hops = [proxies[k0].hops EXCEPT ![h0] = new]
      BY <2>2, <2>3
  <2> HIDE DEF new
  <2>5. /\ DOMAIN proxies'[k0].hops = DOMAIN proxies[k0].hops
        /\ proxies'[k0].hops[h0] = new
        /\ \A h \in DOMAIN proxies[k0].hops :
             h # h0 => proxies'[k0].hops[h] = proxies[k0].hops[h]
      BY <1>b, <2>4
  <2>6. proxies' \in Seq(ToSet(proxies'))
    <3>1. Len(proxies) \in Nat /\ DOMAIN proxies = 1 .. Len(proxies)
        BY <1>a DEF ProxiesInv
    <3>2. proxies' = [k \in DOMAIN proxies |-> proxies'[k]]
        BY <2>1
    <3>3. \A k \in DOMAIN proxies : proxies'[k] \in ToSet(proxies')
        BY <2>2 DEF ToSet
    <3> QED
        BY <3>1, <3>2, <3>3
  <2>7. \A k \in DOMAIN proxies : proxies'[k].line = proxies[k].line
      BY <2>2, <2>4
  <2>8. ASSUME NEW k \in DOMAIN proxies, NEW h \in DOMAIN proxies[k].hops
        PROVE  proxies'[k].hops[h].name = proxies[k].hops[h].name
    <3>1. CASE k # k0
        BY <2>2, <3>1
    <3>2. CASE k = k0 /\ h # h0
        BY <2>5, <3>2
    <3>3. CASE k = k0 /\ h = h0
        BY <1>1, <2>5, <3>3 DEF new
    <3> QED
        BY <3>1, <3>2, <3>3
  <2>9. \A k \in DOMAIN proxies : SameProxy(proxies'[k], said(k))
      BY <1>b, <1>c, <2>2, <2>4, <2>5, <2>8 DEF SameProxy
  <2>10. ProxiesInv'
      BY <1>a, <2>2, <2>4, <2>6, <2>7, <2>9 DEF ProxiesInv
  <2>11. ServersInv' /\ GoodInv'
      BY <1>a, <2>1 DEF ServersInv, GoodInv
  <2>12. ASSUME NEW k \in DOMAIN proxies, NEW h \in DOMAIN proxies[k].hops
         PROVE  HopInv(k, h)'
    <3> DEFINE its == ProxyAt(text, proxies[k].line).hops[h]
    <3>1. HopInv(k, h) /\ proxies'[k].line = proxies[k].line
        BY <1>d, <2>7
    <3>2. CASE k # k0 \/ h # h0
      <4>1. proxies'[k].hops[h] = proxies[k].hops[h]
          BY <2>2, <2>5, <3>2
      <4>2. [proxy |-> k, hop |-> h] \in todo' <=> [proxy |-> k, hop |-> h] \in todo
          BY <1>a, <1>b, <3>2
      <4> QED
          BY <1>a, <2>1, <3>1, <4>1, <4>2 DEF HopInv
    <3>3. CASE k = k0 /\ h = h0
      <4>1. its.name = Absent
          BY <1>1, <1>c, <3>3 DEF SameProxy
      <4>2. hop.server \in {its.server, Absolute(its.server)}
          BY <3>1, <3>3, <4>1 DEF HopInv
      <4>3. Absolute(hop.server) = Absolute(its.server)
          BY <4>2, AbsoluteTwice
      <4>4. proxies'[k].hops[h].server = Absolute(hop.server)
          BY <2>5, <3>3 DEF new
      <4> QED
          BY <1>a, <3>1, <4>1, <4>3, <4>4 DEF HopInv
    <3> QED
        BY <3>2, <3>3
  <2>13. todo' \subseteq HopsOf(proxies')
    <3>1. \A k \in DOMAIN proxies : DOMAIN proxies'[k].hops = DOMAIN proxies[k].hops
        BY <2>2, <2>5
    <3>2. HopsOf(proxies') = HopsOf(proxies)
        BY <2>2, <3>1 DEF HopsOf
    <3> QED
        BY <1>a, <3>2 DEF LoadInv
  <2> QED
      BY <1>a, <2>2, <2>5, <2>10, <2>11, <2>12, <2>13 DEF ConfigInv, LoadInv
<1>2. CASE hop.name # Absent
  <2>1. /\ servers' = [servers EXCEPT ![hop.name] = Absolute(@)]
        /\ proxies' = proxies
      BY <1>2 DEF LoadHop
  <2>2. said(k0).hops[h0].name = hop.name
      BY <1>b, <1>c DEF SameProxy
  <2>3. hop.name \in DOMAIN servers
      BY <1>2, <1>b, <1>d, <2>2 DEF HopInv
  <2>4. /\ DOMAIN servers' = DOMAIN servers
        /\ servers'[hop.name] = Absolute(servers[hop.name])
        /\ \A name0 \in DOMAIN servers : name0 # hop.name => servers'[name0] = servers[name0]
      BY <2>1, <2>3
  <2>5. ASSUME NEW l \in EntriesIn(text, "servers")
        PROVE  /\ servers'[NameAt(text, l)] \in {ServerAt(text, l), Absolute(ServerAt(text, l))}
               /\ NameAt(text, l) = hop.name =>
                    servers'[NameAt(text, l)] = Absolute(ServerAt(text, l))
               /\ servers[NameAt(text, l)] = Absolute(ServerAt(text, l)) =>
                    servers'[NameAt(text, l)] = Absolute(ServerAt(text, l))
    <3>1. /\ NameAt(text, l) \in DOMAIN servers
          /\ servers[NameAt(text, l)] \in {ServerAt(text, l), Absolute(ServerAt(text, l))}
        BY <1>a DEF ServersInv
    <3> QED
        BY <2>4, <3>1, AbsoluteTwice
  <2>6. ServersInv'
      BY <1>a, <2>4, <2>5 DEF ServersInv
  <2>7. ProxiesInv' /\ GoodInv'
      BY <1>a, <2>1 DEF ProxiesInv, GoodInv
  <2>8. ASSUME NEW k \in DOMAIN proxies, NEW h \in DOMAIN proxies[k].hops
        PROVE  HopInv(k, h)'
    <3> DEFINE its == ProxyAt(text, proxies[k].line).hops[h]
    <3>1. HopInv(k, h)
        BY <1>d
    <3>2. CASE its.name = Absent
      <4>1. [proxy |-> k, hop |-> h] \in todo' <=> [proxy |-> k, hop |-> h] \in todo
          BY <1>2, <1>a, <1>b, <2>2, <3>2
      <4> QED
          BY <1>a, <2>1, <3>1, <3>2, <4>1 DEF HopInv
    <3>3. CASE its.name # Absent
      <4>1. ASSUME NEW l \in EntriesIn(text, "servers"), NameAt(text, l) = its.name,
                   [proxy |-> k, hop |-> h] \notin todo'
            PROVE  servers'[its.name] = Absolute(ServerAt(text, l))
        <5>1. CASE its.name = hop.name
            BY <2>5, <4>1, <5>1
        <5>2. CASE its.name # hop.name
          <6>1. [proxy |-> k, hop |-> h] \notin todo
              BY <1>a, <1>b, <2>2, <4>1, <5>2
          <6>2. servers[its.name] = Absolute(ServerAt(text, l))
              BY <3>1, <3>3, <4>1, <6>1 DEF HopInv
          <6> QED
              BY <2>5, <4>1, <6>2
        <5> QED
            BY <5>1, <5>2
      <4> QED
          BY <1>a, <2>1, <2>4, <3>1, <3>3, <4>1 DEF HopInv
    <3> QED
        BY <3>2, <3>3
  <2> QED
      BY <1>a, <2>1, <2>6, <2>7, <2>8 DEF ConfigInv, LoadInv
<1> QED
    BY <1>1, <1>2

LEMMA ConfigInvariance == ConfigSpec => []ConfigInv
<1>1. ConfigInit => ConfigInv
  <2> SUFFICES ASSUME ConfigInit PROVE ConfigInv
      OBVIOUS
  <2>1. text = <<>> /\ servers = <<>> /\ proxies = <<>> /\ todo = {}
          /\ section = Absent /\ state = "reading"
      BY DEF ConfigInit
  <2>2. \A sec : EntriesIn(text, sec) = {}
      BY <2>1 DEF EntriesIn
  <2>3. SectionAt(text, Len(text) + 1) = <<>>
      BY <2>1 DEF SectionAt
  <2>4. text \in Seq(ToSet(text)) /\ proxies \in Seq(ToSet(proxies))
      BY <2>1
  <2>5. GoodInv /\ ServersInv
      BY <2>1, <2>2 DEF GoodInv, ServersInv
  <2>6. ProxiesInv
      BY <2>1, <2>2, <2>4 DEF ProxiesInv
  <2> QED
      BY <2>1, <2>3, <2>4, <2>5, <2>6 DEF ConfigInv, SectionInv
<1>2. ConfigInv /\ [ConfigNext]_configVars => ConfigInv'
  <2> SUFFICES ASSUME ConfigInv, [ConfigNext]_configVars PROVE ConfigInv'
      OBVIOUS
  <2>1. CASE Loaded
    <3>1. /\ state = "parsed" /\ state' = "loaded" /\ todo = {}
          /\ UNCHANGED <<text, section, servers, proxies, todo>>
        BY <2>1 DEF Loaded
    <3>2. GoodInv' /\ ServersInv' /\ ProxiesInv' /\ LoadInv'
        BY <3>1 DEF ConfigInv, GoodInv, ServersInv, ProxiesInv, LoadInv, HopInv
    <3> QED
        BY <3>1, <3>2 DEF ConfigInv
  <2>2. CASE UNCHANGED configVars
    <3>1. UNCHANGED <<text, section, servers, proxies, state, todo>>
        BY <2>2 DEF configVars
    <3>2. /\ GoodInv' <=> GoodInv
          /\ ServersInv' <=> ServersInv
          /\ ProxiesInv' <=> ProxiesInv
        BY <3>1 DEF GoodInv, ServersInv, ProxiesInv
    <3>3. /\ SectionInv' <=> SectionInv
          /\ LoadInv' <=> LoadInv
        BY <3>1 DEF SectionInv, LoadInv, HopInv
    <3> QED
        BY <3>1, <3>2, <3>3 DEF ConfigInv
  <2> QED
      BY <2>1, <2>2, LineStep, LinkStep, LoadStep DEF ConfigNext
<1> QED
    BY <1>1, <1>2, PTL DEF ConfigSpec

\* What is loaded is what the lines say.
LEMMA LoadedIs ==
    ASSUME ConfigInv, state = "loaded", NEW k \in DOMAIN proxies
    PROVE  SaysLine(proxies[k], ProxyAt(text, proxies[k].line))
<1> DEFINE its == ProxyAt(text, proxies[k].line)
<1>1. /\ GoodInv /\ ServersInv /\ ProxiesInv /\ LoadInv /\ todo = {}
    BY DEF ConfigInv
<1>2. SameProxy(proxies[k], its)
    BY <1>1 DEF ProxiesInv
<1>3. ASSUME NEW h \in DOMAIN its.hops, its.hops[h].name = Absent
      PROVE  Used(proxies[k].hops[h]) = Absolute(its.hops[h].server)
    BY <1>1, <1>2, <1>3 DEF LoadInv, HopInv, SameProxy, Used
<1>4. ASSUME NEW h \in DOMAIN its.hops, its.hops[h].name # Absent
      PROVE  \E l \in EntriesIn(text, "servers") :
               /\ NameAt(text, l) = its.hops[h].name
               /\ Used(proxies[k].hops[h]) = Absolute(ServerAt(text, l))
  <2>1. /\ its.hops[h].name \in DOMAIN servers
        /\ \A l \in EntriesIn(text, "servers") :
             NameAt(text, l) = its.hops[h].name =>
                 servers[its.hops[h].name] = Absolute(ServerAt(text, l))
      BY <1>1, <1>2, <1>4 DEF LoadInv, HopInv, SameProxy
  <2>2. PICK l \in EntriesIn(text, "servers") : NameAt(text, l) = its.hops[h].name
      BY <1>1, <2>1 DEF ServersInv
  <2>3. Used(proxies[k].hops[h]) = servers[its.hops[h].name]
      BY <1>2, <1>4 DEF SameProxy, Used
  <2> QED
      BY <2>1, <2>2, <2>3
<1> QED
    BY <1>2, <1>3, <1>4 DEF SaysLine, SameProxy

\* The file is accepted exactly if it is well-formed as a whole, and the
\* proxies loaded are those of its lines (config.go:119 and :95).
THEOREM ConfigMeansWhatItSays == ConfigSpec => []MeansWhatItSays
<1>1. ConfigInv => MeansWhatItSays
  <2> SUFFICES ASSUME ConfigInv PROVE MeansWhatItSays
      OBVIOUS
  <2>1. ASSUME state = "loaded"
        PROVE  \E line \in [DOMAIN proxies -> EntriesIn(text, "proxies")] :
                 /\ \A k, l \in DOMAIN proxies : k < l => line[k] < line[l]
                 /\ EntriesIn(text, "proxies") = {line[k] : k \in DOMAIN proxies}
                 /\ \A k \in DOMAIN proxies : SaysLine(proxies[k], ProxyAt(text, line[k]))
    <3> DEFINE line == [k \in DOMAIN proxies |-> proxies[k].line]
    <3>1. ProxiesInv
        BY <2>1 DEF ConfigInv
    <3>2. line \in [DOMAIN proxies -> EntriesIn(text, "proxies")]
        BY <3>1 DEF ProxiesInv
    <3>3. \A k \in DOMAIN proxies : SaysLine(proxies[k], ProxyAt(text, line[k]))
        BY <2>1, LoadedIs
    <3>4. /\ \A k, l \in DOMAIN proxies : k < l => line[k] < line[l]
          /\ EntriesIn(text, "proxies") = {line[k] : k \in DOMAIN proxies}
        BY <3>1 DEF ProxiesInv
    <3> QED
        BY <3>2, <3>3, <3>4
  <2> QED
      BY <2>1 DEF MeansWhatItSays, ConfigInv
<1> QED
    BY <1>1, ConfigInvariance, PTL

-----------------------------------------------------------------------------
(* Quoted values *)

\* f has the states of stripComment after each prefix of t.
CommentRun(f, start, t) ==
    f = [k \in 0 .. Len(t) |-> IF k = 0 THEN start ELSE CommentStep(f[k - 1], t[k])]

\* There is only one such function: at the least number where two of them
\* differed they would not have differed one before.
LEMMA CommentScan ==
    ASSUME NEW start, NEW t, Len(t) \in Nat, NEW g, CommentRun(g, start, t)
    PROVE  Scan(CommentStep, start, t) = g[Len(t)]
<1> USE DEF CommentRun
<1> DEFINE Rec(f) == CommentRun(f, start, t)
           after == CHOOSE f : Rec(f)
           differs == {k \in 0 .. Len(t) : after[k] # g[k]}
<1>1. Scan(CommentStep, start, t) = after[Len(t)]
    BY DEF Scan
<1>2. Rec(after)
    OBVIOUS
<1> HIDE DEF after
<1>3. differs = {}
  <2> SUFFICES ASSUME differs # {} PROVE FALSE
      OBVIOUS
  <2> DEFINE first == Min(differs)
  <2>a. differs \in SUBSET Nat
      OBVIOUS
  <2> HIDE DEF differs
  <2>1. first \in differs /\ \A k \in differs : first <= k
      BY <2>a, MinIs
  <2> HIDE DEF first
  <2> USE DEF differs
  <2>2. first # 0
      BY <1>2, <2>1
  <2>3. first - 1 \in 0 .. Len(t) /\ first - 1 \notin differs
      BY <2>1, <2>2
  <2>4. after[first] = CommentStep(after[first - 1], t[first])
      BY <1>2, <2>1, <2>2
  <2>5. g[first] = CommentStep(g[first - 1], t[first])
      BY <2>1, <2>2
  <2> QED
      BY <2>1, <2>3, <2>4, <2>5
<1> QED
  <2>1. Len(t) \notin differs
      BY <1>3
  <2> QED
      BY <1>1, <2>1

\* What a short sequence consists of
LEMMA Tuples ==
    ASSUME NEW W, NEW x1 \in W, NEW x2 \in W, NEW x3 \in W, NEW x4 \in W
    PROVE  /\ <<x1>> \in Seq(W) /\ Len(<<x1>>) = 1 /\ <<x1>>[1] = x1
           /\ <<x1, x2, x3>> \in Seq(W) /\ Len(<<x1, x2, x3>>) = 3
           /\ <<x1, x2, x3>>[1] = x1 /\ <<x1, x2, x3>>[2] = x2 /\ <<x1, x2, x3>>[3] = x3
           /\ <<x1, x2, x3, x4>> \in Seq(W) /\ Len(<<x1, x2, x3, x4>>) = 4
           /\ <<x1, x2, x3, x4>>[1] = x1 /\ <<x1, x2, x3, x4>>[2] = x2
           /\ <<x1, x2, x3, x4>>[3] = x3 /\ <<x1, x2, x3, x4>>[4] = x4
    OBVIOUS

\* What is where in x = q v q, and the rest
LEMMA Places ==
    ASSUME NEW W, NEW v \in Seq(W), NEW x1 \in W, NEW x2 \in W, NEW q \in W,
           NEW y1 \in W, NEW y2 \in W, NEW y3 \in W,
           NEW m, m = Len(v),
           NEW line, line = <<x1, x2, q>> \o v \o <<q, y1, y2, y3>>
    PROVE  /\ m \in Nat /\ line \in Seq(W) /\ Len(line) = m + 7
           /\ line[1] = x1 /\ line[2] = x2 /\ line[3] = q
           /\ \A k \in 1 .. m : line[k + 3] = v[k]
           /\ line[m + 4] = q /\ line[m + 5] = y1 /\ line[m + 6] = y2 /\ line[m + 7] = y3
<1> DEFINE a == <<x1, x2, q>>
           b == <<q, y1, y2, y3>>
           c == a \o v
<1>1. a \in Seq(W) /\ Len(a) = 3 /\ a[1] = x1 /\ a[2] = x2 /\ a[3] = q
    BY Tuples
<1>2. b \in Seq(W) /\ Len(b) = 4 /\ b[1] = q /\ b[2] = y1 /\ b[3] = y2 /\ b[4] = y3
    BY Tuples
<1>3. line = c \o b /\ m \in Nat
    OBVIOUS
<1> HIDE DEF a, b
<1>4. /\ c \in Seq(W) /\ Len(c) = m + 3
      /\ \A k \in 1 .. m + 3 : c[k] = IF k <= 3 THEN a[k] ELSE v[k - 3]
  <2>1. /\ a \o v \in Seq(W) /\ Len(a \o v) = Len(a) + Len(v)
        /\ \A k \in 1 .. Len(a) + Len(v) :
             (a \o v)[k] = IF k <= Len(a) THEN a[k] ELSE v[k - Len(a)]
      BY <1>1, ConcatProperties
  <2>2. Len(a) + Len(v) = m + 3
      BY <1>1, <1>3
  <2> QED
      BY <1>1, <2>1, <2>2
<1> HIDE DEF c
<1>5. /\ line \in Seq(W) /\ Len(line) = m + 7
      /\ \A k \in 1 .. m + 7 : line[k] = IF k <= m + 3 THEN c[k] ELSE b[k - (m + 3)]
  <2>1. /\ c \o b \in Seq(W) /\ Len(c \o b) = Len(c) + Len(b)
        /\ \A k \in 1 .. Len(c) + Len(b) :
             (c \o b)[k] = IF k <= Len(c) THEN c[k] ELSE b[k - Len(c)]
      BY <1>2, <1>4, ConcatProperties
  <2>2. Len(c) + Len(b) = m + 7
      BY <1>2, <1>3, <1>4
  <2> QED
      BY <1>3, <1>4, <2>1, <2>2
<1>6. line[1] = a[1] /\ line[2] = a[2] /\ line[3] = a[3]
    BY <1>3, <1>4, <1>5
<1>7. ASSUME NEW k \in 1 .. m PROVE line[k + 3] = v[k]
    BY <1>3, <1>4, <1>5
<1>8. line[m + 4] = b[1] /\ line[m + 5] = b[2] /\ line[m + 6] = b[3] /\ line[m + 7] = b[4]
  <2>1. ASSUME NEW j \in 1 .. 4 PROVE line[m + 3 + j] = b[j]
    <3>1. m + 3 + j \in 1 .. m + 7 /\ ~ (m + 3 + j <= m + 3) /\ (m + 3 + j) - (m + 3) = j
        BY <1>3
    <3> QED
        BY <1>5, <3>1
  <2> QED
      BY <1>3, <2>1
<1> QED
    BY <1>1, <1>2, <1>3, <1>5, <1>6, <1>7, <1>8

\* What is trimmed is known from its first and its last token that is no space.
LEMMA TrimIs ==
    ASSUME NEW W, NEW t \in Seq(W), NEW lo \in 1 .. Len(t), NEW hi \in 1 .. Len(t),
           t[lo] # Space, t[hi] # Space,
           \A k \in 1 .. Len(t) : t[k] # Space => lo <= k /\ k <= hi
    PROVE  Trim(t) = SubSeq(t, lo, hi)
<1> DEFINE solid == {k \in DOMAIN t : t[k] # Space}
<1>1. /\ lo \in solid /\ hi \in solid /\ solid \in SUBSET Nat
      /\ solid \in SUBSET (0 .. Len(t)) /\ Len(t) \in Nat
    OBVIOUS
<1>2. \A k \in solid : lo <= k /\ hi >= k
    OBVIOUS
<1>3. Trim(t) = IF solid = {} THEN <<>> ELSE SubSeq(t, Min(solid), Max(solid))
    BY DEF Trim
<1> HIDE DEF solid
<1>4. Min(solid) = lo /\ Max(solid) = hi
    BY <1>1, <1>2, MinEquals, MaxEquals
<1> QED
    BY <1>1, <1>3, <1>4

\* The first = is found.
LEMMA EqualsAt ==
    ASSUME NEW t, Len(t) \in Nat, NEW at \in 1 .. Len(t), t[at] = "=",
           \A k \in 1 .. at - 1 : t[k] # "="
    PROVE  SelectInSeq(t, LAMBDA c : c = "=") = at
<1> DEFINE found == {k \in 1 .. Len(t) : t[k] = "="}
<1>1. at \in found /\ found \in SUBSET Nat /\ \A k \in found : at <= k
    OBVIOUS
<1>2. SelectInSeq(t, LAMBDA c : c = "=") = IF found # {} THEN Min(found) ELSE 0
    BY DEF SelectInSeq
<1> HIDE DEF found
<1>3. Min(found) = at
    BY <1>1, MinEquals
<1> QED
    BY <1>1, <1>2, <1>3

\* What a part of a sequence consists of
LEMMA SubSeqIs ==
    ASSUME NEW W, NEW t \in Seq(W), NEW lo \in 1 .. Len(t), NEW hi \in lo .. Len(t)
    PROVE  /\ SubSeq(t, lo, hi) \in Seq(W) /\ Len(SubSeq(t, lo, hi)) = hi - lo + 1
           /\ \A k \in 1 .. hi - lo + 1 : SubSeq(t, lo, hi)[k] = t[lo + k - 1]
<1>1. \A k \in lo .. hi : t[k] \in W
    OBVIOUS
<1> QED
    BY <1>1, SubSeqProperties

\* A quote is none of the other tokens that mean something.
LEMMA QuotesAre ==
    ASSUME NEW q \in Quotes
    PROVE  /\ q # Absent /\ q # Space /\ q # "#" /\ q # "="
           /\ "A" \notin Quotes /\ "=" \notin Quotes /\ Space \notin Quotes
           /\ Space # "A" /\ Space # "=" /\ Space # "#" /\ Space # "u"
    BY ConfigAssumption DEF Quotes, Space

\* The line is A=, the quoted v and a comment, as a sequence of length m + 7.
QuotedLine(W, v, q, line, m) ==
    /\ v \in Seq(W) /\ m = Len(v) /\ m \in Nat
    /\ line \in Seq(W) /\ Len(line) = m + 7
    /\ line[1] = "A" /\ line[2] = "=" /\ line[3] = q
    /\ \A k \in 1 .. m : line[k + 3] = v[k] /\ v[k] # q
    /\ line[m + 4] = q /\ line[m + 5] = Space /\ line[m + 6] = "#" /\ line[m + 7] = "u"

InComment(quote, space, cut, kept) ==
    [quote |-> quote, space |-> space, cut |-> cut, kept |-> kept]

\* The steps of stripComment before a # that counts, at it and behind it
LEMMA CommentStepIs ==
    ASSUME NEW c, NEW quote, NEW space \in BOOLEAN, NEW kept,
           NEW next \in BOOLEAN, next <=> c = Space,
           ~ (quote = Absent /\ c = "#")
    PROVE  CommentStep(InComment(quote, space, FALSE, kept), c) =
             InComment(QuoteStep(quote, c), next, FALSE, Append(kept, c))
<1>1. (c = Space) = next
    OBVIOUS
<1> QED
    BY <1>1 DEF CommentStep, InComment

LEMMA CommentCut ==
    ASSUME NEW kept, NEW c
    PROVE  /\ CommentStep(InComment(Absent, TRUE, FALSE, kept), "#") =
                InComment(Absent, TRUE, TRUE, kept)
           /\ CommentStep(InComment(Absent, TRUE, TRUE, kept), c) =
                InComment(Absent, TRUE, TRUE, kept)
    BY DEF CommentStep, InComment

\* stripComment finds no comment but the one behind the value.
LEMMA CommentIs ==
    ASSUME NEW W, NEW v, NEW q \in Quotes, NEW line, NEW m, QuotedLine(W, v, q, line, m)
    PROVE  StripComment(line) = SubSeq(line, 1, m + 5)
<1>a. /\ m \in Nat /\ line \in Seq(W) /\ Len(line) = m + 7
      /\ line[1] = "A" /\ line[2] = "=" /\ line[3] = q
      /\ line[m + 4] = q /\ line[m + 5] = Space /\ line[m + 6] = "#" /\ line[m + 7] = "u"
    BY DEF QuotedLine
<1>b. \A k \in 4 .. m + 3 : line[k] # q
  <2> SUFFICES ASSUME NEW k \in 4 .. m + 3 PROVE line[k] # q
      OBVIOUS
  <2>1. k - 3 \in 1 .. m /\ (k - 3) + 3 = k
      BY <1>a
  <2>2. line[(k - 3) + 3] # q
      BY <2>1 DEF QuotedLine
  <2> QED
      BY <2>1, <2>2
<1>c. /\ "A" # Space /\ "u" # Space /\ q # Space /\ q # "#" /\ q # "=" /\ q # Absent
      /\ "A" \notin Quotes /\ "=" \notin Quotes /\ Space \notin Quotes /\ Space # "#"
    BY QuotesAre
<1> DEFINE quote(k) == IF k \in 3 .. m + 3 THEN q ELSE Absent
           space(k) == k # 0 /\ line[k] = Space
           open(k) == InComment(quote(k), space(k), FALSE, SubSeq(line, 1, k))
           closed == InComment(Absent, TRUE, TRUE, SubSeq(line, 1, m + 5))
           start == InComment(Absent, FALSE, FALSE, <<>>)
           g == [k \in 0 .. Len(line) |-> IF k <= m + 5 THEN open(k) ELSE closed]
<1>1. open(0) = start
  <2>1. SubSeq(line, 1, 0) = <<>>
      BY SubSeqEmpty
  <2>2. space(0) = FALSE /\ quote(0) = Absent
      OBVIOUS
  <2> HIDE DEF space, quote
  <2> QED
      BY <2>1, <2>2
<1>2. ASSUME NEW k \in 1 .. m + 5 PROVE open(k) = CommentStep(open(k - 1), line[k])
  <2>1. Append(SubSeq(line, 1, k - 1), line[k]) = SubSeq(line, 1, k)
      BY <1>a
  <2>2. QuoteStep(quote(k - 1), line[k]) = quote(k)
    <3>1. k \in {1, 2, 3} \/ k \in 4 .. m + 3 \/ k = m + 4 \/ k = m + 5
        BY <1>a
    <3>2. CASE k \in {1, 2}
        BY <1>a, <1>c, <3>2 DEF QuoteStep
    <3>3. CASE k = 3
        BY <1>a, <1>c, <3>3 DEF QuoteStep
    <3>4. CASE k \in 4 .. m + 3
        BY <1>a, <1>b, <1>c, <3>4 DEF QuoteStep
    <3>5. CASE k = m + 4
        BY <1>a, <1>c, <3>5 DEF QuoteStep
    <3>6. CASE k = m + 5
        BY <1>a, <1>c, <3>6 DEF QuoteStep
    <3> QED
        BY <3>1, <3>2, <3>3, <3>4, <3>5, <3>6
  <2>3. ~ (quote(k - 1) = Absent /\ line[k] = "#")
    <3>1. k \in {1, 2, 3} \/ k \in 4 .. m + 4 \/ k = m + 5
        BY <1>a
    <3>2. k \in 4 .. m + 4 => quote(k - 1) # Absent
        BY <1>a, <1>c
    <3>3. k \in {1, 2, 3} \/ k = m + 5 => line[k] # "#"
        BY <1>a, <1>c
    <3> QED
        BY <3>1, <3>2, <3>3
  <2>4. space(k - 1) \in BOOLEAN /\ space(k) \in BOOLEAN /\ (space(k) <=> line[k] = Space)
      OBVIOUS
  <2> HIDE DEF quote, space
  <2>5. CommentStep(open(k - 1), line[k]) =
          InComment(QuoteStep(quote(k - 1), line[k]), space(k), FALSE,
                    Append(SubSeq(line, 1, k - 1), line[k]))
      BY <2>3, <2>4, CommentStepIs
  <2> QED
      BY <2>1, <2>2, <2>5
<1>3. CommentStep(open(m + 5), line[m + 6]) = closed
  <2>1. quote(m + 5) = Absent /\ space(m + 5) = TRUE
      BY <1>a
  <2>2. open(m + 5) = InComment(Absent, TRUE, FALSE, SubSeq(line, 1, m + 5))
      BY <2>1
  <2>3. line[m + 6] = "#"
      BY <1>a
  <2> HIDE DEF open
  <2> QED
      BY <2>2, <2>3, CommentCut
<1>4. CommentStep(closed, line[m + 7]) = closed
    BY CommentCut
<1> HIDE DEF open, closed, start
<1>5. CommentRun(g, start, line)
  <2>1. g[0] = start
      BY <1>a, <1>1
  <2>2. ASSUME NEW k \in 1 .. m + 7 PROVE g[k] = CommentStep(g[k - 1], line[k])
    <3>1. CASE k \in 1 .. m + 5
        BY <1>a, <1>2, <3>1
    <3>2. CASE k = m + 6
        BY <1>a, <1>3, <3>2
    <3>3. CASE k = m + 7
        BY <1>a, <1>4, <3>3
    <3> QED
        BY <1>a, <3>1, <3>2, <3>3
  <2>3. \A k \in 0 .. Len(line) :
          g[k] = IF k = 0 THEN start ELSE CommentStep(g[k - 1], line[k])
      BY <1>a, <2>1, <2>2
  <2>4. g = [k \in 0 .. Len(line) |-> g[k]]
      OBVIOUS
  <2> HIDE DEF g
  <2> QED
      BY <2>3, <2>4 DEF CommentRun
<1>6. g[Len(line)] = closed
    BY <1>a
<1> HIDE DEF g
<1>7. Scan(CommentStep, start, line) = closed
    BY <1>a, <1>5, <1>6, CommentScan
<1>8. Scan(CommentStep, start, line).kept = SubSeq(line, 1, m + 5)
  <2>1. closed.kept = SubSeq(line, 1, m + 5)
      BY DEF closed, InComment
  <2> QED
      BY <1>7, <2>1
<1>9. Trim(line) = SubSeq(line, 1, m + 7)
  <2>1. /\ 1 \in 1 .. Len(line) /\ m + 7 \in 1 .. Len(line)
        /\ line[1] # Space /\ line[m + 7] # Space
        /\ \A k \in 1 .. Len(line) : line[k] # Space => 1 <= k /\ k <= m + 7
      BY <1>a, <1>c
  <2> QED
      BY <1>a, <2>1, TrimIs
<1>10. Trim(line) # <<>> /\ Trim(line)[1] = "A"
  <2>1. 1 \in 1 .. Len(line) /\ m + 7 \in 1 .. Len(line) /\ Len(line) \in Nat
      BY <1>a
  <2>2. /\ Len(Trim(line)) = (m + 7) - 1 + 1
        /\ \A k \in 1 .. (m + 7) - 1 + 1 : Trim(line)[k] = line[1 + k - 1]
      BY <1>a, <1>9, <2>1, SubSeqIs
  <2> QED
      BY <1>a, <2>2
<1> QED
    BY <1>8, <1>10 DEF StripComment, start, InComment

\* The space in front of the comment goes too.
LEMMA ContentIs ==
    ASSUME NEW W, NEW v, NEW q \in Quotes, NEW line, NEW m, QuotedLine(W, v, q, line, m)
    PROVE  Content(line) = SubSeq(line, 1, m + 4)
<1>a. /\ m \in Nat /\ line \in Seq(W) /\ Len(line) = m + 7
      /\ line[1] = "A" /\ line[m + 4] = q /\ line[m + 5] = Space
    BY DEF QuotedLine
<1>c. "A" # Space /\ q # Space
    BY QuotesAre
<1> DEFINE t == SubSeq(line, 1, m + 5)
<1>1. 1 \in 1 .. Len(line) /\ m + 5 \in 1 .. Len(line) /\ (m + 5) - 1 + 1 = m + 5
    BY <1>a
<1>2. t \in Seq(W) /\ Len(t) = m + 5 /\ \A k \in 1 .. m + 5 : t[k] = line[k]
    BY <1>a, <1>1, SubSeqIs
<1> HIDE DEF t
<1>3. Trim(t) = SubSeq(t, 1, m + 4)
  <2>1. /\ 1 \in 1 .. Len(t) /\ m + 4 \in 1 .. Len(t)
        /\ t[1] # Space /\ t[m + 4] # Space
        /\ \A k \in 1 .. Len(t) : t[k] # Space => 1 <= k /\ k <= m + 4
      BY <1>a, <1>c, <1>2
  <2> QED
      BY <1>2, <2>1, TrimIs
<1>4. SubSeq(t, 1, m + 4) = SubSeq(line, 1, m + 4)
    BY <1>a, <1>2
<1>5. Content(line) = Trim(t)
  <2>1. StripComment(line) = t
      BY CommentIs DEF t
  <2> QED
      BY <2>1 DEF Content
<1> QED
    BY <1>3, <1>4, <1>5

-----------------------------------------------------------------------------
(* The words of the value *)

\* The same for the states of splitWords.
SplitRun(f, start, t) ==
    f = [k \in 0 .. Len(t) |-> IF k = 0 THEN start ELSE SplitStep(f[k - 1], t[k])]

LEMMA SplitScan ==
    ASSUME NEW start, NEW t, Len(t) \in Nat, NEW g, SplitRun(g, start, t)
    PROVE  Scan(SplitStep, start, t) = g[Len(t)]
<1> USE DEF SplitRun
<1> DEFINE Rec(f) == SplitRun(f, start, t)
           after == CHOOSE f : Rec(f)
           differs == {k \in 0 .. Len(t) : after[k] # g[k]}
<1>1. Scan(SplitStep, start, t) = after[Len(t)]
    BY DEF Scan
<1>2. Rec(after)
    OBVIOUS
<1> HIDE DEF after
<1>3. differs = {}
  <2> SUFFICES ASSUME differs # {} PROVE FALSE
      OBVIOUS
  <2> DEFINE first == Min(differs)
  <2>a. differs \in SUBSET Nat
      OBVIOUS
  <2> HIDE DEF differs
  <2>1. first \in differs /\ \A k \in differs : first <= k
      BY <2>a, MinIs
  <2> HIDE DEF first
  <2> USE DEF differs
  <2>2. first # 0
      BY <1>2, <2>1
  <2>3. first - 1 \in 0 .. Len(t) /\ first - 1 \notin differs
      BY <2>1, <2>2
  <2>4. after[first] = SplitStep(after[first - 1], t[first])
      BY <1>2, <2>1, <2>2
  <2>5. g[first] = SplitStep(g[first - 1], t[first])
      BY <2>1, <2>2
  <2> QED
      BY <2>1, <2>3, <2>4, <2>5
<1> QED
  <2>1. Len(t) \notin differs
      BY <1>3
  <2> QED
      BY <1>1, <2>1

InSplit(quote, inWord, cur) ==
    [quote |-> quote, inWord |-> inWord, cur |-> cur, words |-> <<>>]

\* The steps of splitWords at the first quote, within and at the last one
LEMMA SplitStepIs ==
    ASSUME NEW c, NEW cur, NEW q \in Quotes, q # Absent, q # Space
    PROVE  /\ SplitStep(InSplit(Absent, FALSE, <<>>), q) = InSplit(q, TRUE, <<>>)
           /\ c # q => SplitStep(InSplit(q, TRUE, cur), c) = InSplit(q, TRUE, Append(cur, c))
           /\ SplitStep(InSplit(q, TRUE, cur), q) = InSplit(Absent, TRUE, cur)
    BY DEF SplitStep, InSplit, QuoteStep

\* The value t is v in quotes.
QuotedValue(W, v, q, t, m) ==
    /\ v \in Seq(W) /\ m = Len(v) /\ m \in Nat
    /\ Len(t) = m + 2 /\ t[1] = q /\ t[m + 2] = q
    /\ \A k \in 1 .. m : t[k + 1] = v[k] /\ v[k] # q

\* The quotes go and the value is one word that is not ended yet.
LEMMA SplitIs ==
    ASSUME NEW W, NEW v, NEW q \in Quotes, NEW t, NEW m, QuotedValue(W, v, q, t, m)
    PROVE  Split(t) = InSplit(Absent, TRUE, v)
<1>a. q # Absent /\ q # Space
    BY QuotesAre
<1>c. /\ v \in Seq(W) /\ m = Len(v) /\ m \in Nat
      /\ Len(t) = m + 2 /\ Len(t) \in Nat /\ t[1] = q /\ t[m + 2] = q
    BY DEF QuotedValue
<1>b. \A k \in 2 .. m + 1 : t[k] = v[k - 1] /\ t[k] # q
  <2> SUFFICES ASSUME NEW k \in 2 .. m + 1 PROVE t[k] = v[k - 1] /\ t[k] # q
      OBVIOUS
  <2>1. k - 1 \in 1 .. m /\ (k - 1) + 1 = k
      BY <1>c
  <2>2. t[(k - 1) + 1] = v[k - 1] /\ v[k - 1] # q
      BY <2>1 DEF QuotedValue
  <2> QED
      BY <2>1, <2>2
<1> DEFINE inside(k) == InSplit(q, TRUE, SubSeq(v, 1, k - 1))
           start == InSplit(Absent, FALSE, <<>>)
           end == InSplit(Absent, TRUE, v)
           g == [k \in 0 .. Len(t) |->
                   IF k = 0 THEN start ELSE IF k = m + 2 THEN end ELSE inside(k)]
<1>1. SplitStep(start, t[1]) = inside(1)
  <2>1. SubSeq(v, 1, 1 - 1) = <<>>
      BY SubSeqEmpty
  <2>2. SplitStep(start, t[1]) = InSplit(q, TRUE, <<>>)
      BY <1>a, <1>c, SplitStepIs
  <2> QED
      BY <2>1, <2>2
<1>2. ASSUME NEW k \in 2 .. m + 1 PROVE SplitStep(inside(k - 1), t[k]) = inside(k)
  <2> DEFINE cur == SubSeq(v, 1, (k - 1) - 1)
  <2>1. Append(cur, v[k - 1]) = SubSeq(v, 1, k - 1)
      BY <1>c
  <2> HIDE DEF cur
  <2>2. t[k] = v[k - 1] /\ t[k] # q
      BY <1>b
  <2>3. SplitStep(InSplit(q, TRUE, cur), t[k]) = InSplit(q, TRUE, Append(cur, t[k]))
    <3> DEFINE c == t[k]
    <3>1. c # q
        BY <2>2
    <3> HIDE DEF c
    <3>2. SplitStep(InSplit(q, TRUE, cur), c) = InSplit(q, TRUE, Append(cur, c))
        BY <1>a, <3>1, SplitStepIs
    <3> QED
        BY <3>2 DEF c
  <2> QED
      BY <2>1, <2>2, <2>3 DEF cur
<1>3. SplitStep(inside(m + 1), t[m + 2]) = end
  <2>1. SubSeq(v, 1, (m + 1) - 1) = v
      BY <1>c
  <2>2. SplitStep(inside(m + 1), t[m + 2]) =
          InSplit(Absent, TRUE, SubSeq(v, 1, (m + 1) - 1))
      BY <1>a, <1>c, SplitStepIs
  <2> QED
      BY <2>1, <2>2
<1> HIDE DEF inside, start, end
<1>4. SplitRun(g, start, t)
  <2>1. g[0] = start
      BY <1>c
  <2>2. ASSUME NEW k \in 1 .. m + 2 PROVE g[k] = SplitStep(g[k - 1], t[k])
    <3>1. CASE k = 1
        BY <1>c, <1>1, <3>1
    <3>2. CASE k \in 2 .. m + 1
        BY <1>c, <1>2, <3>2
    <3>3. CASE k = m + 2
        BY <1>c, <1>3, <3>3
    <3> QED
        BY <1>c, <3>1, <3>2, <3>3
  <2>3. ASSUME NEW k \in 0 .. Len(t)
        PROVE  g[k] = IF k = 0 THEN start ELSE SplitStep(g[k - 1], t[k])
    <3>1. k = 0 \/ k \in 1 .. m + 2
        BY <1>c
    <3> HIDE DEF g
    <3> QED
        BY <2>1, <2>2, <3>1
  <2>4. g = [k \in 0 .. Len(t) |-> g[k]]
      OBVIOUS
  <2> HIDE DEF g
  <2> QED
      BY <2>3, <2>4 DEF SplitRun
<1>5. g[Len(t)] = end
    BY <1>c
<1> HIDE DEF g
<1>6. Scan(SplitStep, start, t) = end
  <2>1. Len(t) \in Nat
      BY <1>c
  <2>2. Scan(SplitStep, start, t) = g[Len(t)]
      BY <1>4, <2>1, SplitScan
  <2> QED
      BY <1>5, <2>2
<1> QED
    BY <1>6 DEF Split, start, end, InSplit

\* So the line is read as the name A and that word.
LEMMA ValueIs ==
    ASSUME NEW W, NEW v, NEW q \in Quotes, NEW line, NEW m, QuotedLine(W, v, q, line, m)
    PROVE  Entry(SubSeq(line, 1, m + 4)) = [name |-> <<"A">>, words |-> <<v>>]
<1> DEFINE content == SubSeq(line, 1, m + 4)
<1>a. /\ m \in Nat /\ line \in Seq(W) /\ Len(line) = m + 7 /\ v \in Seq(W) /\ m = Len(v)
      /\ line[1] = "A" /\ line[2] = "=" /\ line[3] = q /\ line[m + 4] = q
    BY DEF QuotedLine
<1>b. \A k \in 1 .. m : line[k + 3] = v[k] /\ v[k] # q
    BY DEF QuotedLine
<1>c. "A" # Space /\ q # Space /\ q # "="
    BY QuotesAre
<1>1. /\ content \in Seq(W) /\ Len(content) = m + 4
      /\ \A k \in 1 .. m + 4 : content[k] = line[k]
  <2>1. 1 \in 1 .. Len(line) /\ m + 4 \in 1 .. Len(line) /\ (m + 4) - 1 + 1 = m + 4
      BY <1>a
  <2> QED
      BY <1>a, <2>1, SubSeqIs
<1> HIDE DEF content
<1>2. SelectInSeq(content, LAMBDA c : c = "=") = 2
  <2>1. Len(content) \in Nat /\ 2 \in 1 .. Len(content) /\ content[2] = "="
          /\ \A k \in 1 .. 2 - 1 : content[k] # "="
      BY <1>a, <1>1
  <2> QED
      BY <2>1, EqualsAt
<1> DEFINE before == SubSeq(content, 1, 2 - 1)
           after == SubSeq(content, 2 + 1, Len(content))
<1>3. Trim(before) = <<"A">>
  <2>1. 1 \in 1 .. Len(content) /\ (2 - 1) - 1 + 1 = 1 /\ 2 - 1 = 1
      BY <1>a, <1>1
  <2>2. before \in Seq(W) /\ Len(before) = 1 /\ before[1] = "A"
      BY <1>a, <1>1, <2>1, SubSeqIs
  <2> HIDE DEF before
  <2>3. Trim(before) = SubSeq(before, 1, 1)
    <3>1. /\ 1 \in 1 .. Len(before) /\ before[1] # Space
          /\ \A k \in 1 .. Len(before) : before[k] # Space => 1 <= k /\ k <= 1
        BY <1>c, <2>2
    <3> QED
        BY <2>2, <3>1, TrimIs
  <2>4. SubSeq(before, 1, 1) = before
      BY <2>2
  <2>5. before = <<before[1]>>
      BY <2>2
  <2> QED
      BY <2>2, <2>3, <2>4, <2>5
<1>4. /\ after \in Seq(W) /\ Len(after) = m + 2 /\ after[1] = q /\ after[m + 2] = q
      /\ \A k \in 1 .. m : after[k + 1] = v[k] /\ v[k] # q
  <2>1. 3 \in 1 .. Len(content) /\ m + 4 \in 3 .. Len(content) /\ (m + 4) - 3 + 1 = m + 2
      BY <1>a, <1>1
  <2>2. after = SubSeq(content, 3, m + 4)
      BY <1>1
  <2> HIDE DEF after
  <2>3. /\ after \in Seq(W) /\ Len(after) = m + 2
        /\ \A k \in 1 .. m + 2 : after[k] = content[3 + k - 1]
      BY <1>1, <2>1, <2>2, SubSeqIs
  <2>4. after[1] = q
      BY <1>a, <1>1, <2>3
  <2>5. after[m + 2] = q
    <3>1. /\ m + 2 \in 1 .. m + 2 /\ m + 4 \in 1 .. m + 4
          /\ 3 + (m + 2) - 1 = m + 4
        BY <1>a
    <3>2. after[m + 2] = content[m + 4]
        BY <2>3, <3>1
    <3>3. content[m + 4] = line[m + 4]
        BY <1>1, <3>1
    <3> QED
        BY <1>a, <3>2, <3>3
  <2>6. ASSUME NEW k \in 1 .. m PROVE after[k + 1] = v[k] /\ v[k] # q
    <3>1. k + 1 \in 1 .. m + 2 /\ 3 + (k + 1) - 1 = k + 3 /\ k + 3 \in 1 .. m + 4
        BY <1>a
    <3>2. after[k + 1] = content[k + 3]
        BY <2>3, <3>1
    <3>3. content[k + 3] = line[k + 3]
        BY <1>1, <3>1
    <3> QED
        BY <1>b, <3>2, <3>3
  <2> QED
      BY <2>3, <2>4, <2>5, <2>6
<1> HIDE DEF before, after
<1>5. Trim(after) = after
  <2>1. /\ 1 \in 1 .. Len(after) /\ m + 2 \in 1 .. Len(after)
        /\ after[1] # Space /\ after[m + 2] # Space
        /\ \A k \in 1 .. Len(after) : after[k] # Space => 1 <= k /\ k <= m + 2
      BY <1>a, <1>c, <1>4
  <2>2. Trim(after) = SubSeq(after, 1, m + 2)
      BY <1>4, <2>1, TrimIs
  <2>3. SubSeq(after, 1, m + 2) = after
      BY <1>a, <1>4
  <2> QED
      BY <2>2, <2>3
<1>6. Split(after) = InSplit(Absent, TRUE, v)
  <2>1. QuotedValue(W, v, q, after, m)
      BY <1>a, <1>4 DEF QuotedValue
  <2> QED
      BY <2>1, SplitIs
<1>7. Closed(after) /\ SplitWords(after) = <<v>>
    BY <1>6 DEF Closed, SplitWords, InSplit
<1>8. after # <<>> /\ <<"A">> # <<>>
    BY <1>a, <1>4
<1>9. Entry(content) =
        IF 2 = 0 \/ Trim(before) = <<>> \/ Trim(after) = <<>> \/ ~Closed(Trim(after)) THEN Bad
        ELSE [name |-> Trim(before), words |-> SplitWords(Trim(after))]
    BY <1>2 DEF Entry, before, after
<1> QED
    BY <1>3, <1>5, <1>7, <1>8, <1>9 DEF content

\* A file of one line: that line may have any value, quoted so in another.
QuotedInv == Len(text) = 1 => text[1] \in Seq(ToSet(text[1]))

\* The property for one value and one quote
LEMMA QuotedIs ==
    ASSUME NEW v, v \in Seq(ToSet(v)), NEW q \in Quotes, q \notin ToSet(v)
    PROVE  Entry(Content(<<"A", "=", q>> \o v \o <<q, Space, "#", "u">>)) =
             [name |-> <<"A">>, words |-> <<v>>]
<1> DEFINE W == ToSet(v) \cup {"A", "=", Space, "#", "u", q}
           line == <<"A", "=", q>> \o v \o <<q, Space, "#", "u">>
           m == Len(v)
<1>1. /\ v \in Seq(W) /\ "A" \in W /\ "=" \in W /\ Space \in W /\ "#" \in W /\ "u" \in W
      /\ q \in W
    OBVIOUS
<1>2. \A k \in 1 .. m : v[k] # q
    BY DEF ToSet
<1> HIDE DEF W
<1>3. QuotedLine(W, v, q, line, m)
    BY <1>1, <1>2, Places DEF QuotedLine
<1> HIDE DEF line, m
<1>4. Content(line) = SubSeq(line, 1, m + 4)
    BY <1>3, ContentIs
<1>5. Entry(Content(line)) = [name |-> <<"A">>, words |-> <<v>>]
  <2>1. Entry(SubSeq(line, 1, m + 4)) = [name |-> <<"A">>, words |-> <<v>>]
      BY <1>3, ValueIs
  <2> QED
      BY <1>4, <2>1
<1> QED
    BY <1>5 DEF line

\* A value in quotes is read as it is, whatever else is in it (config.go:334 and
\* :350).
THEOREM ConfigQuotingProtects == ConfigSpec => []QuotingProtects
<1>1. ConfigInit => QuotedInv
    BY DEF ConfigInit, QuotedInv
<1>2. QuotedInv /\ ConfigInv /\ [ConfigNext]_configVars => QuotedInv'
  <2> SUFFICES ASSUME QuotedInv, ConfigInv, [ConfigNext]_configVars PROVE QuotedInv'
      OBVIOUS
  <2>1. CASE ReadLine
    <3>1. PICK raw \in NextLines(text) : text' = Append(text, raw)
        BY <2>1 DEF ReadLine
    <3>2. text \in Seq(ToSet(text))
        BY DEF ConfigInv
    <3>3. Len(text) \in Nat /\ Len(text') = Len(text) + 1 /\ text'[Len(text) + 1] = raw
        BY <3>1, <3>2, AppendIs
    <3>4. ASSUME Len(text') = 1 PROVE text = <<>> /\ text'[1] = raw
      <4>1. Len(text) + 1 = 1
          BY <3>3, <3>4
      <4>2. Len(text) = 0
          BY <3>3, <4>1
      <4> QED
          BY <3>2, <3>3, <4>2, EmptySeq
    <3> QED
        BY <3>1, <3>4, ConfigAssumption DEF QuotedInv
  <2>2. CASE UNCHANGED text
      BY <2>2 DEF QuotedInv
  <2> QED
      BY <2>1, <2>2 DEF ConfigNext, configVars, Link, LoadHop, Loaded
<1>3. QuotedInv => QuotingProtects
  <2> SUFFICES ASSUME QuotedInv, NEW q \in Quotes, Len(text) = 1, q \notin ToSet(text[1])
               PROVE  Entry(Content(<<"A", "=", q>> \o text[1] \o <<q, Space, "#", "u">>)) =
                        [name |-> <<"A">>, words |-> <<text[1]>>]
      BY DEF QuotingProtects
  <2> QED
      BY QuotedIs DEF QuotedInv
<1> QED
    BY <1>1, <1>2, <1>3, ConfigInvariance, PTL DEF ConfigSpec

=============================================================================
