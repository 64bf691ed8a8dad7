----------------------------- MODULE HostPatterns -----------------------------
(***************************************************************************)
(* matchHost and wildcardMatch (sshconn.go): whether the patterns of a line *)
(* of known_hosts cover a host.  Each round of the loop of wildcardMatch,   *)
(* which goes back to the last star when it is stuck, is a step.            *)
(***************************************************************************)
EXTENDS Naturals, Sequences

CONSTANTS
    Names,          \* sequences of characters
    PatternLists,   \* sequences of patterns
    Undecided

\* A pattern may be negated by "!"; that of a hashed name has no wildcards.
\* No server can be dialled by a name with a star in it.
ASSUME PatternsAssumption ==
    /\ PatternLists \subseteq
           Seq([negate : BOOLEAN, hashed : BOOLEAN, chars : Seq(STRING)])
    /\ Names \subseteq Seq(STRING \ {"*"})
    /\ Undecided \notin BOOLEAN

VARIABLES
    patterns, name,     \* the arguments of matchHost
    n,                  \* the pattern being tried
    matched,            \* one that is not negated has matched
    p, i, star, mark,   \* the variables of wildcardMatch; 0 for -1 in star
    answer              \* what matchHost returns

loopVars == <<p, i, star, mark>>
patternVars == <<patterns, name, n, matched, loopVars, answer>>

PatternsTypeOK ==
    /\ n \in 1 .. Len(patterns) + 1
    /\ matched \in BOOLEAN
    /\ answer \in {Undecided, TRUE, FALSE}
    /\ i \in 1 .. Len(name) + 1
    /\ n <= Len(patterns) => p \in 1 .. Len(patterns[n].chars) + 1
    /\ star < p /\ mark <= i

PatternsInit ==
    /\ patterns \in PatternLists
    /\ name \in Names
    /\ n = 1
    /\ matched = FALSE
    /\ p = 1 /\ i = 1 /\ star = 0 /\ mark = 1
    /\ answer = Undecided

pattern == patterns[n].chars
Trying(hashed) ==
    /\ answer = Undecided
    /\ n <= Len(patterns)
    /\ patterns[n].hashed = hashed

-----------------------------------------------------------------------------

SameChar ==
    /\ Trying(FALSE)
    /\ i <= Len(name)
    /\ p <= Len(pattern) /\ pattern[p] \in {"?", name[i]}
    /\ p' = p + 1
    /\ i' = i + 1
    /\ UNCHANGED <<patterns, name, n, matched, star, mark, answer>>

IsStar ==
    /\ Trying(FALSE)
    /\ i <= Len(name) /\ name[i] # "*"
    /\ p <= Len(pattern) /\ pattern[p] = "*"
    /\ star' = p
    /\ mark' = i
    /\ p' = p + 1
    /\ UNCHANGED <<patterns, name, n, matched, i, answer>>

Stuck ==
    /\ Trying(FALSE)
    /\ i <= Len(name)
    /\ p <= Len(pattern) => pattern[p] \notin {"?", name[i], "*"}

\* Broken variant: the star is tried again with what it had.
GoBackInPlace ==
    /\ Stuck
    /\ star > 0
    /\ p' = star + 1
    /\ i' = mark
    /\ UNCHANGED <<patterns, name, n, matched, star, mark, answer>>

\* Broken variant: the star goes on behind what it has given up.
GoBackTooFar ==
    /\ Stuck
    /\ star > 0
    /\ p' = star + 1
    /\ mark' = i + 1
    /\ i' = i + 1
    /\ UNCHANGED <<patterns, name, n, matched, star, answer>>

\* The last star takes one more character.
GoBack ==
    /\ Stuck
    /\ star > 0
    /\ p' = star + 1
    /\ mark' = mark + 1
    /\ i' = mark + 1
    /\ UNCHANGED <<patterns, name, n, matched, star, answer>>

\* matchHost with the result of one pattern.
Tried(ok) ==
    /\ answer' = IF ok /\ patterns[n].negate THEN FALSE ELSE answer
    /\ matched' = (matched \/ ok)
    /\ n' = n + 1
    /\ p' = 1 /\ i' = 1 /\ star' = 0 /\ mark' = 1
    /\ UNCHANGED <<patterns, name>>

NoStar ==
    /\ Stuck
    /\ star = 0
    /\ Tried(FALSE)

\* At the end of the name only stars may be left of the pattern.
NameEnds ==
    /\ Trying(FALSE)
    /\ i > Len(name)
    /\ Tried(\A k \in p .. Len(pattern) : pattern[k] = "*")

\* matchHashedHost: the hash is that of one name.
Hashed ==
    /\ Trying(TRUE)
    /\ Tried(pattern = name)

AllTried ==
    /\ answer = Undecided
    /\ n > Len(patterns)
    /\ answer' = matched
    /\ UNCHANGED <<patterns, name, n, matched, loopVars>>

PatternsNext ==
    SameChar \/ IsStar \/ GoBack \/ NoStar \/ NameEnds \/ Hashed \/ AllTried

PatternsSpec == PatternsInit /\ [][PatternsNext]_patternVars

-----------------------------------------------------------------------------

\* The first m characters of a pattern stand for what cut says: each for one
\* character of the name that is like it, or as many as there are for a star.
Stand(chars, host, cut, m) ==
    /\ cut[0] = 0
    /\ \A a \in 1..m :
           chars[a] # "*" => /\ cut[a] = cut[a - 1] + 1
                             /\ chars[a] \in {"?", host[cut[a]]}
    /\ \A a, b \in 0..m : a <= b => cut[a] <= cut[b]

\* A name is covered when it can be cut so that all of the pattern stands for
\* all of it.
Fits(chars, host, cut) ==
    Stand(chars, host, cut, Len(chars)) /\ cut[Len(chars)] = Len(host)

Covers(pat, host) ==
    IF pat.hashed THEN pat.chars = host
    ELSE \E cut \in [0..Len(pat.chars) -> 0..Len(host)] :
             Fits(pat.chars, host, cut)

\* The loop with its single memory of the last star finds every match, and a
\* negated pattern excludes the host wherever it is in the list.
MatchesAsMeant ==
    answer # Undecided =>
        answer = LET covering == {k \in DOMAIN patterns :
                                     Covers(patterns[k], name)}
                 IN  /\ covering # {}
                     /\ \A k \in covering : ~patterns[k].negate

\* Going back ends: a round gets further in the name, in the pattern, or moves
\* the last star's mark on.
RoundsProgress ==
    [][\/ n' > n \/ answer' # Undecided
       \/ mark' > mark
       \/ mark' = mark /\ (i' > i \/ p' > p)]_patternVars

=============================================================================
