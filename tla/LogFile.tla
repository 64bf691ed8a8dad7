------------------------------ MODULE LogFile -------------------------------
(***************************************************************************)
(* The log and its rotation (src/main_windows.go, logFile).  A file is the *)
(* sequence of the lines in it; a line is its number, in the order they    *)
(* were written, and where in the file it ends.  The mutex makes Write one *)
(* writer at a time, but the program can end between any two of its steps. *)
(***************************************************************************)
EXTENDS Integers, Sequences

CONSTANTS
    Lengths,    \* the lengths a line may have
    MaxSize,    \* maxLogSize
    MaxLines,   \* bound: how many lines are written
    MaxEnds     \* bound: how often the program ends

\* No line is as long as a whole file (1 MB).
ASSUME LogAssumption ==
    /\ MaxSize \in Nat /\ MaxLines \in Nat /\ MaxEnds \in Nat
    /\ Lengths \subseteq 1..MaxSize

VARIABLES
    current,    \* the file at l.path
    old,        \* the file at l.path.old
    open,       \* l.f is open
    size,       \* l.size
    writer,     \* where Write is; "ended" when the program is
    length,     \* the length of the line it writes
    count,      \* how many lines have been written or lost
    ends,       \* how often the program has ended
    spoilt      \* a rename or a reopening has failed

logVars == <<current, old, open, size, writer, length, count, ends, spoilt>>

Total(file) == IF file = <<>> THEN 0 ELSE file[Len(file)].end

LogInit ==
    /\ current = <<>> /\ old = <<>>
    /\ open = FALSE /\ size = 0
    /\ writer = "ended" /\ length = 0
    /\ count = 0 /\ ends = 0 /\ spoilt = FALSE

SizeAtStart == Total(current)

\* openLog appends to the file there is.
OpenLog ==
    /\ writer = "ended"
    /\ open' = TRUE /\ size' = SizeAtStart
    /\ writer' = "idle"
    /\ UNCHANGED <<current, old, length, count, ends, spoilt>>

Exceeds(n) == size + n > MaxSize

\* Write: a line that would make the file too long closes it first.
Write(n) ==
    /\ writer = "idle" /\ count < MaxLines
    /\ length' = n
    /\ IF Exceeds(n) THEN writer' = "renaming" /\ open' = FALSE
                     ELSE writer' = "writing" /\ UNCHANGED open
    /\ UNCHANGED <<current, old, size, count, ends, spoilt>>

\* Broken variant: the log is emptied and not renamed.
TruncateFirst ==
    /\ writer = "renaming"
    /\ writer' = "reopening"
    /\ old' = <<>> /\ current' = <<>>
    /\ UNCHANGED <<open, size, length, count, ends, spoilt>>

\* os.Rename, whose error nobody looks at: another program, or this one's
\* crash output, may hold the file.
Rename ==
    /\ writer = "renaming"
    /\ writer' = "reopening"
    /\ \/ old' = current /\ current' = <<>> /\ UNCHANGED spoilt
       \/ spoilt' = TRUE /\ UNCHANGED <<old, current>>
    /\ UNCHANGED <<open, size, length, count, ends>>

\* O_TRUNC; or the line is lost, l.f stays closed and l.size as it was.
Reopen ==
    /\ writer = "reopening"
    /\ \/ /\ current' = <<>> /\ open' = TRUE /\ size' = 0
          /\ writer' = "writing"
          /\ UNCHANGED <<length, count, spoilt>>
       \/ /\ writer' = "idle"
          /\ length' = 0 /\ count' = count + 1 /\ spoilt' = TRUE
          /\ UNCHANGED <<current, open, size>>
    /\ UNCHANGED <<old, ends>>

\* A line that fits is lost on a closed file.
Finish ==
    /\ writer = "writing"
    /\ writer' = "idle"
    /\ count' = count + 1
    /\ length' = 0
    /\ IF open
       THEN /\ current' = Append(current,
                   [number |-> count', end |-> Total(current) + length])
            /\ size' = size + length
       ELSE UNCHANGED <<current, size>>
    /\ UNCHANGED <<old, open, ends, spoilt>>

\* The program ends, in the middle of a Write perhaps; it may start again.
EndProgram ==
    /\ writer # "ended" /\ ends < MaxEnds
    /\ ends' = ends + 1
    /\ writer' = "ended" /\ open' = FALSE /\ length' = 0
    /\ UNCHANGED <<current, old, size, count, spoilt>>

LogNext ==
    \/ OpenLog \/ (\E n \in Lengths : Write(n)) \/ Rename \/ Reopen \/ Finish
    \/ EndProgram

LogSpec == LogInit /\ [][LogNext]_logVars

-----------------------------------------------------------------------------
(* What it promises.                                                       *)

Lines == [number : 1..MaxLines, end : 1..MaxSize]

\* The state has its type, and l.size is the length of the open file, also
\* after a restart and after a failed rename (openLog, Write).
LogTypeOK ==
    /\ current \in Seq(Lines) /\ old \in Seq(Lines)
    /\ open \in BOOLEAN /\ spoilt \in BOOLEAN
    /\ open => size = Total(current)
    /\ writer \in {"ended", "idle", "renaming", "reopening", "writing"}
    /\ length \in Lengths \cup {0}
    /\ count \in 0..MaxLines /\ ends \in 0..MaxEnds

\* Neither file is ever longer than the limit, over any number of restarts
\* and failures; and while no rename and no reopening fails, the two together
\* hold the last lines without a gap: all of them until the first rotation,
\* and no less than a full file after it (openLog, Write).
LastLinesKept ==
    LET kept == old \o current
    IN  /\ Total(current) <= MaxSize /\ Total(old) <= MaxSize
        /\ ~spoilt /\ count > 0 =>
            /\ kept # <<>>
            /\ \A k \in DOMAIN kept : kept[k].number = count - Len(kept) + k
            /\ IF old = <<>> THEN kept[1].number = 1
               ELSE \E n \in Lengths : Total(old) + n > MaxSize

=============================================================================
