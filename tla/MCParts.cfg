\* The tray with two threads, four versions of the status and an Explorer that
\* dies twice; a log of at most four units and eight lines, ended twice; files
\* of up to five lines; one or two patterns and names of up to four.
SPECIFICATION PartsSpec
CONSTANTS
    Threads = {t1, t2}
    Counts <- CountsMC
    Gap = 7
    MaxRetries = 2
    MaxRestarts = 2
    None = None
    Lengths = {1, 2, 3}
    MaxSize = 4
    MaxLines = 8
    MaxEnds = 2
    NextLines <- NextLinesMC
    MaxConfigLines = 5
    Bad = Bad
    Absent = Absent
    Names <- NamesMC
    PatternLists <- PatternListsMC
    Undecided = Undecided
INVARIANTS
    RefreshNotLost
    MenuDoesWhatItSays
    LastLinesKept
    MeansWhatItSays
    QuotingProtects
    MatchesAsMeant
PROPERTIES
    IconComesBack
    RoundsProgress
CHECK_DEADLOCK FALSE
