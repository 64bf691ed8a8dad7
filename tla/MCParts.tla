------------------------------- MODULE MCParts -------------------------------
\* The parts that work by themselves for TLC, one of which is at work: the
\* tray, the log, the reader of the configuration and the patterns of
\* known_hosts.
EXTENDS Tray, LogFile, Config, HostPatterns

VARIABLE part

CountsMC == <<0, 2, 8, 1>>   \* the third version is longer than a menu of 7

\* The first line of a file is any short line or begins a configuration, the
\* others are out of a set that has each rule and each mistake.
Anything == SeqOf({"A", " ", "#", "=", "\"", "'"}, 5)

Servers == <<"[", "servers", "]">>
Proxies == <<" ", "[", " ", "proxies", "]", " ", "#", "A">>
Rules ==
    { Servers, Proxies,
      <<"A", " ", "=", " ", "u", "@", "u", "@", "h", ":", "22", " ", "key", "=", "~", "k">>,
      <<"B", "=", "u", "@", "h", " ", "key", "=", "\"", "k", " ", "#", "k", "\"">>,
      <<"1080", " ", "=", " ", "A", " ", ">", "B">>,
      <<":", "1080", "=", "u", "@", "h", " ", "key", "=", "k", " ", "A", ",", "u", "@", "u",
        " ", "key", "=", "C:", "k", " ", "auth", "=", "u", ":", "k">>,
      <<"localhost", ":", "01080", "=", "A">> }
Mistakes ==
    { <<"[", "A", "]">>, <<"A">>,
      <<"A", " ", "B", "=", "u", "@", "h">>,
      <<"A", "=", "key", "=", "k", " ", "u", "@", "h">>,
      <<"B", "=", "u", "@", "h", " ", "key", "=">>,
      <<"B", "=", "u", "@", "h", " ", "typo", "=", "k">>,
      <<"1080", "=", "A", " ", "key", "=", "k">>,
      <<"1080", "=", ">", " ", ",">>,
      <<"1080", "=", "A", " ", "auth", "=", "k">>,
      <<"A", ":", "1080", "=", "A">> }

NextLinesMC(read) ==
    IF read = <<>> THEN Anything \cup {Servers, Proxies}
    ELSE IF read[1] \in {Servers, Proxies} THEN Rules \cup Mistakes
    ELSE {}

NamesMC == SeqOf({"a", "b"}, 4)
Pattern(set, longest) ==
    [negate : BOOLEAN, hashed : {FALSE}, chars : SeqOf(set, longest)]
        \cup [negate : BOOLEAN, hashed : {TRUE}, chars : SeqOf({"a"}, 1)]
PatternListsMC ==
    {<<pat>> : pat \in Pattern({"a", "b", "*", "?"}, 4)}
        \cup {<<pat, other>> : pat, other \in Pattern({"a", "*"}, 2)}

NoPatterns ==
    /\ patterns = <<>> /\ name = <<>>
    /\ n = 1 /\ matched = FALSE /\ answer = Undecided
    /\ p = 1 /\ i = 1 /\ star = 0 /\ mark = 1

\* The patterns and the names, and the tray without a taskbar, are tried when
\* they are at work.
PartsInit ==
    /\ part \in {"tray", "log", "config", "patterns"}
    /\ Init /\ LogInit /\ ConfigInit
    /\ part # "tray" => ~taskbar
    /\ IF part = "patterns" THEN PatternsInit ELSE NoPatterns

PartsNext ==
    /\ UNCHANGED part
    /\ \/ part = "tray" /\ Next /\ UNCHANGED <<logVars, configVars, patternVars>>
       \/ part = "log" /\ LogNext /\ UNCHANGED <<vars, configVars, patternVars>>
       \/ part = "config" /\ ConfigNext /\ UNCHANGED <<vars, logVars, patternVars>>
       \/ part = "patterns" /\ PatternsNext /\ UNCHANGED <<vars, logVars, configVars>>

\* The fairness is the tray's, and asks nothing while another part is at work.
PartsSpec ==
    /\ PartsInit
    /\ [][PartsNext]_<<vars, logVars, configVars, patternVars, part>>
    /\ part = "tray" => Fairness

=============================================================================
