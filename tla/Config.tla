------------------------------- MODULE Config -------------------------------
(***************************************************************************)
(* Reading the configuration (config.go): ParseConfig goes through the file *)
(* line by line and links the chains of the proxies when it has seen all    *)
(* servers; LoadConfig then goes through the chains and makes the paths of  *)
(* the keys absolute.                                                       *)
(*                                                                          *)
(* A line is a sequence of tokens: a name, a number, a space or a character *)
(* that means something.  What is put together from tokens without a space  *)
(* between them is one word.  What cannot be read is Bad.                   *)
(***************************************************************************)
EXTENDS Naturals, Sequences, SequencesExt

CONSTANTS
    NextLines(_),   \* NextLines(t): what the line after t may be, out of tokens
    MaxConfigLines, \* bound: lines of the file
    Bad, Absent

Space == " "
Quotes == {"\"", "'"}

ASSUME ConfigAssumption ==
    /\ Absent \notin Quotes \cup {"servers", "proxies"}
    /\ \A line \in NextLines(<<>>) : line \in Seq(ToSet(line))

Letters == {"A", "B", "u", "h", "k", "key", "password", "auth", "typo"}
IPs == {"127.0.0.1", "0.0.0.0"}
\* strconv.Atoi, from 1 to 65535
PortOf == [t \in {"22", "1080", "01080"} |-> IF t = "22" THEN 22 ELSE 1080]

VARIABLES
    text,       \* the lines read
    section,
    servers,    \* cfg.Servers: the server of each name
    proxies,    \* the proxy lines, then cfg.Proxies: a hop has the name of the
                \* server it shares with others, or a server of its own
    state,      \* "reading", "parsed", "loaded" or "error"
    todo        \* the hops that LoadConfig has yet to come to

configVars == <<text, section, servers, proxies, state, todo>>

ConfigInit ==
    /\ text = <<>>
    /\ section = Absent
    /\ servers = <<>>
    /\ proxies = <<>>
    /\ state = "reading"
    /\ todo = {}

-----------------------------------------------------------------------------
(* Words *)

Trim(s) ==
    LET solid == {i \in DOMAIN s : s[i] # Space}
    IN  IF solid = {} THEN <<>> ELSE SubSeq(s, Min(solid), Max(solid))

\* strings.Cut; Absent if sep is
Cut(s, sep) ==
    LET i == SelectInSeq(s, LAMBDA c : c = sep)
    IN  IF i = 0 THEN Absent
        ELSE [before |-> SubSeq(s, 1, i - 1), after |-> SubSeq(s, i + 1, Len(s))]

\* The state after the characters of s, one by one
Scan(Step(_, _), start, s) ==
    LET after[k \in 0 .. Len(s)] ==
            IF k = 0 THEN start ELSE Step(after[k - 1], s[k])
    IN  after[Len(s)]

\* The quote that is open after the token c.
QuoteStep(q, c) ==
    IF q = Absent THEN IF c \in Quotes THEN c ELSE Absent
    ELSE IF c = q THEN Absent ELSE q

\* Broken variant: quotes do not protect a #.
CommentStepBlind(st, c) ==
    IF st.cut \/ (c = "#" /\ st.space)
    THEN [st EXCEPT !.cut = TRUE]
    ELSE [st EXCEPT !.space = (c = Space), !.kept = Append(@, c)]

CommentStep(st, c) ==
    IF st.cut \/ (st.quote = Absent /\ c = "#" /\ st.space)
    THEN [st EXCEPT !.cut = TRUE]
    ELSE [st EXCEPT !.quote = QuoteStep(@, c), !.space = (c = Space),
                    !.kept = Append(@, c)]

StripComment(line) ==
    LET bare == Trim(line)
        start == [quote |-> Absent, space |-> FALSE, cut |-> FALSE, kept |-> <<>>]
    IN  IF bare # <<>> /\ bare[1] \in {"#", ";"} THEN <<>>
        ELSE Scan(CommentStep, start, line).kept

Content(line) == Trim(StripComment(line))

SplitStep(st, c) ==
    LET q == QuoteStep(st.quote, c)
    IN  IF st.quote = Absent /\ c = Space
        THEN IF st.inWord
             THEN [st EXCEPT !.words = Append(@, st.cur), !.cur = <<>>, !.inWord = FALSE]
             ELSE st
        ELSE [st EXCEPT !.quote = q, !.inWord = TRUE,
                        !.cur = IF q = st.quote THEN Append(@, c) ELSE @]

Split(s) ==
    Scan(SplitStep,
         [quote |-> Absent, inWord |-> FALSE, cur |-> <<>>, words |-> <<>>], s)
Closed(s) == Split(s).quote = Absent
SplitWords(s) ==
    IF Split(s).inWord THEN Append(Split(s).words, Split(s).cur) ELSE Split(s).words

\* name=value, the name of letters only; Absent if w is something else
CutOption(w) ==
    LET o == Cut(w, "=")
    IN  IF o = Absent THEN Absent
        ELSE IF o.before = <<>> \/ ~(ToSet(o.before) \subseteq Letters) THEN Absent
        ELSE o

SplitHops(w) ==
    LET step(parts, c) ==
            IF c \in {">", ","} THEN Append(parts, <<>>)
            ELSE [parts EXCEPT ![Len(parts)] = Append(@, c)]
        parts == FoldLeft(step, <<<<>>>>, w)
    IN  SelectSeq([i \in DOMAIN parts |-> Trim(parts[i])], LAMBDA h : h # <<>>)

\* user@host or user@host:port; the user may have an @ too
ParseAddress(w) ==
    LET at == SelectLastInSeq(w, LAMBDA c : c = "@")
        rest == SubSeq(w, at + 1, Len(w))
        ported == Len(rest) = 3 /\ rest[2] = ":" /\ rest[3] \in DOMAIN PortOf
    IN  IF at <= 1 \/ ~(Len(rest) = 1 \/ ported) \/ rest[1] \notin Letters THEN Bad
        ELSE [user |-> SubSeq(w, 1, at - 1), host |-> rest[1],
              port |-> IF ported THEN PortOf[rest[3]] ELSE 22,
              keys |-> <<>>, password |-> <<>>]

\* port, :port or address:port
NormalizeListen(w) ==
    LET host == IF Len(w) = 1 THEN "127.0.0.1"
                ELSE IF Len(w) = 2 THEN "0.0.0.0"
                ELSE IF w[1] = "localhost" THEN "127.0.0.1" ELSE w[1]
    IN  IF \/ Len(w) \notin 1 .. 3
           \/ w[Len(w)] \notin DOMAIN PortOf
           \/ Len(w) > 1 /\ w[Len(w) - 1] # ":"
           \/ host \notin IPs
        THEN Bad
        ELSE <<host, PortOf[w[Len(w)]]>>

\* A path, and what it is relative to
Path(v) ==
    IF v[1] \in {"~", "C:"} THEN [from |-> v[1], rest |-> Tail(v)]
    ELSE [from |-> ".", rest |-> v]

\* setServerOption
AddOption(s, o) ==
    IF o.after = <<>> THEN Bad
    ELSE IF o.before = <<"key">> THEN [s EXCEPT !.keys = Append(@, Path(o.after))]
    ELSE IF o.before = <<"password">> THEN [s EXCEPT !.password = o.after]
    ELSE Bad

ServerWord(s, w) ==
    LET o == CutOption(w)
    IN  IF s = Bad \/ (o = Absent) # (s = Absent) THEN Bad
        ELSE IF o = Absent THEN ParseAddress(w) ELSE AddOption(s, o)

ParseServer(words) ==
    LET s == FoldLeft(ServerWord, Absent, words) IN IF s = Absent THEN Bad ELSE s

AddHop(p, h) ==
    LET s == IF "@" \in ToSet(h) THEN ParseAddress(h) ELSE Absent
    IN  IF p = Bad \/ s = Bad THEN Bad
        ELSE [p EXCEPT !.hops =
                 Append(@, [name |-> IF s = Absent THEN h ELSE Absent, server |-> s])]

\* An option belongs to the user@host just before it.
OptionOfHop(p, o) ==
    LET s == IF p.hops = <<>> \/ Last(p.hops).server = Absent THEN Bad
             ELSE AddOption(Last(p.hops).server, o)
    IN  IF s = Bad THEN Bad ELSE [p EXCEPT !.hops[Len(p.hops)].server = s]

ProxyWord(p, w) ==
    LET o == CutOption(w)
        auth == IF o = Absent THEN Absent ELSE Cut(o.after, ":")
    IN  IF p = Bad THEN Bad
        ELSE IF o = Absent THEN FoldLeft(AddHop, p, SplitHops(w))
        ELSE IF o.before = <<"auth">>
        THEN IF auth = Absent THEN Bad
             ELSE IF auth.before = <<>> THEN Bad ELSE [p EXCEPT !.auth = auth]
        ELSE OptionOfHop(p, o)

ParseProxy(listen, words) ==
    LET p == FoldLeft(ProxyWord, [auth |-> Absent, hops |-> <<>>], words)
    IN  IF listen = Bad \/ p = Bad THEN Bad
        ELSE IF p.hops = <<>> THEN Bad
        ELSE [listen |-> listen, auth |-> p.auth, hops |-> p.hops]

-----------------------------------------------------------------------------
(* ParseConfig *)

IsHeader(line) == line # <<>> /\ line[1] = "[" /\ Last(line) = "]"
Header(line) == Trim(SubSeq(line, 2, Len(line) - 1))

\* name = words
Entry(line) ==
    LET eq == SelectInSeq(line, LAMBDA c : c = "=")
        name == Trim(SubSeq(line, 1, eq - 1))
        value == Trim(SubSeq(line, eq + 1, Len(line)))
    IN  IF eq = 0 \/ name = <<>> \/ value = <<>> \/ ~Closed(value) THEN Bad
        ELSE [name |-> name, words |-> SplitWords(value)]

ServerOf(line) ==
    LET e == Entry(line)
    IN  IF e = Bad THEN Bad
        ELSE IF ToSet(e.name) \cap {Space, "@", ",", ">"} # {} THEN Bad
        ELSE ParseServer(e.words)

ProxyOf(line) ==
    LET e == Entry(line)
    IN  IF e = Bad THEN Bad ELSE ParseProxy(NormalizeListen(e.name), e.words)

Blank(line) ==
    /\ line = <<>>
    /\ UNCHANGED <<section, servers, proxies, state>>

NewSection(line) ==
    /\ IsHeader(line)
    /\ Header(line) \in {<<"servers">>, <<"proxies">>}
    /\ section' = Header(line)[1]
    /\ UNCHANGED <<servers, proxies, state>>

NewServer(line) ==
    /\ line # <<>> /\ ~IsHeader(line)
    /\ section = "servers"
    /\ ServerOf(line) # Bad
    /\ Entry(line).name \notin DOMAIN servers
    /\ servers' = [n \in DOMAIN servers \cup {Entry(line).name} |->
                     IF n \in DOMAIN servers THEN servers[n] ELSE ServerOf(line)]
    /\ UNCHANGED <<section, proxies, state>>

NewProxy(line) ==
    /\ line # <<>> /\ ~IsHeader(line)
    /\ section = "proxies"
    /\ ProxyOf(line) # Bad
    /\ \E p \in {ProxyOf(line)} :
         proxies' = Append(proxies, [line |-> Len(text'), listen |-> p.listen,
                                     auth |-> p.auth, hops |-> p.hops])
    /\ UNCHANGED <<section, servers, state>>

GoodLine(line) == Blank(line) \/ NewSection(line) \/ NewServer(line) \/ NewProxy(line)

\* Whatever is not understood ends the reading.
WrongLine(line) ==
    /\ line # <<>>
    /\ IF IsHeader(line) THEN Header(line) \notin {<<"servers">>, <<"proxies">>}
       ELSE /\ section = "servers" =>
                ~(ServerOf(line) # Bad /\ Entry(line).name \notin DOMAIN servers)
            /\ section = "proxies" => ProxyOf(line) = Bad
    /\ state' = "error"
    /\ UNCHANGED <<section, servers, proxies>>

ReadLine ==
    /\ state = "reading"
    /\ Len(text) < MaxConfigLines
    /\ \E raw \in NextLines(text) :
        /\ text' = Append(text, raw)
        /\ GoodLine(Content(raw)) \/ WrongLine(Content(raw))
    /\ todo' = todo

HopsOf(list) ==
    UNION {{[proxy |-> k, hop |-> h] : h \in DOMAIN list[k].hops} : k \in DOMAIN list}

\* No two proxies listen at one address, and what they go through exists.
CanLink ==
    /\ \A i, j \in DOMAIN proxies : proxies[i].listen = proxies[j].listen => i = j
    /\ \A i \in DOMAIN proxies : \A h \in ToSet(proxies[i].hops) :
        h.name \in DOMAIN servers \cup {Absent}

Link ==
    /\ state = "reading"
    /\ state' = IF CanLink THEN "parsed" ELSE "error"
    /\ todo' = IF CanLink THEN HopsOf(proxies) ELSE {}
    /\ UNCHANGED <<text, section, servers, proxies>>

-----------------------------------------------------------------------------
(* LoadConfig *)

\* Broken variant: what is absolute already is not recognised.
ResolvePathAgain(k) ==
    IF k.from = "~" THEN [from |-> "home", rest |-> k.rest]
    ELSE [from |-> "base", rest |-> IF k.from = "." THEN k.rest ELSE <<k.from>> \o k.rest]

\* resolvePath: relative to the user's directory or to that of the file
ResolvePath(k) ==
    [from |-> IF k.from = "~" THEN "home" ELSE IF k.from = "." THEN "base" ELSE k.from,
     rest |-> k.rest]

Absolute(s) ==
    [s EXCEPT !.keys = [k \in DOMAIN s.keys |-> ResolvePath(s.keys[k])]]

\* The keys of the server of one hop are made absolute, in the order of the
\* chains; a server that many hops share is met again and again.
LoadHop(at) ==
    LET hop == proxies[at.proxy].hops[at.hop]
    IN  /\ state = "parsed"
        /\ \A other \in todo :
              at.proxy < other.proxy \/ (at.proxy = other.proxy /\ at.hop <= other.hop)
        /\ todo' = todo \ {at}
        /\ IF hop.name = Absent
           THEN /\ proxies' = [proxies EXCEPT ![at.proxy].hops[at.hop] =
                                 [name |-> Absent, server |-> Absolute(hop.server)]]
                /\ servers' = servers
           ELSE /\ servers' = [servers EXCEPT ![hop.name] = Absolute(@)]
                /\ proxies' = proxies
        /\ UNCHANGED <<text, section, state>>

Loaded ==
    /\ state = "parsed"
    /\ todo = {}
    /\ state' = "loaded"
    /\ UNCHANGED <<text, section, servers, proxies, todo>>

ConfigNext == ReadLine \/ Link \/ (\E at \in todo : LoadHop(at)) \/ Loaded

ConfigSpec == ConfigInit /\ [][ConfigNext]_configVars

-----------------------------------------------------------------------------
(* Properties *)

ConfigTypeOK ==
    /\ Len(text) <= MaxConfigLines
    /\ section \in {"servers", "proxies", Absent}
    /\ state \in {"reading", "parsed", "loaded", "error"}
    /\ todo \subseteq HopsOf(proxies)
    /\ \A s \in {servers[n] : n \in DOMAIN servers}
            \cup ({h.server : h \in UNION {ToSet(p.hops) : p \in ToSet(proxies)}} \ {Absent}) :
        s.host \in Letters /\ s.port \in 1 .. 65535

\* What the lines say, read as a whole: which section a line is in, and the
\* servers and proxies that there are.
SectionAt(t, k) ==
    LET hs == {j \in 1 .. k - 1 : IsHeader(Content(t[j]))}
    IN  IF hs = {} THEN <<>> ELSE Header(Content(t[Max(hs)]))
EntriesIn(t, sec) ==
    {k \in DOMAIN t : /\ Content(t[k]) # <<>>
                      /\ ~IsHeader(Content(t[k]))
                      /\ SectionAt(t, k) = <<sec>>}
NameAt(t, k) == Entry(Content(t[k])).name
ServerAt(t, k) == ServerOf(Content(t[k]))
ProxyAt(t, k) == ProxyOf(Content(t[k]))

LineIsGood(t, k) ==
    \/ Content(t[k]) = <<>>
    \/ IsHeader(Content(t[k])) /\ Header(Content(t[k])) \in {<<"servers">>, <<"proxies">>}
    \/ k \in EntriesIn(t, "servers") /\ ServerAt(t, k) # Bad
    \/ k \in EntriesIn(t, "proxies") /\ ProxyAt(t, k) # Bad

WellFormed(t) ==
    /\ \A k \in DOMAIN t : LineIsGood(t, k)
    /\ \A k, l \in EntriesIn(t, "servers") : NameAt(t, k) = NameAt(t, l) => k = l
    /\ \A k, l \in EntriesIn(t, "proxies") :
        NormalizeListen(NameAt(t, k)) = NormalizeListen(NameAt(t, l)) => k = l
    /\ \A k \in EntriesIn(t, "proxies") : \A h \in ToSet(ProxyAt(t, k).hops) :
        h.name = Absent \/ \E l \in EntriesIn(t, "servers") : NameAt(t, l) = h.name

\* The server that a hop leads through
Used(hop) == IF hop.name = Absent THEN hop.server ELSE servers[hop.name]

\* The proxy is what its line said: it goes through the servers of those names,
\* wherever they are defined, with absolute keys.
SaysLine(proxy, said) ==
    /\ proxy.listen = said.listen /\ proxy.auth = said.auth
    /\ DOMAIN proxy.hops = DOMAIN said.hops
    /\ \A h \in DOMAIN said.hops :
         IF said.hops[h].name = Absent
         THEN Used(proxy.hops[h]) = Absolute(said.hops[h].server)
         ELSE \E l \in EntriesIn(text, "servers") :
                /\ NameAt(text, l) = said.hops[h].name
                /\ Used(proxy.hops[h]) = Absolute(ServerAt(text, l))

\* The file is accepted if and only if it is well-formed as a whole, in
\* whatever order its sections and lines are (config.go:119).  The proxies are
\* then those of its lines, in their order, and each key has been made absolute
\* once, however many chains share the server (config.go:95).
MeansWhatItSays ==
    /\ state # "reading" => (WellFormed(text) <=> state # "error")
    /\ state = "loaded" =>
        \E line \in [DOMAIN proxies -> EntriesIn(text, "proxies")] :
            /\ \A k, l \in DOMAIN proxies : k < l => line[k] < line[l]
            /\ EntriesIn(text, "proxies") = {line[k] : k \in DOMAIN proxies}
            /\ \A k \in DOMAIN proxies : SaysLine(proxies[k], ProxyAt(text, line[k]))

\* Quotes protect a value whatever is in it, a # or a space too (config.go:422),
\* as long as it has not that quote itself.
QuotingProtects ==
    \A q \in Quotes :
        Len(text) = 1 /\ q \notin ToSet(text[1]) =>
            Entry(Content(<<"A", "=", q>> \o text[1] \o <<q, Space, "#", "u">>)) =
                [name |-> <<"A">>, words |-> <<text[1]>>]

=============================================================================
