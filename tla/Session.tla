------------------------------- MODULE Session -------------------------------
(***************************************************************************)
(* One local connection from its first byte to its end (proxy.go): the      *)
(* SOCKS5 or HTTP handshake through a buffered reader, the dial, the answer *)
(* and relay with its two pipes.  Tunnel sees of this only whether there is *)
(* a target to dial and when the handler is done.                           *)
(*                                                                          *)
(* The stream of each direction is a row of messages with the numbers 1, 2, *)
(* ...; what a message of the handshake says is decided when it is parsed.  *)
(* A message is whatever one parsing step consumes, and it may arrive in    *)
(* any portions: reading takes what is there.                               *)
(***************************************************************************)
EXTENDS Naturals, Sequences

CONSTANTS
    MaxSent,    \* bound: messages of the client and of the remote end
    None

ASSUME SessionAssumption == MaxSent \in [{"up", "down"} -> Nat]

Directions == {"up", "down"}
Ends == {"client", "remote"}
Src == [up |-> "client", down |-> "remote"]
Dst == [up |-> "remote", down |-> "client"]

VARIABLES
    auth,       \* the proxy has a user name and a password
    peer,       \* peer[e]: what the far end does: "none" before the dial,
                \* "open", "eof" when it has sent all, "gone" when it broke
    closed,     \* the connections that this program has closed
    sent,       \* sent[d]: messages sent by the source of d
    taken,      \* taken[d]: messages read from its connection
    got,        \* got[d]: the messages its destination received; 0 stands
                \* for the head that forward has rewritten
    fin,        \* the ends to which the end of the stream was passed on
    pc,         \* where the handler is
    used,       \* messages the handshake has consumed; used+1 .. taken["up"]
                \* are buffered in br
    proved,     \* the client has given the right user name and password
    want,       \* "connect" (SOCKS or CONNECT) or "get" (plain HTTP)
    answers,    \* what the handler itself wrote to the client
    pipe,       \* pipe[d]: where the goroutine of d is
    perr,       \* perr[d]: io.Copy of d has failed
    errc        \* the channel of relay

farVars  == <<peer, sent>>
handVars == <<pc, used, proved, want, answers>>
pipeVars == <<pipe, perr, errc>>
vars == <<auth, closed, farVars, taken, got, fin, handVars, pipeVars>>

Parsing == {"peek", "hello", "cred", "request", "head"}

TypeOK ==
    /\ auth \in BOOLEAN
    /\ peer \in [Ends -> {"none", "open", "eof", "gone"}]
    /\ closed \subseteq Ends
    /\ sent \in [Directions -> Nat]
    /\ taken \in [Directions -> Nat]
    /\ \A d \in Directions : taken[d] <= sent[d] /\ sent[d] <= MaxSent[d]
    /\ got \in [Directions -> Seq(Nat)]
    /\ fin \subseteq Ends
    /\ pc \in Parsing \cup {"dial", "reply", "forward", "early", "relay",
                            "close", "closeClient", "done"}
    /\ used \in 0 .. taken["up"]
    /\ proved \in BOOLEAN
    /\ want \in {"connect", "get", None}
    /\ answers \in Seq({"method", "noMethod", "welcome", "denied", "unsupported",
                        "ok", "failed", "400", "407", "page"})
    /\ pipe \in [Directions -> {"off", "read", "write", "end", "report", "done"}]
    /\ perr \in [Directions -> BOOLEAN]
    /\ errc \in Seq(BOOLEAN) /\ Len(errc) <= 2

Init ==
    /\ auth \in BOOLEAN
    /\ peer = [client |-> "open", remote |-> "none"]
    /\ closed = {}
    /\ sent = [d \in Directions |-> 0]
    /\ taken = [d \in Directions |-> 0]
    /\ got = [d \in Directions |-> <<>>]
    /\ fin = {}
    /\ pc = "peek"
    /\ used = 0
    /\ proved = FALSE
    /\ want = None
    /\ answers = <<>>
    /\ pipe = [d \in Directions |-> "off"]
    /\ perr = [d \in Directions |-> FALSE]
    /\ errc = <<>>

Live(e) == peer[e] \in {"open", "eof"} /\ e \notin closed

-----------------------------------------------------------------------------
(* The far ends, and the end of the tunnel. *)

Sends(d) ==
    /\ peer[Src[d]] = "open"
    /\ sent[d] < MaxSent[d]
    /\ sent' = [sent EXCEPT ![d] = @ + 1]
    /\ UNCHANGED <<auth, peer, closed, taken, got, fin, handVars, pipeVars>>

FarEndEnds(e) ==
    /\ \/ peer[e] = "open" /\ peer' = [peer EXCEPT ![e] = "eof"]
       \/ Live(e) /\ peer' = [peer EXCEPT ![e] = "gone"]
    /\ UNCHANGED <<auth, closed, sent, taken, got, fin, handVars, pipeVars>>

\* Stop closes what is in t.conns.
StopCloses ==
    /\ pc # "done"
    /\ closed' = closed \cup {"client"}
    /\ UNCHANGED <<auth, farVars, taken, got, fin, handVars, pipeVars>>

\* When the tunnel stops, maintain closes the chain, and every connection
\* through it breaks.
ChainCloses ==
    /\ "client" \in closed
    /\ Live("remote")
    /\ peer' = [peer EXCEPT !["remote"] = "gone"]
    /\ UNCHANGED <<auth, closed, sent, taken, got, fin, handVars, pipeVars>>

-----------------------------------------------------------------------------
(* The handshake *)

notParse == <<auth, closed, farVars, taken, got, fin, pipeVars>>

\* A write to the client that is given up is not looked at any more.
Say(a) == answers' = IF Live("client") THEN Append(answers, a) ELSE answers

\* br takes from the connection what has arrived.
Fill ==
    /\ pc \in Parsing
    /\ used = taken["up"]
    /\ Live("client")
    /\ \E n \in taken["up"] + 1 .. sent["up"] :
        taken' = [taken EXCEPT !["up"] = n]
    /\ UNCHANGED <<auth, closed, farVars, got, fin, handVars, pipeVars>>

\* The stream ends, breaks, or the deadline passes.  HTTP says so, except at
\* the end of the stream.
HandshakeFails ==
    /\ pc \in Parsing
    /\ used = taken["up"]
    /\ pc' = "close"
    /\ \/ /\ peer["client"] = "eof" /\ taken["up"] = sent["up"]
          /\ answers' = answers
       \/ IF pc = "head" THEN Say("400") ELSE answers' = answers
    /\ UNCHANGED <<notParse, used, proved, want>>

\* The first byte tells the protocol; it stays in the buffer.
Peek ==
    /\ pc = "peek"
    /\ used < taken["up"]
    /\ pc' \in {"hello", "head", "close"}
    /\ UNCHANGED <<notParse, used, proved, want, answers>>

Parse(from, to) ==
    /\ pc = from
    /\ used < taken["up"]
    /\ pc' = to
    /\ used' = used + 1
    /\ UNCHANGED notParse

\* A message that ends the session, with or without a word about it.
Refused(from, word) ==
    /\ Parse(from, "close")
    /\ Say(word) \/ (from # "head" /\ answers' = answers)
    /\ UNCHANGED <<proved, want>>

\* Broken variant: any method that the client offers is good enough.
HelloAnyMethod ==
    /\ \/ Parse("hello", "request")
       \/ auth /\ Parse("hello", "cred")
    /\ Say("method")
    /\ UNCHANGED <<proved, want>>

\* The negotiation of the method: the client must offer the one there is.
Hello ==
    \/ /\ Parse("hello", IF ~Live("client") THEN "close"
                         ELSE IF auth THEN "cred" ELSE "request")
       /\ Say("method")
       /\ UNCHANGED <<proved, want>>
    \/ Refused("hello", "noMethod")

SocksAuth ==
    \/ /\ Parse("cred", "request")
       /\ Say("welcome")
       /\ proved' = TRUE
       /\ want' = want
    \/ Refused("cred", "denied")

Request ==
    \/ /\ Parse("request", "dial")
       /\ want' = "connect"
       /\ UNCHANGED <<proved, answers>>
    \/ Refused("request", "unsupported")

\* readHTTPHead, the check of Proxy-Authorization, and what is asked for.
HTTPHead ==
    \/ /\ Parse("head", "dial")
       /\ proved' = auth
       /\ want' \in {"connect", "get"}
       /\ answers' = answers
    \/ Refused("head", "400")
    \/ auth /\ Refused("head", "407")
    \/ Refused("head", "page")

Handshake ==
    \/ Fill \/ HandshakeFails \/ Peek \/ Hello \/ SocksAuth \/ Request \/ HTTPHead

-----------------------------------------------------------------------------
(* The dial and the answer *)

Goes(from, to) == pc = from /\ pc' = to

Dial ==
    /\ \/ /\ Goes("dial", IF want = "get" THEN "forward" ELSE "reply")
          /\ peer' = [peer EXCEPT !["remote"] = "open"]
          /\ answers' = answers
       \/ /\ Goes("dial", "close")
          /\ Say("failed")
          /\ peer' = peer
    /\ UNCHANGED <<auth, closed, sent, taken, got, fin, used, proved, want,
                   pipeVars>>

Reply ==
    /\ Goes("reply", IF Live("client") THEN "early" ELSE "close")
    /\ Say("ok")
    /\ UNCHANGED <<notParse, used, proved, want>>

\* A write to the remote end: it fails if that is gone.
WriteRemote(from, messages, to) ==
    /\ Goes(from, IF Live("remote") THEN to ELSE "close")
    /\ got' = IF Live("remote") THEN [got EXCEPT !["up"] = @ \o messages] ELSE got
    /\ UNCHANGED <<auth, closed, farVars, taken, fin, used, proved, want,
                   answers, perr, errc>>

Forward == WriteRemote("forward", <<0>>, "early") /\ pipe' = pipe

\* The messages that br has read beyond the handshake.
Buffered == [i \in 1 .. taken["up"] - used |-> used + i]

StartPipes ==
    pipe' = IF pc' = "relay" THEN [d \in Directions |-> "read"] ELSE pipe

\* Broken variant: what is in the buffer is forgotten.
EarlyForgotten == WriteRemote("early", <<>>, "relay") /\ StartPipes

Early ==
    /\ \/ Buffered # <<>> /\ WriteRemote("early", Buffered, "relay")
       \/ /\ Buffered = <<>>
          /\ Goes("early", "relay")
          /\ UNCHANGED <<auth, closed, farVars, taken, got, fin, used, proved,
                         want, answers, perr, errc>>
    /\ StartPipes

-----------------------------------------------------------------------------
(* The goroutine of direction d: io.Copy, CloseWrite, the result. *)

notPipe == <<auth, closed, farVars, handVars>>

PipeGoes(d, from, to) == pipe[d] = from /\ pipe' = [pipe EXCEPT ![d] = to]

PipeReads(d) ==
    /\ Live(Src[d])
    /\ taken[d] < sent[d]
    /\ PipeGoes(d, "read", "write")
    /\ taken' = [taken EXCEPT ![d] = @ + 1]
    /\ UNCHANGED <<notPipe, got, fin, perr, errc>>

PipeWrites(d) ==
    /\ PipeGoes(d, "write", IF Live(Dst[d]) THEN "read" ELSE "end")
    /\ IF Live(Dst[d])
       THEN got' = [got EXCEPT ![d] = Append(@, taken[d])] /\ perr' = perr
       ELSE got' = got /\ perr' = [perr EXCEPT ![d] = TRUE]
    /\ UNCHANGED <<notPipe, taken, fin, errc>>

\* Broken variant: the end of the stream overtakes what is yet to be read.
PipeEndsEarly(d) ==
    /\ PipeGoes(d, "read", "end")
    /\ ~Live(Src[d]) \/ peer[Src[d]] = "eof"
    /\ perr' = [perr EXCEPT ![d] = ~Live(Src[d])]
    /\ UNCHANGED <<notPipe, taken, got, fin, errc>>

PipeEnds(d) ==
    /\ PipeGoes(d, "read", "end")
    /\ \/ ~Live(Src[d])
       \/ peer[Src[d]] = "eof" /\ taken[d] = sent[d]
    /\ perr' = [perr EXCEPT ![d] = ~Live(Src[d])]
    /\ UNCHANGED <<notPipe, taken, got, fin, errc>>

PipeClosesWrite(d) ==
    /\ PipeGoes(d, "end", "report")
    /\ fin' = IF Live(Dst[d]) THEN fin \cup {Dst[d]} ELSE fin
    /\ UNCHANGED <<notPipe, taken, got, perr, errc>>

PipeReports(d) ==
    /\ PipeGoes(d, "report", "done")
    /\ errc' = Append(errc, perr[d])
    /\ UNCHANGED <<notPipe, taken, got, fin, perr>>

Pipe(d) ==
    \/ PipeReads(d) \/ PipeWrites(d) \/ PipeEnds(d) \/ PipeClosesWrite(d)
    \/ PipeReports(d)

\* Broken variant: an error in one direction does not end the other.
RelayReturnsBoth ==
    /\ Len(errc) = 2
    /\ Goes("relay", "close")
    /\ UNCHANGED <<notParse, used, proved, want, answers>>

\* An error ends it at once, two clean ends otherwise; what was received stays
\* in errc here, where a second result is never overtaken by a third.
RelayReturns ==
    /\ TRUE \in {errc[i] : i \in 1 .. Len(errc)} \/ Len(errc) = 2
    /\ Goes("relay", "close")
    /\ UNCHANGED <<notParse, used, proved, want, answers>>

\* The deferred calls: remote.Close, if there is one, and c.Close.
CloseRemote ==
    /\ Goes("close", "closeClient")
    /\ closed' = IF peer["remote"] = "none" THEN closed
                 ELSE closed \cup {"remote"}
    /\ UNCHANGED <<auth, farVars, taken, got, fin, used, proved, want, answers,
                   pipeVars>>

CloseClient ==
    /\ Goes("closeClient", "done")
    /\ closed' = closed \cup {"client"}
    /\ UNCHANGED <<auth, farVars, taken, got, fin, used, proved, want, answers,
                   pipeVars>>

Serve == Dial \/ Reply \/ Forward \/ Early \/ RelayReturns \/ CloseRemote \/ CloseClient

Next ==
    \/ Handshake \/ Serve \/ StopCloses \/ ChainCloses
    \/ \E d \in Directions : Sends(d) \/ Pipe(d)
    \/ \E e \in Ends : FarEndEnds(e)

Spec == Init /\ [][Next]_vars

\* Fairness: a goroutine that can go on does, a dial ends (requestTimeout),
\* the deadline of the handshake passes, and a far end that is there takes
\* what is written to it.  Nobody has to send anything.
FairSpec ==
    /\ Spec
    /\ WF_vars(Handshake)
    /\ WF_vars(Serve)
    /\ WF_vars(ChainCloses)
    /\ \A d \in Directions : WF_vars(Pipe(d))

-----------------------------------------------------------------------------
(* What it promises: safety *)

\* What d has delivered, without the rewritten head.
Payload(d) ==
    IF got[d] # <<>> /\ Head(got[d]) = 0 THEN Tail(got[d]) ELSE got[d]

Base(d) == IF d = "up" THEN used ELSE 0

\* Each end receives what the other sent after the handshake, in order, once,
\* without a gap where the buffered reader hands over to io.Copy; the target
\* gets the rewritten head first, the client its answer.
InOrder ==
    /\ \A d \in Directions :
        Payload(d) = [i \in 1 .. Len(Payload(d)) |-> Base(d) + i]
    /\ want = "get" /\ got["up"] # <<>> => Head(got["up"]) = 0
    /\ want = "connect" /\ got["down"] # <<>> =>
        \E i \in 1 .. Len(answers) : answers[i] = "ok"

\* An end that is told that the stream is over has received all of it, unless
\* copying it has failed; and half a connection may go on as long as it likes:
\* without a failure, relay is over only when both directions are (proxy.go:407).
EofMeansAll ==
    /\ \A d \in Directions :
        Dst[d] \in fin /\ ~perr[d] => Base(d) + Len(Payload(d)) = sent[d]
    /\ pc \in {"close", "closeClient", "done"} =>
        \/ \A d \in Directions : pipe[d] \in {"off", "done"}
        \/ \E d \in Directions : perr[d]

\* Nothing is dialled for a client that has not said who it is, when it has to.
OnlyKnownUsers ==
    auth /\ pc \notin Parsing /\ (want # None) => proved

-----------------------------------------------------------------------------
(* Liveness *)

\* When both ends have sent all, the one that is being read breaks, or the
\* tunnel stops, the session comes to its end, the goroutines of relay too.
SessionEnds ==
    (\/ \A e \in Ends : peer[e] \in {"eof", "gone"}
     \/ \E d \in Directions : pipe[d] = "read" /\ peer[Src[d]] = "gone"
     \/ "client" \in closed)
        ~> (pc = "done" /\ \A d \in Directions : pipe[d] \in {"off", "done"})

=============================================================================
