----------------------------- MODULE SessionProofs -----------------------------
(***************************************************************************)
(* Proofs about Session, for any number of messages.                        *)
(*                                                                          *)
(* The argument.  Phase says what the handler has done by the time it is at *)
(* a place: whom it has let in, that the pipes start only when the          *)
(* handshake is over, and with which answer.  Row(d) says what the          *)
(* destination of d has received, one by one, and Level(d) that it is what  *)
(* was taken from the source: from there on a pipe takes one message at a   *)
(* time and passes it on before the next.                                   *)
(***************************************************************************)
EXTENDS Session, SequenceTheorems, TLAPS

USE DEF vars, farVars, handVars, pipeVars

BeforeRelay == Parsing \cup {"dial", "reply", "forward", "early"}

Answered == \E i \in 1 .. Len(answers) : answers[i] = "ok"

\* The head that forward writes comes before the messages.
Shift(d) == IF d = "up" /\ want = "get" THEN 1 ELSE 0

\* Where the handler is, and what it has done.
Phase ==
    /\ pc \in Parsing => want = None /\ (auth /\ pc = "request" => proved)
    /\ auth /\ want # None => proved
    /\ pc \in Parsing \cup {"dial", "reply", "forward"} => got["up"] = <<>>
    /\ pc = "reply" => want # "get"
    /\ pc = "forward" => want = "get"
    /\ pc = "early" => Len(got["up"]) = Shift("up")
    /\ pc \in BeforeRelay => pipe["up"] = "off"
    /\ pc = "relay" => pipe["up"] # "off"
    /\ pipe["up"] = "off" <=> pipe["down"] = "off"
    /\ pipe["down"] = "off" => got["down"] = <<>> /\ taken["down"] = 0
    /\ want = "connect" /\ (pc = "early" \/ pipe["down"] # "off") => Answered

\* What the destination of d has received.
Row(d) ==
    \A i \in 1 .. Len(got[d]) :
        got[d][i] = IF i <= Shift(d) THEN 0 ELSE Base(d) + i - Shift(d)

\* How much that is.
Level(d) ==
    /\ pipe[d] # "off" => Len(got[d]) >= Shift(d)
    /\ pipe[d] = "read" => Base(d) + Len(got[d]) - Shift(d) = taken[d]
    /\ pipe[d] = "write" => Base(d) + Len(got[d]) - Shift(d) + 1 = taken[d]
    /\ pipe[d] \in {"end", "report", "done"} /\ ~perr[d] =>
        /\ Base(d) + Len(got[d]) - Shift(d) = sent[d]
        /\ peer[Src[d]] \in {"eof", "gone"}
    /\ pipe[d] \in {"off", "read", "write"} => ~perr[d]
    /\ Dst[d] \in fin => pipe[d] \in {"report", "done"}

\* What relay has been told.
Results ==
    /\ Len(errc) = (IF pipe["up"] = "done" THEN 1 ELSE 0)
                     + (IF pipe["down"] = "done" THEN 1 ELSE 0)
    /\ \A i \in 1 .. Len(errc) : errc[i] => perr["up"] \/ perr["down"]
    /\ pc \in {"close", "closeClient", "done"} =>
        \/ \A d \in Directions : pipe[d] \in {"off", "done"}
        \/ perr["up"] \/ perr["down"]

IInv ==
    /\ TypeOK /\ Phase /\ Results
    /\ \A d \in Directions : Row(d) /\ Level(d)

-----------------------------------------------------------------------------
(* Types. *)

LEMMA Ways ==
  /\ "up" \in Directions /\ "down" \in Directions
  /\ Directions = {"up", "down"} /\ "client" \in Ends /\ "remote" \in Ends
  /\ Src["up"] = "client" /\ Src["down"] = "remote"
  /\ Dst["up"] = "remote" /\ Dst["down"] = "client"
  /\ \A d \in Directions : Src[d] \in Ends /\ Dst[d] \in Ends
  BY DEF Directions, Ends, Src, Dst

LEMMA TypeInit == Init => TypeOK
  <1> SUFFICES ASSUME Init PROVE TypeOK
    OBVIOUS
  <1>1. \A d \in Directions : MaxSent[d] \in Nat
    BY SessionAssumption DEF Directions
  <1>2. /\ sent \in [Directions -> Nat] /\ taken \in [Directions -> Nat]
        /\ \A d \in Directions : taken[d] <= sent[d] /\ sent[d] <= MaxSent[d]
    BY <1>1 DEF Init
  <1>3. /\ peer \in [Ends -> {"none", "open", "eof", "gone"}]
        /\ got \in [Directions -> Seq(Nat)]
        /\ pipe \in [Directions -> {"off", "read", "write", "end", "report", "done"}]
        /\ perr \in [Directions -> BOOLEAN]
    BY DEF Init, Ends
  <1>4. used \in 0 .. taken["up"]
    BY Ways DEF Init
  <1>5. /\ pc \in Parsing /\ closed \subseteq Ends /\ fin \subseteq Ends
        /\ want \in {"connect", "get", None}
        /\ auth \in BOOLEAN /\ proved \in BOOLEAN
    BY DEF Init, Parsing
  <1>6. answers = <<>> /\ errc = <<>>
    BY DEF Init
  <1>7. QED
    BY <1>2, <1>3, <1>4, <1>5, <1>6 DEF TypeOK

LEMMA SayType ==
  ASSUME TypeOK, NEW a \in {"method", "noMethod", "welcome", "denied",
                            "unsupported", "ok", "failed", "400", "407", "page"},
         Say(a)
  PROVE  answers' \in Seq({"method", "noMethod", "welcome", "denied",
                           "unsupported", "ok", "failed", "400", "407", "page"})
  BY DEF Say, TypeOK

LEMMA TypeFar ==
  ASSUME TypeOK,
         \/ \E d \in Directions : Sends(d)
         \/ \E e \in Ends : FarEndEnds(e)
         \/ StopCloses \/ ChainCloses
  PROVE  TypeOK'
  <1>1. CASE \E d \in Directions : Sends(d)
    <2>1. PICK d \in Directions : Sends(d)
      BY <1>1
    <2>2. MaxSent[d] \in Nat
      BY SessionAssumption DEF Directions
    <2>3. /\ sent \in [Directions -> Nat] /\ taken \in [Directions -> Nat]
          /\ sent' = [sent EXCEPT ![d] = @ + 1] /\ sent[d] < MaxSent[d]
          /\ \A e \in Directions : taken[e] <= sent[e] /\ sent[e] <= MaxSent[e]
      BY <2>1 DEF Sends, TypeOK
    <2>4. /\ sent' \in [Directions -> Nat]
          /\ \A e \in Directions :
                taken[e] <= sent'[e] /\ sent'[e] <= MaxSent[e]
      BY <2>2, <2>3
    <2>5. QED
      BY <2>1, <2>4 DEF Sends, TypeOK
  <1>2. CASE \E e \in Ends : FarEndEnds(e)
    BY <1>2 DEF FarEndEnds, TypeOK
  <1>3. CASE StopCloses
    BY <1>3, Ways DEF StopCloses, TypeOK
  <1>4. CASE ChainCloses
    BY <1>4 DEF ChainCloses, TypeOK
  <1>5. QED
    BY <1>1, <1>2, <1>3, <1>4

LEMMA TypeHandshake ==
  ASSUME TypeOK, Handshake
  PROVE  TypeOK'
  <1>1. CASE Fill
    <2>1. PICK n \in taken["up"] + 1 .. sent["up"] :
            taken' = [taken EXCEPT !["up"] = n]
      BY <1>1 DEF Fill
    <2>2. taken["up"] \in Nat /\ sent["up"] \in Nat /\ used \in 0 .. taken["up"]
      BY Ways DEF TypeOK
    <2>3. /\ n \in Nat /\ n <= sent["up"] /\ taken' \in [Directions -> Nat]
          /\ taken'["up"] = n /\ taken'["down"] = taken["down"]
      BY <2>1, <2>2, Ways DEF TypeOK
    <2>4. used \in 0 .. taken'["up"]
      BY <2>1, <2>2, <2>3
    <2>5. \A d \in Directions : taken'[d] <= sent[d]
      BY <2>3, Ways DEF TypeOK
    <2>6. QED
      BY <1>1, <2>3, <2>4, <2>5 DEF Fill, TypeOK
  <1>2. ASSUME UNCHANGED notParse, pc' \in Parsing \cup {"dial", "close"},
               used' \in {used} \/ (used < taken["up"] /\ used' = used + 1),
               proved' \in BOOLEAN, want' \in {"connect", "get", None},
               answers' = answers \/
                 \E a \in {"method", "noMethod", "welcome", "denied",
                           "unsupported", "400", "407", "page"} : Say(a)
        PROVE  TypeOK'
    <2>1. answers' \in Seq({"method", "noMethod", "welcome", "denied",
                            "unsupported", "ok", "failed", "400", "407", "page"})
      BY <1>2, SayType DEF TypeOK
    <2>2. taken["up"] \in Nat /\ used \in 0 .. taken["up"]
      BY Ways DEF TypeOK
    <2>3. used' \in 0 .. taken["up"]
      BY <1>2, <2>2
    <2>4. QED
      BY <1>2, <2>1, <2>3 DEF TypeOK, notParse
  <1>3. proved \in BOOLEAN /\ want \in {"connect", "get", None} /\ auth \in BOOLEAN
    BY DEF TypeOK
  <1>4. CASE HandshakeFails \/ Peek
    BY <1>2, <1>3, <1>4 DEF HandshakeFails, Peek, Parsing
  <1>5. CASE Hello
    BY <1>2, <1>3, <1>5 DEF Hello, Refused, Parse, Parsing
  <1>6. CASE SocksAuth \/ Request
    BY <1>2, <1>3, <1>6 DEF SocksAuth, Request, Refused, Parse, Parsing
  <1>7. CASE HTTPHead
    BY <1>2, <1>3, <1>7 DEF HTTPHead, Refused, Parse, Parsing
  <1>8. QED
    BY <1>1, <1>4, <1>5, <1>6, <1>7 DEF Handshake

\* Early passes on what is left in the buffer.
LEMMA BufferedIs ==
  ASSUME TypeOK
  PROVE  /\ Buffered \in Seq(Nat) /\ Len(Buffered) = taken["up"] - used
         /\ \A i \in 1 .. Len(Buffered) : Buffered[i] = used + i
         /\ Buffered = <<>> => taken["up"] = used
         /\ used \in Nat /\ taken["up"] \in Nat /\ used <= taken["up"]
  <1>1. used \in Nat /\ taken["up"] \in Nat /\ used <= taken["up"]
    BY Ways DEF TypeOK
  <1> DEFINE n == taken["up"] - used
  <1>2. n \in Nat
    BY <1>1
  <1>3. Buffered = [i \in 1 .. n |-> used + i]
    BY DEF Buffered
  <1> HIDE DEF n
  <1>4. Buffered \in Seq(Nat) /\ Len(Buffered) = n
    BY <1>1, <1>2, <1>3
  <1>5. Buffered = <<>> => n = 0
    BY <1>4
  <1>6. QED
    BY <1>1, <1>3, <1>4, <1>5 DEF n

LEMMA TypeServe ==
  ASSUME TypeOK, Serve
  PROVE  TypeOK'
  <1>1. CASE Dial
    <2>1. answers' \in Seq({"method", "noMethod", "welcome", "denied",
                            "unsupported", "ok", "failed", "400", "407", "page"})
      BY <1>1, SayType DEF Dial, TypeOK
    <2>2. QED
      BY <1>1, <2>1, Ways DEF Dial, Goes, TypeOK
  <1>2. CASE Reply
    <2>1. answers' \in Seq({"method", "noMethod", "welcome", "denied",
                            "unsupported", "ok", "failed", "400", "407", "page"})
      BY <1>2, SayType DEF Reply
    <2>2. QED
      BY <1>2, <2>1 DEF Reply, Goes, notParse, TypeOK
  <1>3. CASE Forward
    <2>1. got["up"] \o <<0>> \in Seq(Nat)
      BY Ways DEF TypeOK
    <2>2. got' \in [Directions -> Seq(Nat)]
      BY <1>3, <2>1, Ways DEF Forward, WriteRemote, TypeOK
    <2>3. QED
      BY <1>3, <2>2 DEF Forward, WriteRemote, Goes, TypeOK
  <1>4. CASE Early
    <2>1. got["up"] \o Buffered \in Seq(Nat)
      BY Ways, BufferedIs DEF TypeOK
    <2>2. got' \in [Directions -> Seq(Nat)]
      BY <1>4, <2>1, Ways DEF Early, WriteRemote, TypeOK
    <2>3. pipe' \in [Directions -> {"off", "read", "write", "end", "report", "done"}]
      BY <1>4 DEF Early, StartPipes, TypeOK
    <2>4. QED
      BY <1>4, <2>2, <2>3 DEF Early, WriteRemote, Goes, TypeOK
  <1>5. CASE RelayReturns
    BY <1>5 DEF RelayReturns, Goes, notParse, TypeOK
  <1>6. CASE CloseRemote \/ CloseClient
    BY <1>6, Ways DEF CloseRemote, CloseClient, Goes, TypeOK
  <1>7. QED
    BY <1>1, <1>2, <1>3, <1>4, <1>5, <1>6 DEF Serve

LEMMA TypePipe ==
  ASSUME TypeOK, Results, NEW d \in Directions, Pipe(d)
  PROVE  TypeOK'
  <1> USE DEF PipeGoes, notPipe
  <1>1. CASE PipeReads(d)
    <2>1. /\ taken' \in [Directions -> Nat]
          /\ \A e \in Directions : taken'[e] <= sent[e] /\ taken[e] <= taken'[e]
      BY <1>1 DEF PipeReads, TypeOK
    <2>2. used \in 0 .. taken'["up"]
      BY <2>1, Ways DEF TypeOK
    <2>3. QED
      BY <1>1, <2>1, <2>2 DEF PipeReads, TypeOK
  <1>2. CASE PipeWrites(d)
    <2>1. Append(got[d], taken[d]) \in Seq(Nat)
      BY DEF TypeOK
    <2>2. QED
      BY <1>2, <2>1 DEF PipeWrites, TypeOK
  <1>3. CASE PipeEnds(d)
    BY <1>3 DEF PipeEnds, TypeOK
  <1>4. CASE PipeClosesWrite(d)
    BY <1>4, Ways DEF PipeClosesWrite, TypeOK
  <1>5. CASE PipeReports(d)
    <2>1. pipe[d] = "report" /\ errc' = Append(errc, perr[d])
      BY <1>5 DEF PipeReports
    <2>2. Len(errc) <= 1
      BY <2>1, Ways DEF Results
    <2>3. errc' \in Seq(BOOLEAN) /\ Len(errc') <= 2
      BY <2>1, <2>2 DEF TypeOK
    <2>4. QED
      BY <1>5, <2>3 DEF PipeReports, TypeOK
  <1>6. QED
    BY <1>1, <1>2, <1>3, <1>4, <1>5 DEF Pipe

LEMMA TypeStep == TypeOK /\ Results /\ [Next]_vars => TypeOK'
  <1>1. ASSUME TypeOK, UNCHANGED vars PROVE TypeOK'
    BY <1>1 DEF TypeOK
  <1>2. QED
    BY <1>1, TypeFar, TypeHandshake, TypeServe, TypePipe DEF Next

-----------------------------------------------------------------------------
(* The handshake. *)

LEMMA HandshakeIs ==
  ASSUME TypeOK, Phase, Handshake
  PROVE  /\ pc \in Parsing /\ pc' \in Parsing \cup {"dial", "close"}
         /\ UNCHANGED <<auth, closed, peer, sent, got, fin, pipe, perr, errc>>
         /\ taken'["down"] = taken["down"]
         /\ pc' \in Parsing => want' = None /\ (auth /\ pc' = "request" => proved')
         /\ auth /\ want' # None => proved'
  <1>1. pc \in Parsing => want = None /\ (auth /\ pc = "request" => proved)
    BY DEF Phase
  <1>2. CASE Fill
    BY <1>1, <1>2, Ways DEF Fill, TypeOK, Phase
  <1>3. CASE HandshakeFails
    BY <1>1, <1>3 DEF HandshakeFails, notParse, Parsing, Phase
  <1>4. CASE Peek
    BY <1>1, <1>4 DEF Peek, notParse, Parsing, Phase
  <1>5. ASSUME NEW from \in Parsing, NEW word, Refused(from, word)
        PROVE  /\ pc \in Parsing /\ pc' = "close" /\ UNCHANGED notParse
               /\ UNCHANGED <<proved, want>>
    BY <1>5 DEF Refused, Parse
  <1>6. CASE Hello
    <2>1. CASE Refused("hello", "noMethod")
      BY <1>1, <1>5, <2>1 DEF Parsing, notParse, Phase
    <2>2. CASE ~Refused("hello", "noMethod")
      BY <1>1, <1>6, <2>2 DEF Hello, Parse, Parsing, notParse, Phase
    <2>3. QED
      BY <2>1, <2>2
  <1>7. CASE SocksAuth
    <2>1. CASE Refused("cred", "denied")
      BY <1>1, <1>5, <2>1 DEF Parsing, notParse, Phase
    <2>2. CASE ~Refused("cred", "denied")
      BY <1>1, <1>7, <2>2 DEF SocksAuth, Parse, Parsing, notParse, Phase
    <2>3. QED
      BY <2>1, <2>2
  <1>8. CASE Request
    <2>1. CASE Refused("request", "unsupported")
      BY <1>1, <1>5, <2>1 DEF Parsing, notParse, Phase
    <2>2. CASE ~Refused("request", "unsupported")
      <3>1. /\ pc = "request" /\ pc' = "dial" /\ UNCHANGED notParse
            /\ want' = "connect" /\ proved' = proved
        BY <1>8, <2>2 DEF Request, Parse
      <3>2. QED
        BY <1>1, <3>1 DEF Phase, Parsing, notParse
    <2>3. QED
      BY <2>1, <2>2
  <1>9. CASE HTTPHead
    <2>1. CASE \E word : Refused("head", word)
      BY <1>1, <1>5, <2>1 DEF Parsing, notParse, Phase
    <2>2. CASE ~\E word : Refused("head", word)
      BY <1>1, <1>9, <2>2 DEF HTTPHead, Parse, Parsing, notParse, Phase
    <2>3. QED
      BY <2>1, <2>2
  <1>10. QED
    BY <1>2, <1>3, <1>4, <1>6, <1>7, <1>8, <1>9 DEF Handshake

\* A pipe that is off has delivered nothing, and its messages may be renamed.
LEMMA RowEmpty ==
  ASSUME NEW d \in Directions, got'[d] = <<>>
  PROVE  Row(d)'
  BY DEF Row

LEMMA RowSame ==
  ASSUME NEW d \in Directions, Row(d), got'[d] = got[d],
         UNCHANGED <<used, want>>
  PROVE  Row(d)'
  BY DEF Row, Shift, Base

LEMMA LevelSame ==
  ASSUME NEW d \in Directions, Level(d),
         got'[d] = got[d], pipe'[d] = pipe[d], perr'[d] = perr[d],
         taken'[d] = taken[d], sent'[d] = sent[d], UNCHANGED <<used, want, fin>>,
         peer[Src[d]] \in {"eof", "gone"} => peer'[Src[d]] \in {"eof", "gone"}
  PROVE  Level(d)'
  BY DEF Level, Shift, Base

\* A pipe that has not begun.
LEMMA LevelOff ==
  ASSUME NEW d \in Directions, Level(d), pipe[d] = "off",
         UNCHANGED <<pipe, perr, fin>>
  PROVE  Level(d)'
  BY DEF Level

LEMMA HandshakeKeeps ==
  ASSUME IInv, Handshake
  PROVE  Phase' /\ Results' /\ \A d \in Directions : Row(d)' /\ Level(d)'
  <1>1. TypeOK /\ Phase /\ Results /\ \A d \in Directions : Row(d) /\ Level(d)
    BY DEF IInv
  <1>2. /\ pc \in Parsing /\ pc' \in Parsing \cup {"dial", "close"}
        /\ UNCHANGED <<auth, closed, peer, sent, got, fin, pipe, perr, errc>>
        /\ taken'["down"] = taken["down"]
        /\ pc' \in Parsing => want' = None /\ (auth /\ pc' = "request" => proved')
        /\ auth /\ want' # None => proved'
    BY <1>1, HandshakeIs
  <1>3. /\ pipe["up"] = "off" /\ pipe["down"] = "off"
        /\ got["up"] = <<>> /\ got["down"] = <<>>
    BY <1>1, <1>2 DEF Phase, BeforeRelay
  <1>4. Phase'
    BY <1>1, <1>2, <1>3 DEF Phase, BeforeRelay, Parsing, Answered
  <1>5. Results'
    BY <1>1, <1>2, <1>3, Ways DEF Results
  <1>6. \A d \in Directions : Row(d)'
    BY <1>2, <1>3, Ways, RowEmpty
  <1>7. \A d \in Directions : Level(d)'
    BY <1>1, <1>2, <1>3, Ways, LevelOff
  <1>8. QED
    BY <1>4, <1>5, <1>6, <1>7

-----------------------------------------------------------------------------
(* The far ends, and the end of the tunnel. *)

LEMMA FarKeeps ==
  ASSUME IInv,
         \/ \E d \in Directions : Sends(d)
         \/ \E e \in Ends : FarEndEnds(e)
         \/ StopCloses \/ ChainCloses \/ UNCHANGED vars
  PROVE  Phase' /\ Results' /\ \A d \in Directions : Row(d)' /\ Level(d)'
  <1>1. TypeOK /\ Phase /\ Results /\ \A d \in Directions : Row(d) /\ Level(d)
    BY DEF IInv
  <1>2. UNCHANGED <<auth, taken, got, fin, handVars, pipeVars>>
    BY DEF Sends, FarEndEnds, StopCloses, ChainCloses
  <1>3. Phase' /\ Results' /\ \A d \in Directions : Row(d)'
    BY <1>1, <1>2, RowSame DEF Phase, Results, Answered, Shift
  <1>4. ASSUME NEW d \in Directions PROVE Level(d)'
    <2>1. peer[Src[d]] \in {"eof", "gone"} => peer'[Src[d]] \in {"eof", "gone"}
      BY <1>1, Ways DEF Sends, FarEndEnds, StopCloses, ChainCloses, TypeOK
    <2>2. CASE sent'[d] = sent[d]
      BY <1>1, <1>2, <2>1, <2>2, LevelSame
    <2>3. CASE sent'[d] # sent[d]
      <3>1. Sends(d)
        BY <1>1, <2>3 DEF Sends, FarEndEnds, StopCloses, ChainCloses, TypeOK
      <3>2. peer[Src[d]] = "open"
        BY <3>1 DEF Sends
      <3>3. QED
        BY <1>1, <1>2, <3>2 DEF Level, Shift, Base
    <2>4. QED
      BY <2>2, <2>3
  <1>5. QED
    BY <1>3, <1>4

-----------------------------------------------------------------------------
(* The dial, the answer, and the end. *)

LEMMA AnsweredStays ==
  ASSUME TypeOK, answers' = answers \/ \E a : Say(a), Answered
  PROVE  Answered'
  <1>1. CASE answers' = answers
    BY <1>1 DEF Answered
  <1>2. CASE \E a : answers' = Append(answers, a)
    <2>1. PICK a : answers' = Append(answers, a)
      BY <1>2
    <2>2. PICK i \in 1 .. Len(answers) : answers[i] = "ok"
      BY DEF Answered
    <2>3. i \in 1 .. Len(answers') /\ answers'[i] = "ok"
      BY <2>1, <2>2 DEF TypeOK
    <2>4. QED
      BY <2>3 DEF Answered
  <1>3. QED
    BY <1>1, <1>2 DEF Say

LEMMA ServeIs ==
  ASSUME TypeOK, Serve
  PROVE  /\ UNCHANGED <<auth, taken, sent, fin, used, proved, want, perr, errc>>
         /\ answers' = answers \/ \E a : Say(a)
         /\ got'["down"] = got["down"]
         /\ pc' \notin Parsing
         /\ ~Early => pipe' = pipe
         /\ ~Dial => peer' = peer
         /\ pc \in {"dial", "reply", "forward", "early"} \/ (pipe' = pipe /\ got' = got)
  BY Ways DEF Serve, Dial, Reply, Forward, Early, WriteRemote, RelayReturns,
              CloseRemote, CloseClient, Goes, notParse, TypeOK, Parsing

LEMMA ServePhase ==
  ASSUME IInv, Serve
  PROVE  Phase' /\ Row("up")' /\ (pipe' # pipe => Level("up")' /\ Level("down")')
  <1>1. /\ TypeOK /\ Phase /\ Row("up") /\ Row("down")
        /\ Level("up") /\ Level("down")
    BY Ways DEF IInv
  <1>2. /\ UNCHANGED <<auth, taken, sent, fin, used, proved, want, perr, errc>>
        /\ answers' = answers \/ \E a : Say(a)
        /\ got'["down"] = got["down"]
        /\ pc' \notin Parsing
    BY <1>1, ServeIs
  <1>3. Answered => Answered'
    BY <1>1, <1>2, AnsweredStays
  <1>4. /\ auth' /\ want' # None => proved'
        /\ pipe["up"] = "off" <=> pipe["down"] = "off"
        /\ pipe["down"] = "off" => got'["down"] = <<>> /\ taken'["down"] = 0
        /\ want = "connect" /\ pipe["down"] # "off" => Answered'
    BY <1>1, <1>2, <1>3 DEF Phase
  <1>5. CASE Dial
    <2>1. /\ UNCHANGED <<got, pipe>> /\ pc = "dial"
          /\ pc' = "close" \/ pc' = IF want = "get" THEN "forward" ELSE "reply"
      BY <1>5 DEF Dial, Goes
    <2>2. Phase'
      BY <1>1, <1>2, <1>4, <2>1 DEF Phase, BeforeRelay
    <2>3. QED
      BY <1>1, <1>2, <2>1, <2>2, Ways, RowSame
  <1>6. CASE Reply
    <2>1. /\ UNCHANGED <<got, pipe>> /\ pc = "reply"
          /\ pc' = IF Live("client") THEN "early" ELSE "close"
      BY <1>6 DEF Reply, Goes, notParse
    <2>2. Live("client") => Answered'
      <3>1. Live("client") => answers' = Append(answers, "ok")
        BY <1>6 DEF Reply, Say
      <3>2. answers' = Append(answers, "ok") =>
              /\ Len(answers') \in 1 .. Len(answers')
              /\ answers'[Len(answers')] = "ok"
        BY <1>1 DEF TypeOK
      <3>3. QED
        BY <3>1, <3>2 DEF Answered
    <2>3. Phase'
      BY <1>1, <1>2, <1>4, <2>1, <2>2 DEF Phase, BeforeRelay, Shift
    <2>4. QED
      BY <1>1, <1>2, <2>1, <2>3, Ways, RowSame
  <1>7. CASE Forward
    <2>1. /\ pipe' = pipe /\ pc = "forward" /\ got["up"] = <<>> /\ want = "get"
          /\ pc' = IF Live("remote") THEN "early" ELSE "close"
          /\ got'["up"] = IF Live("remote") THEN <<0>> ELSE <<>>
      <3>1. /\ pipe' = pipe /\ pc = "forward"
            /\ pc' = IF Live("remote") THEN "early" ELSE "close"
            /\ got' = IF Live("remote")
                      THEN [got EXCEPT !["up"] = @ \o <<0>>] ELSE got
        BY <1>7 DEF Forward, WriteRemote, Goes
      <3>2. got["up"] = <<>> /\ want = "get"
        BY <1>1, <3>1 DEF Phase
      <3>3. <<>> \o <<0>> = <<0>>
        OBVIOUS
      <3>4. got'["up"] = IF Live("remote") THEN got["up"] \o <<0>> ELSE got["up"]
        BY <1>1, <3>1, Ways DEF TypeOK
      <3>5. QED
        BY <3>1, <3>2, <3>3, <3>4
    <2>2. Phase'
      BY <1>1, <1>2, <1>4, <2>1 DEF Phase, BeforeRelay, Shift
    <2>3. Row("up")'
      BY <1>2, <2>1 DEF Row, Shift
    <2>4. QED
      BY <2>1, <2>2, <2>3
  <1>8. CASE Early
    <2>1. /\ pc = "early" /\ pc' \in {"relay", "close"}
          /\ Len(got["up"]) = Shift("up") /\ pipe["up"] = "off"
          /\ want = "connect" => Answered'
      BY <1>1, <1>3, <1>8 DEF Early, WriteRemote, Goes, Phase, BeforeRelay
    <2>2. CASE pc' = "close"
      <3>1. got'["up"] = got["up"] /\ pipe' = pipe
        BY <1>8, <2>2 DEF Early, WriteRemote, Goes, StartPipes
      <3>2. Phase'
        BY <1>1, <1>2, <1>4, <2>2, <3>1 DEF Phase, BeforeRelay, Parsing
      <3>3. QED
        BY <1>1, <1>2, <3>1, <3>2, Ways, RowSame
    <2>3. CASE pc' = "relay"
      <3>1. pipe' = [d \in Directions |-> "read"]
        BY <1>8, <2>3 DEF Early, StartPipes
      <3>2. pipe'["up"] = "read" /\ pipe'["down"] = "read"
        BY <3>1, Ways
      <3>3. Phase'
        BY <1>1, <1>2, <1>4, <2>1, <2>3, <3>2 DEF Phase, BeforeRelay, Parsing
      <3>4. /\ Buffered \in Seq(Nat) /\ Len(Buffered) = taken["up"] - used
            /\ \A i \in 1 .. Len(Buffered) : Buffered[i] = used + i
            /\ Buffered = <<>> => taken["up"] = used
            /\ used \in Nat /\ taken["up"] \in Nat /\ used <= taken["up"]
        BY <1>1, BufferedIs
      <3>5. got["up"] \in Seq(Nat) /\ Shift("up") \in Nat
        BY <1>1, Ways DEF TypeOK, Shift
      <3>6. got'["up"] = got["up"] \o Buffered
        <4>1. CASE Buffered = <<>>
          BY <1>8, <3>5, <4>1 DEF Early
        <4>2. CASE Buffered # <<>>
          BY <1>1, <1>8, <2>3, <4>2, Ways DEF Early, WriteRemote, Goes, TypeOK
        <4>3. QED
          BY <4>1, <4>2
      <3>7. Len(got'["up"]) = Shift("up") + Len(Buffered)
        <4>1. Len(got["up"] \o Buffered) = Len(got["up"]) + Len(Buffered)
          BY <3>4, <3>5, ConcatProperties
        <4>2. QED
          BY <2>1, <3>6, <4>1
      <3>8. \A i \in 1 .. Len(got'["up"]) :
              got'["up"][i] = IF i <= Shift("up") THEN got["up"][i]
                              ELSE Buffered[i - Shift("up")]
        <4>1. \A i \in 1 .. Len(got["up"]) + Len(Buffered) :
                (got["up"] \o Buffered)[i] =
                  IF i <= Len(got["up"]) THEN got["up"][i]
                  ELSE Buffered[i - Len(got["up"])]
          BY <3>4, <3>5, ConcatProperties
        <4>2. QED
          BY <2>1, <3>6, <3>7, <4>1
      <3>9. Shift("up")' = Shift("up") /\ Base("up")' = used /\ Base("up") = used
        BY <1>2 DEF Shift, Base
      <3>10. Row("up")'
        <4>1. \A i \in 1 .. Len(got["up"]) : i <= Shift("up") => got["up"][i] = 0
          BY <1>1 DEF Row
        <4>2. SUFFICES ASSUME NEW i \in 1 .. Len(got'["up"])
                       PROVE  got'["up"][i] = IF i <= Shift("up") THEN 0
                                              ELSE used + i - Shift("up")
          BY <3>9 DEF Row
        <4>3. CASE i <= Shift("up")
          BY <2>1, <3>5, <3>8, <4>1, <4>3
        <4>4. CASE ~(i <= Shift("up"))
          <5>1. i - Shift("up") \in 1 .. Len(Buffered)
            BY <3>4, <3>5, <3>7, <4>4
          <5>2. Buffered[i - Shift("up")] = used + (i - Shift("up"))
            BY <3>4, <5>1
          <5>3. QED
            BY <3>4, <3>5, <3>8, <4>4, <5>2
        <4>5. QED
          BY <4>3, <4>4
      <3>11. Level("up")'
        <4>1. used + Len(got'["up"]) - Shift("up") = taken["up"]
          BY <3>4, <3>5, <3>7
        <4>2. ~perr["up"] /\ Dst["up"] \notin fin
          BY <1>1, <2>1 DEF Level
        <4>3. Len(got'["up"]) >= Shift("up")
          BY <3>4, <3>5, <3>7
        <4>4. QED
          BY <1>2, <3>2, <3>9, <4>1, <4>2, <4>3 DEF Level
      <3>12. Level("down")'
        <4>1. /\ pipe["down"] = "off" /\ got'["down"] = <<>> /\ taken'["down"] = 0
          BY <1>4, <2>1
        <4>2. Len(got'["down"]) = 0 /\ Shift("down")' = 0 /\ Base("down")' = 0
          BY <4>1 DEF Shift, Base
        <4>3. ~perr["down"] /\ Dst["down"] \notin fin
          BY <1>1, <4>1 DEF Level
        <4>4. QED
          BY <1>2, <3>2, <4>1, <4>2, <4>3 DEF Level
      <3>13. QED
        BY <3>3, <3>10, <3>11, <3>12
    <2>4. QED
      BY <2>1, <2>2, <2>3
  <1>9. CASE RelayReturns \/ CloseRemote \/ CloseClient
    <2>1. /\ UNCHANGED <<got, pipe>>
          /\ pc \in {"relay", "close", "closeClient"}
          /\ pc' \in {"close", "closeClient", "done"}
      BY <1>9 DEF RelayReturns, CloseRemote, CloseClient, Goes, notParse
    <2>2. Phase'
      BY <1>1, <1>2, <1>4, <2>1 DEF Phase, BeforeRelay, Parsing
    <2>3. QED
      BY <1>1, <1>2, <2>1, <2>2, Ways, RowSame
  <1>10. QED
    BY <1>5, <1>6, <1>7, <1>8, <1>9 DEF Serve

LEMMA ServeResults ==
  ASSUME IInv, Serve
  PROVE  Results'
  <1>1. TypeOK /\ Phase /\ Results /\ \A d \in Directions : Level(d)
    BY DEF IInv
  <1>2. UNCHANGED <<perr, errc>>
    BY <1>1, ServeIs
  <1>3. CASE pipe' # pipe
    <2>1. /\ Early /\ pc' = "relay" /\ pipe' = [d \in Directions |-> "read"]
          /\ pc = "early"
      BY <1>1, <1>3, ServeIs DEF Early, StartPipes, WriteRemote, Goes
    <2>2. pipe["up"] = "off" /\ pipe["down"] = "off"
      BY <1>1, <2>1 DEF Phase, BeforeRelay
    <2>3. pipe'["up"] = "read" /\ pipe'["down"] = "read"
      BY <2>1, Ways
    <2>4. QED
      BY <1>1, <1>2, <2>1, <2>2, <2>3 DEF Results
  <1>4. CASE RelayReturns /\ pipe' = pipe
    <2>1. TRUE \in {errc[i] : i \in 1 .. Len(errc)} \/ Len(errc) = 2
      BY <1>4 DEF RelayReturns
    <2>2. \/ perr["up"] \/ perr["down"]
          \/ pipe["up"] = "done" /\ pipe["down"] = "done"
      <3>1. CASE TRUE \in {errc[i] : i \in 1 .. Len(errc)}
        BY <1>1, <3>1 DEF Results
      <3>2. CASE Len(errc) = 2
        BY <1>1, <3>2 DEF Results
      <3>3. QED
        BY <2>1, <3>1, <3>2
    <2>3. QED
      BY <1>1, <1>2, <1>4, <2>2, Ways DEF Results
  <1>5. CASE pipe' = pipe /\ ~RelayReturns
    <2>1. \/ pc \in {"close", "closeClient"}
          \/ pc \in BeforeRelay
      BY <1>5 DEF Serve, Dial, Reply, Forward, Early, WriteRemote, CloseRemote,
                  CloseClient, Goes, BeforeRelay
    <2>2. \/ pc \in {"close", "closeClient", "done"}
          \/ pipe["up"] = "off" /\ pipe["down"] = "off"
      BY <1>1, <2>1 DEF Phase
    <2>3. QED
      BY <1>1, <1>2, <1>5, <2>2, Ways DEF Results
  <1>6. QED
    BY <1>3, <1>4, <1>5

LEMMA ServeKeeps ==
  ASSUME IInv, Serve
  PROVE  Phase' /\ Results' /\ \A d \in Directions : Row(d)' /\ Level(d)'
  <1>1. TypeOK /\ Phase /\ Results /\ \A d \in Directions : Row(d) /\ Level(d)
    BY DEF IInv
  <1>2. /\ UNCHANGED <<auth, taken, sent, fin, used, proved, want, perr, errc>>
        /\ got'["down"] = got["down"]
        /\ ~Dial => peer' = peer
        /\ pc \in {"dial", "reply", "forward", "early"} \/ (pipe' = pipe /\ got' = got)
    BY <1>1, ServeIs
  <1>3. Row("down")'
    BY <1>1, <1>2, Ways, RowSame
  <1>4. CASE pipe' = pipe
    <2>1. CASE pc \in {"dial", "reply", "forward", "early"}
      <3>1. pipe["up"] = "off" /\ pipe["down"] = "off"
        BY <1>1, <2>1 DEF Phase, BeforeRelay
      <3>2. \A d \in Directions : Level(d)'
        BY <1>1, <1>2, <1>4, <3>1, Ways, LevelOff
      <3>3. QED
        BY <1>3, <3>2, Ways, ServePhase, ServeResults
    <2>2. CASE pc \notin {"dial", "reply", "forward", "early"}
      <3>1. ~Dial /\ got' = got
        BY <1>2, <2>2 DEF Dial, Goes
      <3>2. \A d \in Directions : Level(d)'
        BY <1>1, <1>2, <1>4, <3>1, LevelSame
      <3>3. QED
        BY <1>3, <3>2, Ways, ServePhase, ServeResults
    <2>3. QED
      BY <2>1, <2>2
  <1>5. CASE pipe' # pipe
    BY <1>3, <1>5, Ways, ServePhase, ServeResults
  <1>6. QED
    BY <1>4, <1>5

-----------------------------------------------------------------------------
(* The pipes. *)

LEMMA PipeIs ==
  ASSUME TypeOK, NEW d \in Directions, Pipe(d)
  PROVE  /\ UNCHANGED <<auth, closed, peer, sent, pc, used, proved, want, answers>>
         /\ \A e \in Directions \ {d} :
               /\ got'[e] = got[e] /\ pipe'[e] = pipe[e] /\ perr'[e] = perr[e]
               /\ taken'[e] = taken[e]
               /\ Dst[e] \in fin' => Dst[e] \in fin
         /\ pipe[d] \in {"read", "write", "end", "report"} /\ pipe'[d] # "off"
         /\ pipe'[d] = "done" => PipeReports(d)
         /\ ~PipeReports(d) => errc' = errc
  <1> USE DEF PipeGoes, notPipe
  <1>1. CASE PipeReads(d)
    BY <1>1 DEF PipeReads, TypeOK
  <1>2. CASE PipeWrites(d)
    BY <1>2 DEF PipeWrites, TypeOK
  <1>3. CASE PipeEnds(d)
    BY <1>3 DEF PipeEnds, TypeOK
  <1>4. CASE PipeClosesWrite(d)
    <2>1. \A e \in Directions \ {d} : Dst[e] # Dst[d]
      BY DEF Directions, Dst
    <2>2. QED
      BY <1>4, <2>1 DEF PipeClosesWrite, TypeOK
  <1>5. CASE PipeReports(d)
    BY <1>5 DEF PipeReports, TypeOK
  <1>6. QED
    BY <1>1, <1>2, <1>3, <1>4, <1>5 DEF Pipe

LEMMA OneMore ==
  \A b, n, s, t \in Nat :
    n >= s /\ b + n - s + 1 = t =>
      n + 1 >= s /\ b + (n + 1) - s = t /\ ~(n + 1 <= s)
  OBVIOUS

LEMMA PipeRow ==
  ASSUME IInv, NEW d \in Directions, Pipe(d)
  PROVE  Row(d)'
  <1>1. TypeOK /\ Row(d) /\ Level(d)
    BY DEF IInv
  <1>2. UNCHANGED <<used, want>>
    BY <1>1, PipeIs
  <1>3. CASE got'[d] = got[d]
    BY <1>1, <1>2, <1>3, RowSame
  <1>4. CASE got'[d] # got[d]
    <2>1. PipeWrites(d) /\ Live(Dst[d])
      BY <1>4 DEF Pipe, PipeReads, PipeWrites, PipeEnds, PipeClosesWrite,
                  PipeReports, notPipe
    <2>2. got'[d] = Append(got[d], taken[d]) /\ pipe[d] = "write"
      BY <1>1, <2>1 DEF PipeWrites, PipeGoes, TypeOK
    <2>3. /\ got[d] \in Seq(Nat) /\ Shift(d) \in Nat /\ Base(d) \in Nat
          /\ taken[d] \in Nat
      BY <1>1, BufferedIs DEF TypeOK, Shift, Base
    <2>4. /\ Len(got[d]) >= Shift(d)
          /\ taken[d] = Base(d) + Len(got[d]) - Shift(d) + 1
      BY <1>1, <2>2, <2>3 DEF Level
    <2> DEFINE n == Len(got[d])
    <2>5. /\ Len(got'[d]) = n + 1 /\ got'[d][n + 1] = taken[d] /\ n \in Nat
          /\ \A i \in 1 .. n : got'[d][i] = got[d][i]
      BY <2>2, <2>3
    <2>6. Shift(d)' = Shift(d) /\ Base(d)' = Base(d)
      BY <1>2 DEF Shift, Base
    <2>7. SUFFICES ASSUME NEW i \in 1 .. Len(got'[d])
                   PROVE  got'[d][i] = IF i <= Shift(d) THEN 0
                                       ELSE Base(d) + i - Shift(d)
      BY <2>6 DEF Row
    <2>8. CASE i = n + 1
      <3>1. taken[d] = Base(d) + (n + 1) - Shift(d) /\ ~(n + 1 <= Shift(d))
        <4>1. n \in Nat
          BY <2>5
        <4>2. QED
          BY <2>3, <2>4, <4>1, OneMore
      <3>2. QED
        BY <2>5, <2>8, <3>1
    <2>9. CASE i # n + 1
      <3>1. i \in 1 .. n
        BY <2>5, <2>9
      <3>2. QED
        BY <1>1, <2>5, <3>1 DEF Row
    <2>10. QED
      BY <2>8, <2>9
  <1>5. QED
    BY <1>3, <1>4

LEMMA PipeLevel ==
  ASSUME IInv, NEW d \in Directions, Pipe(d)
  PROVE  Level(d)'
  <1>1. TypeOK /\ Level(d)
    BY DEF IInv
  <1>2. UNCHANGED <<peer, sent, used, want>>
    BY <1>1, PipeIs
  <1>3. Shift(d)' = Shift(d) /\ Base(d)' = Base(d)
    BY <1>2 DEF Shift, Base
  <1>4. /\ got[d] \in Seq(Nat) /\ Shift(d) \in Nat /\ Base(d) \in Nat
        /\ taken[d] \in Nat /\ Len(got[d]) \in Nat
    BY <1>1, BufferedIs DEF TypeOK, Shift, Base
  <1> USE DEF PipeGoes
  <1>5. CASE PipeReads(d)
    <2>1. /\ pipe[d] = "read" /\ pipe'[d] = "write" /\ taken'[d] = taken[d] + 1
          /\ UNCHANGED <<got, fin, perr>>
      BY <1>1, <1>5 DEF PipeReads, TypeOK
    <2>2. QED
      BY <1>1, <1>3, <1>4, <2>1 DEF Level
  <1>6. CASE PipeWrites(d) /\ Live(Dst[d])
    <2>1. /\ pipe[d] = "write" /\ pipe'[d] = "read"
          /\ got'[d] = Append(got[d], taken[d])
          /\ UNCHANGED <<taken, fin, perr>>
      BY <1>1, <1>6 DEF PipeWrites, TypeOK
    <2>2. Len(got'[d]) = Len(got[d]) + 1
      BY <1>4, <2>1
    <2>3. /\ Len(got[d]) >= Shift(d) /\ ~perr[d] /\ Dst[d] \notin fin
          /\ Base(d) + Len(got[d]) - Shift(d) + 1 = taken[d]
      BY <1>1, <2>1 DEF Level
    <2>4. Len(got'[d]) >= Shift(d) /\ Base(d) + Len(got'[d]) - Shift(d) = taken[d]
      <3>1. taken[d] = Base(d) + (Len(got[d]) + 1) - Shift(d)
        BY <1>4, <2>3, OneMore
      <3>2. Len(got[d]) + 1 >= Shift(d)
        BY <1>4, <2>3, OneMore
      <3>3. QED
        BY <2>2, <3>1, <3>2
    <2>5. QED
      BY <1>3, <2>1, <2>3, <2>4 DEF Level
  <1>7. CASE PipeWrites(d) /\ ~Live(Dst[d])
    <2>1. /\ pipe[d] = "write" /\ pipe'[d] = "end" /\ perr'[d] = TRUE
          /\ UNCHANGED <<got, taken, fin>>
      BY <1>1, <1>7 DEF PipeWrites, TypeOK
    <2>2. QED
      BY <1>1, <1>3, <2>1 DEF Level
  <1>8. CASE PipeEnds(d)
    <2>1. /\ pipe[d] = "read" /\ pipe'[d] = "end" /\ UNCHANGED <<got, taken, fin>>
          /\ perr'[d] = ~Live(Src[d])
          /\ \/ ~Live(Src[d])
             \/ peer[Src[d]] = "eof" /\ taken[d] = sent[d]
      BY <1>1, <1>8 DEF PipeEnds, TypeOK
    <2>2. ~perr'[d] => peer[Src[d]] = "eof" /\ taken[d] = sent[d]
      BY <2>1
    <2>3. QED
      BY <1>1, <1>2, <1>3, <2>1, <2>2 DEF Level
  <1>9. CASE PipeClosesWrite(d)
    <2>1. /\ pipe[d] = "end" /\ pipe'[d] = "report"
          /\ UNCHANGED <<got, taken, perr>>
      BY <1>1, <1>9 DEF PipeClosesWrite, TypeOK
    <2>2. QED
      BY <1>1, <1>2, <1>3, <2>1 DEF Level
  <1>10. CASE PipeReports(d)
    <2>1. /\ pipe[d] = "report" /\ pipe'[d] = "done"
          /\ UNCHANGED <<got, taken, perr, fin>>
      BY <1>1, <1>10 DEF PipeReports, TypeOK
    <2>2. QED
      BY <1>1, <1>2, <1>3, <2>1 DEF Level
  <1>11. QED
    BY <1>5, <1>6, <1>7, <1>8, <1>9, <1>10 DEF Pipe

LEMMA PipeResults ==
  ASSUME IInv, NEW d \in Directions, Pipe(d)
  PROVE  Results'
  <1>1. TypeOK /\ Results /\ Phase /\ \A e \in Directions : Level(e)
    BY DEF IInv
  <1>2. /\ pc' = pc
        /\ \A e \in Directions \ {d} : pipe'[e] = pipe[e] /\ perr'[e] = perr[e]
        /\ pipe[d] \in {"read", "write", "end", "report"} /\ pipe'[d] # "off"
        /\ pipe'[d] = "done" => PipeReports(d)
        /\ ~PipeReports(d) => errc' = errc
    BY <1>1, PipeIs
  <1>3. perr[d] => perr'[d]
    BY <1>1 DEF Level, Pipe, PipeReads, PipeWrites, PipeEnds, PipeClosesWrite,
                PipeReports, PipeGoes, TypeOK
  <1>4. perr["up"] \/ perr["down"] => perr'["up"] \/ perr'["down"]
    BY <1>2, <1>3, Ways
  <1>5. pc' \in {"close", "closeClient", "done"} => perr'["up"] \/ perr'["down"]
    BY <1>1, <1>2, <1>4 DEF Results
  <1>6. CASE PipeReports(d)
    <2>1. /\ pipe[d] = "report" /\ pipe'[d] = "done"
          /\ errc' = Append(errc, perr[d]) /\ perr' = perr
      BY <1>1, <1>6 DEF PipeReports, PipeGoes, TypeOK
    <2>2. /\ Len(errc') = Len(errc) + 1 /\ Len(errc) \in Nat
          /\ errc'[Len(errc) + 1] = perr[d]
          /\ \A i \in 1 .. Len(errc) : errc'[i] = errc[i]
      BY <1>1, <2>1 DEF TypeOK
    <2>3. Len(errc') = (IF pipe'["up"] = "done" THEN 1 ELSE 0)
                         + (IF pipe'["down"] = "done" THEN 1 ELSE 0)
      BY <1>1, <1>2, <2>1, <2>2, Ways DEF Results
    <2>4. \A i \in 1 .. Len(errc') : errc'[i] => perr'["up"] \/ perr'["down"]
      <3>1. SUFFICES ASSUME NEW i \in 1 .. Len(errc'), errc'[i]
                     PROVE  perr'["up"] \/ perr'["down"]
        OBVIOUS
      <3>2. CASE i = Len(errc) + 1
        BY <2>1, <2>2, <3>1, <3>2, Ways
      <3>3. CASE i # Len(errc) + 1
        <4>1. i \in 1 .. Len(errc) /\ errc[i]
          BY <2>2, <3>1, <3>3
        <4>2. QED
          BY <1>1, <1>4, <4>1 DEF Results
      <3>4. QED
        BY <3>2, <3>3
    <2>5. QED
      BY <1>5, <2>3, <2>4 DEF Results
  <1>7. CASE ~PipeReports(d)
    <2>1. errc' = errc /\ pipe'[d] # "done" /\ pipe[d] # "done"
      BY <1>2, <1>7
    <2>2. pipe'["up"] = "done" <=> pipe["up"] = "done"
      BY <1>2, <2>1, Ways
    <2>3. pipe'["down"] = "done" <=> pipe["down"] = "done"
      BY <1>2, <2>1, Ways
    <2>4. QED
      BY <1>1, <1>4, <1>5, <2>1, <2>2, <2>3 DEF Results
  <1>8. QED
    BY <1>6, <1>7

LEMMA PipeKeeps ==
  ASSUME IInv, NEW d \in Directions, Pipe(d)
  PROVE  Phase' /\ Results' /\ \A e \in Directions : Row(e)' /\ Level(e)'
  <1>1. TypeOK /\ Phase /\ Results /\ \A e \in Directions : Row(e) /\ Level(e)
    BY DEF IInv
  <1>2. /\ UNCHANGED <<auth, closed, peer, sent, pc, used, proved, want, answers>>
        /\ \A e \in Directions \ {d} :
              /\ got'[e] = got[e] /\ pipe'[e] = pipe[e] /\ perr'[e] = perr[e]
              /\ taken'[e] = taken[e]
              /\ Dst[e] \in fin' => Dst[e] \in fin
        /\ pipe[d] \in {"read", "write", "end", "report"} /\ pipe'[d] # "off"
    BY <1>1, PipeIs
  <1>3. pipe["up"] # "off" /\ pipe["down"] # "off"
    BY <1>1, <1>2, Ways DEF Phase
  <1>4. pipe'["up"] # "off" /\ pipe'["down"] # "off"
    BY <1>2, <1>3, Ways
  <1>5. pc \notin BeforeRelay /\ (want = "connect" => Answered)
    BY <1>1, <1>3 DEF Phase
  <1>6. Phase'
    BY <1>1, <1>2, <1>3, <1>4, <1>5 DEF Phase, Answered, BeforeRelay
  <1>7. \A e \in Directions \ {d} : Row(e)'
    BY <1>1, <1>2, RowSame
  <1>8. ASSUME NEW e \in Directions \ {d} PROVE Level(e)'
    <2>1. Shift(e)' = Shift(e) /\ Base(e)' = Base(e)
      BY <1>2 DEF Shift, Base
    <2>2. QED
      BY <1>1, <1>2, <2>1 DEF Level
  <1>9. QED
    BY <1>6, <1>7, <1>8, PipeRow, PipeLevel, PipeResults

-----------------------------------------------------------------------------
(* The inductive invariant. *)

LEMMA IInvInit == Init => IInv
  <1> SUFFICES ASSUME Init PROVE IInv
    OBVIOUS
  <1>1. TypeOK
    BY TypeInit
  <1>2. Phase
    BY Ways DEF Init, Phase, BeforeRelay, Parsing
  <1>3. Results
    BY Ways DEF Init, Results
  <1>4. \A d \in Directions : Row(d) /\ Level(d)
    BY DEF Init, Row, Level
  <1>5. QED
    BY <1>1, <1>2, <1>3, <1>4 DEF IInv

LEMMA IInvStep == IInv /\ [Next]_vars => IInv'
  <1> SUFFICES ASSUME IInv, [Next]_vars PROVE IInv'
    OBVIOUS
  <1>1. TypeOK'
    BY TypeStep DEF IInv
  <1>2. Phase' /\ Results' /\ \A d \in Directions : Row(d)' /\ Level(d)'
    BY HandshakeKeeps, FarKeeps, ServeKeeps, PipeKeeps DEF Next
  <1>3. QED
    BY <1>1, <1>2 DEF IInv

LEMMA Inductive == Spec => []IInv
  BY IInvInit, IInvStep, PTL DEF Spec

-----------------------------------------------------------------------------
(* What follows. *)

\* The payload of d, as Row and Level count it.
LEMMA PayloadIs ==
  ASSUME IInv, NEW d \in Directions
  PROVE  /\ Payload(d) \in Seq(Nat)
         /\ \A i \in 1 .. Len(Payload(d)) : Payload(d)[i] = Base(d) + i
         /\ got[d] # <<>> => Len(Payload(d)) = Len(got[d]) - Shift(d)
         /\ got[d] # <<>> /\ Shift(d) = 1 => Head(got[d]) = 0
         /\ Shift(d) \in {0, 1} /\ Base(d) \in Nat
  <1>1. TypeOK /\ Row(d)
    BY DEF IInv
  <1>2. got[d] \in Seq(Nat) /\ Shift(d) \in {0, 1} /\ Base(d) \in Nat
    BY <1>1, BufferedIs DEF TypeOK, Shift, Base
  <1>3. CASE got[d] = <<>>
    BY <1>3, <1>2 DEF Payload
  <1>4. CASE got[d] # <<>> /\ Shift(d) = 1
    <2>1. Len(got[d]) >= 1 /\ Head(got[d]) = got[d][1]
      BY <1>2, <1>4
    <2>2. Head(got[d]) = 0
      BY <1>1, <1>4, <2>1 DEF Row
    <2>3. /\ Payload(d) = Tail(got[d]) /\ Payload(d) \in Seq(Nat)
          /\ Len(Payload(d)) = Len(got[d]) - 1
          /\ \A i \in 1 .. Len(got[d]) - 1 : Payload(d)[i] = got[d][i + 1]
      BY <1>2, <1>4, <2>2 DEF Payload
    <2>4. ASSUME NEW i \in 1 .. Len(got[d]) - 1
          PROVE  got[d][i + 1] = Base(d) + i
      <3>1. i + 1 \in 1 .. Len(got[d]) /\ ~(i + 1 <= 1)
        BY <1>2
      <3>2. got[d][i + 1] = Base(d) + (i + 1) - 1
        BY <1>1, <1>4, <3>1 DEF Row
      <3>3. QED
        BY <1>2, <3>2
    <2>5. QED
      BY <1>2, <1>4, <2>2, <2>3, <2>4
  <1>5. CASE got[d] # <<>> /\ Shift(d) = 0
    <2>1. Len(got[d]) >= 1 /\ Head(got[d]) = got[d][1]
      BY <1>2, <1>5
    <2>2. \A i \in 1 .. Len(got[d]) : got[d][i] = Base(d) + i
      BY <1>1, <1>2, <1>5 DEF Row
    <2>3. Head(got[d]) # 0
      BY <1>2, <2>1, <2>2
    <2>4. QED
      BY <1>2, <1>5, <2>2, <2>3 DEF Payload
  <1>6. QED
    BY <1>2, <1>3, <1>4, <1>5

\* proxy.go: each end receives what the other has sent, in order and once,
\* after the rewritten head or the answer.
THEOREM AlwaysInOrder == Spec => []InOrder
  <1>1. ASSUME IInv PROVE InOrder
    <2>1. ASSUME NEW d \in Directions
          PROVE  Payload(d) = [i \in 1 .. Len(Payload(d)) |-> Base(d) + i]
      BY <1>1, PayloadIs
    <2>2. want = "get" /\ got["up"] # <<>> => Head(got["up"]) = 0
      BY <1>1, PayloadIs, Ways DEF Shift
    <2>3. want = "connect" /\ got["down"] # <<>> =>
            \E i \in 1 .. Len(answers) : answers[i] = "ok"
      BY <1>1 DEF IInv, Phase, Answered
    <2>4. QED
      BY <2>1, <2>2, <2>3 DEF InOrder
  <1>2. QED
    BY <1>1, Inductive, PTL

\* relay: who is told that the stream is over has received all of it, and a
\* clean end of one direction does not end the other.
THEOREM EofAlwaysMeansAll == Spec => []EofMeansAll
  <1>1. ASSUME IInv PROVE EofMeansAll
    <2>1. ASSUME NEW d \in Directions, Dst[d] \in fin, ~perr[d]
          PROVE  Base(d) + Len(Payload(d)) = sent[d]
      <3>1. TypeOK /\ Level(d)
        BY <1>1 DEF IInv
      <3>2. /\ pipe[d] \in {"report", "done"} /\ Len(got[d]) >= Shift(d)
            /\ Base(d) + Len(got[d]) - Shift(d) = sent[d]
        BY <2>1, <3>1 DEF Level
      <3>3. /\ got[d] # <<>> => Len(Payload(d)) = Len(got[d]) - Shift(d)
            /\ Shift(d) \in {0, 1} /\ Base(d) \in Nat
        BY <1>1, PayloadIs
      <3>4. got[d] \in Seq(Nat) /\ Len(got[d]) \in Nat
        BY <3>1 DEF TypeOK
      <3>5. CASE got[d] = <<>>
        <4>1. Payload(d) = <<>> /\ Len(got[d]) = 0
          BY <3>5 DEF Payload
        <4>2. QED
          BY <3>2, <3>3, <4>1
      <3>6. CASE got[d] # <<>>
        BY <3>2, <3>3, <3>4, <3>6
      <3>7. QED
        BY <3>5, <3>6
    <2>2. pc \in {"close", "closeClient", "done"} =>
            \/ \A d \in Directions : pipe[d] \in {"off", "done"}
            \/ \E d \in Directions : perr[d]
      BY <1>1, Ways DEF IInv, Results
    <2>3. QED
      BY <2>1, <2>2 DEF EofMeansAll
  <1>2. QED
    BY <1>1, Inductive, PTL

\* The handshakes: nothing is dialled for a client that has not said who it
\* is.
THEOREM OnlyKnownUsersDial == Spec => []OnlyKnownUsers
  <1>1. IInv => OnlyKnownUsers
    BY DEF IInv, Phase, OnlyKnownUsers
  <1>2. QED
    BY <1>1, Inductive, PTL

\* The types, of any size.
THEOREM TypeCorrect == Spec => []TypeOK
  <1>1. IInv => TypeOK
    BY DEF IInv
  <1>2. QED
    BY <1>1, Inductive, PTL

===============================================================================
