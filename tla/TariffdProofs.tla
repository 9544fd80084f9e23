--------------------------- MODULE TariffdProofs ---------------------------
(***************************************************************************)
(* Theorems about Tariffd, for every environment, any number of            *)
(* connections and every request: what a response comes to wherever its    *)
(* handler panicked, and how the process ends.                             *)
(***************************************************************************)
EXTENDS Tariffd, MoneyProofs

-----------------------------------------------------------------------------
(***************************************************************************)
(* The inductive invariant.                                                *)
(***************************************************************************)
\* The response when an answer has been written as far as its k-th operation.
After(a, k) ==
    LET first  == Written(EmptyResponse, a, 1)
        second == Written(first, a, 2)
        third  == Written(second, a, 3)
    IN  IF k = 0 THEN EmptyResponse
        ELSE IF k = 1 THEN first ELSE IF k = 2 THEN second ELSE third

\* What a handler leaves behind, of an answer a and a request q, that returned
\* after its k-th operation or panicked there.
Left(q, a, k, w) ==
    \/ k = Operations /\ w = After(a, k)
    \/ Handles(auth, q) /\ w = Recovered(After(a, k))

Whole(f) == f = [c \in Connections |-> f[c]]

Shape ==
    /\ environment \in Environments
    /\ asked \in [Connections -> Requests]
    /\ Whole(at) /\ Whole(answer) /\ Whole(op) /\ Whole(response) /\ Whole(logged)

\* Before the process listens nothing has arrived, and from then on it has the
\* tokens of its environment.
Configured ==
    /\ run \in {"loading", "booting"} => \A c \in Connections : at[c] = "away"
    /\ run \in {"booting", "selecting", "draining"} => auth = ParseTokens(environment.tokens)
    /\ \A c \in Connections : at[c] # "away" => auth = ParseTokens(environment.tokens)

\* How far a connection is.
Untouched(c) == at[c] \in {"away", "open", "closed", "arrived"} =>
                 op[c] = 0 /\ response[c] = EmptyResponse

Begun(c) == at[c] \in {"writing", "panicked", "returned", "done"} =>
              answer[c] \in Answers(auth, asked[c]) /\ op[c] \in 0 .. Operations

Underway(c) == at[c] \in {"writing", "panicked"} => response[c] = After(answer[c], op[c])

Recoverable(c) == at[c] = "panicked" => Handles(auth, asked[c])

Ended(c) == at[c] = "returned" => Left(asked[c], answer[c], op[c], response[c])

Reported(c) ==
    at[c] = "done" => \E w : /\ Left(asked[c], answer[c], op[c], w)
                             /\ response[c] = Finished(w) /\ logged[c] = Logged(w)

Kept(c) == /\ Untouched(c) /\ Begun(c) /\ Underway(c)
           /\ Recoverable(c) /\ Ended(c) /\ Reported(c)

Progress == \A c \in Connections : Kept(c)

\* How the process may end.
Ending ==
    /\ run \in {"loading", "booting", "selecting", "draining", "returned"}
    /\ run # "returned" => outcome = "none"
    /\ run = "draining" => signalled
    /\ run = "selecting" => errCh \in {"empty", "failed"}
    /\ run \in {"loading", "booting"} => errCh = "empty" /\ serve = "absent"

Inv == Shape /\ Configured /\ Progress /\ Ending /\ OrderlyStop

-----------------------------------------------------------------------------
(***************************************************************************)
(* What the writers make of each kind of answer, operation by operation.   *)
(***************************************************************************)
Formats == {NoFormat, "json", "yaml", "html", "text"}

Responses ==
    [header : Formats, wroteHeader : BOOLEAN, intercepted : BOOLEAN,
     recorded : Nat, sent : Nat, format : Formats, body : Seq(Formats)]

\* Nothing is sent yet, and the header map may have a Content-Type.
Fresh(w, header) ==
    /\ w \in Responses /\ w.header = header /\ ~w.wroteHeader /\ ~w.intercepted
    /\ w.recorded = 0 /\ w.sent = 0 /\ w.format = NoFormat /\ w.body = <<>>

\* A response that recorder and connection agree about.
Agreed(w, code, format, body) ==
    /\ w \in Responses /\ w.recorded = code /\ w.sent = code
    /\ w.format = format /\ w.body = body

Passed(w) == w.wroteHeader /\ ~w.intercepted
Cut(w)    == w.wroteHeader /\ w.intercepted

LEMMA OnePiece ==
    ASSUME NEW f \in Formats
    PROVE  <<f>> \in Seq(Formats) /\ Append(<<>>, f) = <<f>>
  OBVIOUS

LEMMA Beginning == Fresh(EmptyResponse, NoFormat)
<1>1. NoFormat \in Formats /\ <<>> \in Seq(Formats)
  BY DEF Formats
<1> QED
  BY <1>1 DEF EmptyResponse, Fresh, Responses

LEMMA HeaderSet ==
    ASSUME NEW w, NEW h, Fresh(w, h), NEW f \in Formats
    PROVE  Fresh([w EXCEPT !.header = f], f)
  BY DEF Fresh, Responses

\* A header goes through both writers once.
LEMMA HeaderOnce ==
    ASSUME NEW w, NEW h \in Formats, Fresh(w, h), NEW code \in Nat, code # 0,
           code \notin {404, 405} \/ h = "json"
    PROVE  Agreed(MuxHeader(w, code), code, h, <<>>) /\ Passed(MuxHeader(w, code))
<1> DEFINE v == [w EXCEPT !.wroteHeader = TRUE]
           u == [v EXCEPT !.recorded = code]
           t == [u EXCEPT !.sent = code, !.format = h]
<1>1. MuxHeader(w, code) = t
  BY DEF MuxHeader, RecordHeader, SendHeader, Fresh, Responses
<1>2. Agreed(t, code, h, <<>>) /\ Passed(t)
  BY DEF Fresh, Agreed, Passed, Responses
<1> QED
  BY <1>1, <1>2

\* A piece goes through the recorder to a connection that has its header.
LEMMA PieceSent ==
    ASSUME NEW w, NEW f \in Formats, NEW g \in Formats, NEW code \in Nat, code # 0,
           Agreed(w, code, g, <<>>)
    PROVE  /\ Agreed(RecordWrite(w, f), code, g, <<f>>)
           /\ RecordWrite(w, f).wroteHeader = w.wroteHeader
           /\ RecordWrite(w, f).intercepted = w.intercepted
<1> DEFINE u == [w EXCEPT !.body = <<f>>]
<1>1. w \in Responses /\ w.recorded = code /\ w.sent = code /\ w.body = <<>>
  BY DEF Agreed
<1>2. [w EXCEPT !.recorded = IF @ = 0 THEN 200 ELSE @] = w
  BY <1>1 DEF Responses
<1>3. RecordWrite(w, f) = [w EXCEPT !.body = Append(@, f)]
  BY <1>1, <1>2 DEF RecordWrite, Send, SendHeader
<1>4. RecordWrite(w, f) = u
  BY <1>1, <1>3, OnePiece
<1>5. <<f>> \in Seq(Formats)
  BY OnePiece
<1>6. u \in Responses
  BY <1>1, <1>5 DEF Responses
<1>7. /\ u.recorded = w.recorded /\ u.sent = w.sent /\ u.format = w.format /\ u.body = <<f>>
      /\ u.wroteHeader = w.wroteHeader /\ u.intercepted = w.intercepted
  BY <1>1 DEF Responses
<1> QED
  BY <1>4, <1>6, <1>7 DEF Agreed

\* An error body of the service's own: a header, and a piece of JSON.
LEMMA ErrorSent ==
    ASSUME NEW v \in Responses, v.header = "json", v.recorded = 0, v.sent = 0, v.body = <<>>,
           NEW code \in Nat, code # 0
    PROVE  LET w == RecordWrite(RecordHeader(v, code), "json")
           IN  /\ Agreed(w, code, "json", <<"json">>)
               /\ w.wroteHeader = v.wroteHeader /\ w.intercepted = v.intercepted
<1> DEFINE u == [v EXCEPT !.recorded = code]
           t == [u EXCEPT !.sent = code, !.format = "json"]
<1>1. RecordHeader(v, code) = t
  BY DEF RecordHeader, SendHeader, Responses
<1>2. /\ u \in Responses /\ u.recorded = code /\ u.body = <<>>
      /\ u.wroteHeader = v.wroteHeader /\ u.intercepted = v.intercepted
  BY DEF Responses
<1>3. "json" \in Formats
  BY DEF Formats
<1> HIDE DEF u
<1>4. t \in Responses
  BY <1>2, <1>3 DEF Responses
<1>5. /\ t.recorded = code /\ t.sent = code /\ t.format = "json" /\ t.body = <<>>
      /\ t.wroteHeader = v.wroteHeader /\ t.intercepted = v.intercepted
  BY <1>2 DEF Responses
<1> HIDE DEF t
<1>6. Agreed(t, code, "json", <<>>)
  BY <1>4, <1>5 DEF Agreed
<1> QED
  BY <1>1, <1>3, <1>5, <1>6, PieceSent

\* What the mux says of a missing route is rewritten (muxErrorWriter).
LEMMA HeaderRewritten ==
    ASSUME NEW w, NEW h, Fresh(w, h), h # "json", NEW code \in {404, 405}
    PROVE  Agreed(MuxHeader(w, code), code, "json", <<"json">>) /\ Cut(MuxHeader(w, code))
<1> DEFINE v == [w EXCEPT !.wroteHeader = TRUE, !.intercepted = TRUE, !.header = "json"]
<1>1. /\ v \in Responses /\ v.header = "json" /\ v.wroteHeader /\ v.intercepted
      /\ v.recorded = 0 /\ v.sent = 0 /\ v.body = <<>>
  BY DEF Fresh, Responses, Formats
<1>2. MuxHeader(w, code) = RecordWrite(RecordHeader(v, code), "json")
  BY DEF MuxHeader, Fresh
<1>3. code \in Nat /\ code # 0
  OBVIOUS
<1> HIDE DEF v
<1> QED
  BY <1>1, <1>2, <1>3, ErrorSent DEF Cut

LEMMA BodyOnce ==
    ASSUME NEW w, NEW f \in Formats, NEW code \in Nat, code # 0,
           Agreed(w, code, f, <<>>), Passed(w)
    PROVE  Agreed(MuxWrite(w, f), code, f, <<f>>)
<1>1. MuxWrite(w, f) = RecordWrite(w, f)
  BY DEF MuxWrite, Passed
<1> QED
  BY <1>1, PieceSent

\* What was cut short stays as it is: the text of the mux is swallowed.
LEMMA BodyCut ==
    ASSUME NEW w, NEW f, Cut(w)
    PROVE  MuxWrite(w, f) = w
  BY DEF MuxWrite, Cut

\* Recovering answers where nothing was sent, and leaves alone what was.
LEMMA RecoveredFresh ==
    ASSUME NEW w, NEW h, Fresh(w, h)
    PROVE  Agreed(Recovered(w), 500, "json", <<"json">>)
<1> DEFINE v == [w EXCEPT !.header = "json"]
<1>1. v \in Responses /\ v.header = "json" /\ v.recorded = 0 /\ v.sent = 0 /\ v.body = <<>>
  BY DEF Fresh, Responses, Formats
<1>2. Recovered(w) = RecordWrite(RecordHeader(v, 500), "json")
  BY DEF Recovered, Fresh
<1> HIDE DEF v
<1> QED
  BY <1>1, <1>2, ErrorSent

LEMMA RecoveredSent ==
    ASSUME NEW w, NEW code \in Nat, code # 0, NEW f, NEW body, Agreed(w, code, f, body)
    PROVE  Recovered(w) = w /\ Finished(w) = w /\ Logged(w) = w.sent
  BY DEF Recovered, Finished, SendHeader, Logged, Agreed

-----------------------------------------------------------------------------
(***************************************************************************)
(* What a request is left with.                                            *)
(***************************************************************************)
\* An answer that the mux did not write.
LEMMA AfterPiece ==
    ASSUME NEW f \in {"json", "yaml", "html"}, NEW code \in Nat, code \notin {0, 404, 405}
    PROVE  /\ Fresh(After(Answer(f, code), 0), NoFormat)
           /\ Fresh(After(Answer(f, code), 1), f)
           /\ Agreed(After(Answer(f, code), 2), code, f, <<>>)
           /\ Agreed(After(Answer(f, code), 3), code, f, <<f>>)
<1> DEFINE a == Answer(f, code)
           first == [EmptyResponse EXCEPT !.header = f]
           second == MuxHeader(first, code)
<1>1. f # NoFormat /\ f \in Formats /\ a.format = f /\ a.code = code
  BY DEF NoFormat, Formats, Answer
<1>2. After(a, 0) = EmptyResponse /\ After(a, 1) = first /\ After(a, 2) = second
      /\ After(a, 3) = MuxWrite(second, f)
  BY <1>1 DEF After, Written
<1>3. Fresh(first, f)
  BY <1>1, Beginning, HeaderSet
<1> HIDE DEF first, a
<1>4. Agreed(second, code, f, <<>>) /\ Passed(second)
  BY <1>1, <1>3, HeaderOnce
<1> HIDE DEF second
<1>5. Agreed(MuxWrite(second, f), code, f, <<f>>)
  BY <1>1, <1>4, BodyOnce
<1> QED
  BY <1>2, <1>3, <1>4, <1>5, Beginning DEF a

\* What the mux writes of a route that is not there.
LEMMA AfterMuxError ==
    ASSUME NEW code \in {404, 405}
    PROVE  Agreed(After(MuxError(code), 3), code, "json", <<"json">>)
<1> DEFINE a == MuxError(code)
           first == [EmptyResponse EXCEPT !.header = "text"]
           second == MuxHeader(first, code)
<1>1. "text" # NoFormat /\ "text" \in Formats /\ a.format = "text" /\ a.code = code
  BY DEF NoFormat, Formats, MuxError, Answer
<1>2. After(a, 3) = MuxWrite(second, "text")
  BY <1>1 DEF After, Written
<1>3. Fresh(first, "text")
  BY <1>1, Beginning, HeaderSet
<1> HIDE DEF first, a
<1>4. Agreed(second, code, "json", <<"json">>) /\ Cut(second)
  BY <1>3, HeaderRewritten
<1> HIDE DEF second
<1> QED
  BY <1>2, <1>4, BodyCut DEF a

\* An answer of a status alone.
LEMMA AfterBare ==
    ASSUME NEW code \in Nat, code \notin {0, 404, 405}
    PROVE  Agreed(After(Answer(NoFormat, code), 3), code, NoFormat, <<>>)
<1> DEFINE a == Answer(NoFormat, code)
<1>1. a.format = NoFormat /\ a.code = code /\ NoFormat \in Formats
  BY DEF Answer, Formats
<1>2. After(a, 3) = MuxHeader(EmptyResponse, code)
  BY <1>1 DEF After, Written
<1> QED
  BY <1>1, <1>2, Beginning, HeaderOnce

\* What is asked of the response to a request q that got as far as k.
Fitting(q, k, w, code, format, body) ==
    /\ code \in Nat /\ code # 0 /\ Agreed(w, code, format, body)
    /\ body = <<>> \/ body = <<format>>
    /\ code >= 400 /\ q.path # "star" => format = "json"
    /\ body = <<>> => q.path \in {"star", "unclean"} \/ Handles(auth, q)
    /\ k < 2 => code = 500 /\ body = <<"json">>
    /\ code = 401 <=> Gated(q) /\ ~Admitted(auth, q)

\* A handler's answer, wherever it panicked.
LEMMA HandlerLeaves ==
    ASSUME NEW q, Handles(auth, q), NEW f \in {"json", "yaml"},
           NEW code \in {200, 400, 413, 500}, code >= 400 => f = "json",
           NEW k \in 0 .. Operations, NEW w, Left(q, Answer(f, code), k, w)
    PROVE  \E c, g, b : Fitting(q, k, w, c, g, b)
<1> DEFINE a == Answer(f, code)
<1>1. /\ Fresh(After(a, 0), NoFormat) /\ Fresh(After(a, 1), f)
      /\ Agreed(After(a, 2), code, f, <<>>) /\ Agreed(After(a, 3), code, f, <<f>>)
      /\ code \in Nat /\ code # 0
  BY AfterPiece
<1>2. ~(Gated(q) /\ ~Admitted(auth, q))
  BY DEF Handles, Gated
<1> HIDE DEF a
<1>3. k \in {0, 1, 2, 3} /\ Operations = 3
  BY DEF Operations
<1>4. CASE k \in {0, 1}
  <2>1. w = Recovered(After(a, k))
    BY <1>3, <1>4 DEF Left, a
  <2>2. Agreed(w, 500, "json", <<"json">>)
    BY <1>1, <1>4, <2>1, RecoveredFresh
  <2>3. Fitting(q, k, w, 500, "json", <<"json">>)
    BY <1>2, <1>4, <2>2 DEF Fitting
  <2> QED
    BY <2>3
<1>5. CASE k = 2
  <2>1. w = Recovered(After(a, 2))
    BY <1>3, <1>5 DEF Left, a
  <2>2. w = After(a, 2)
    BY <1>1, <2>1, RecoveredSent
  <2>3. Fitting(q, k, w, code, f, <<>>)
    BY <1>1, <1>2, <1>5, <2>2 DEF Fitting
  <2> QED
    BY <2>3
<1>6. CASE k = 3
  <2>1. w = After(a, 3) \/ w = Recovered(After(a, 3))
    BY <1>3, <1>6 DEF Left, a
  <2>2. w = After(a, 3)
    BY <1>1, <2>1, RecoveredSent
  <2>3. Fitting(q, k, w, code, f, <<f>>)
    BY <1>1, <1>2, <1>6, <2>2 DEF Fitting
  <2> QED
    BY <2>3
<1> QED
  BY <1>3, <1>4, <1>5, <1>6

\* Whatever a request is answered with is one response that fits it.
LEMMA Outcome ==
    ASSUME NEW q, IsRequest(q), NEW a \in Answers(auth, q), NEW k \in 0 .. Operations,
           NEW w, Left(q, a, k, w)
    PROVE  \E c, g, b : Fitting(q, k, w, c, g, b)
<1>1. CASE Gated(q) /\ ~Admitted(auth, q)
  <2>1. a = Answer("json", 401) /\ ~Handles(auth, q)
    BY <1>1 DEF Answers, JSON, Handles, Gated
  <2>2. w = After(a, 3) /\ k = 3
    BY <2>1 DEF Left, Operations
  <2>3. Agreed(w, 401, "json", <<"json">>)
    BY <2>1, <2>2, AfterPiece
  <2>4. Fitting(q, k, w, 401, "json", <<"json">>)
    BY <1>1, <2>2, <2>3 DEF Fitting
  <2> QED
    BY <2>4
<1>2. CASE ~(Gated(q) /\ ~Admitted(auth, q)) /\ Handles(auth, q)
  <2>1. \/ \E code \in {200, 400, 413, 500} : a = Answer("json", code)
        \/ a = Answer("yaml", 200)
    BY <1>2 DEF Answers, Handles, JSON, HandlerAnswers
  <2> QED
    BY <1>2, <2>1, HandlerLeaves
<1>3. CASE ~(Gated(q) /\ ~Admitted(auth, q)) /\ ~Handles(auth, q)
  <2>1. w = After(a, 3) /\ k = 3
    BY <1>3 DEF Left, Operations
  <2>2. \/ \E code \in {404, 405} : a = MuxError(code)
        \/ a = Answer("html", 301)
        \/ a = Answer(NoFormat, 301) /\ q.path = "unclean"
        \/ a = Answer(NoFormat, 400) /\ q.path = "star"
    BY <1>3 DEF Answers, Handles, Admitted, Gated, IsRequest, Paths
  <2>3. ASSUME NEW code \in {404, 405}, a = MuxError(code)
        PROVE  \E c, g, b : Fitting(q, k, w, c, g, b)
    <3>1. Fitting(q, k, w, code, "json", <<"json">>)
      BY <1>3, <2>1, <2>3, AfterMuxError DEF Fitting
    <3> QED
      BY <3>1
  <2>4. CASE a = Answer("html", 301)
    <3>1. Agreed(w, 301, "html", <<"html">>)
      BY <2>1, <2>4, AfterPiece
    <3>2. Fitting(q, k, w, 301, "html", <<"html">>)
      BY <1>3, <2>1, <3>1 DEF Fitting
    <3> QED
      BY <3>2
  <2>5. CASE a = Answer(NoFormat, 301) /\ q.path = "unclean"
    <3>1. Agreed(w, 301, NoFormat, <<>>)
      BY <2>1, <2>5, AfterBare
    <3>2. Fitting(q, k, w, 301, NoFormat, <<>>)
      BY <1>3, <2>1, <2>5, <3>1 DEF Fitting
    <3> QED
      BY <3>2
  <2>6. CASE a = Answer(NoFormat, 400) /\ q.path = "star"
    <3>1. Agreed(w, 400, NoFormat, <<>>)
      BY <2>1, <2>6, AfterBare
    <3>2. Fitting(q, k, w, 400, NoFormat, <<>>)
      BY <1>3, <2>1, <2>6, <3>1 DEF Fitting
    <3> QED
      BY <3>2
  <2> QED
    BY <2>2, <2>3, <2>4, <2>5, <2>6
<1> QED
  BY <1>1, <1>2, <1>3

-----------------------------------------------------------------------------
(***************************************************************************)
(* The tokens that are read are those that the list names.                 *)
(***************************************************************************)
\* p holds the tokens of the first 0, 1, ... parts of t.
ReadInTurn(p, t, n) ==
    /\ p[0] = <<>>
    /\ \A k \in 1 .. n : p[k] = IF t[k] = Blank THEN p[k - 1]
                                ELSE Append(p[k - 1], t[k])

\* parseTokens keeps the parts that are not blank, one after another.
LEMMA ParseTokensFold ==
    ASSUME NEW V, NEW n \in Nat, NEW t \in [1 .. n -> V]
    PROVE  \E p \in [0 .. n -> Seq(V)] : ReadInTurn(p, t, n) /\ ParseTokens(t) = p[n]
<1> DEFINE Take(x, y) == IF y = Blank THEN x ELSE Append(x, y)
           Body(f) == [s \in SUBSET (1 .. n) |->
                        IF s = {} THEN <<>> ELSE Take(f[s \ {Max(s)}], t[Max(s)])]
           iter == CHOOSE f : f = Body(f)
           step == [x \in (1 .. n) \X Seq(V) |-> Take(x[2], t[x[1]])]
           p == [k \in 0 .. n |-> iter[1 .. k]]
<1>1. DOMAIN t = 1 .. n
  OBVIOUS
<1>2. ParseTokens(t) = iter[1 .. n]
  BY <1>1 DEF ParseTokens, FoldLeft, MapThenFoldSet
<1>3. step \in [(1 .. n) \X Seq(V) -> Seq(V)]
  <2> SUFFICES ASSUME NEW j \in 1 .. n, NEW x \in Seq(V) PROVE Take(x, t[j]) \in Seq(V)
    OBVIOUS
  <2>1. t[j] \in V
    OBVIOUS
  <2> QED
    BY <2>1
<1>4. <<>> \in Seq(V)
  OBVIOUS
<1> HIDE DEF Take
<1>5. PICK f \in [SUBSET (1 .. n) -> Seq(V)] : FoldsBy(f, n, <<>>, step)
  <2> HIDE DEF step
  <2> QED
    BY <1>3, <1>4, FoldDefined
<1>6. f = Body(f)
  <2> SUFFICES ASSUME NEW s \in SUBSET (1 .. n), s # {}
               PROVE f[s] = Take(f[s \ {Max(s)}], t[Max(s)])
    BY <1>5 DEF FoldsBy
  <2>1. Max(s) \in 1 .. n
    BY MaxIn
  <2>2. <<Max(s), f[s \ {Max(s)}]>> \in (1 .. n) \X Seq(V)
    BY <2>1
  <2> QED
    BY <1>5, <2>2 DEF FoldsBy
<1>7. iter = Body(iter)
  <2> HIDE DEF Body
  <2> QED
    BY <1>6
<1> HIDE DEF iter
<1>8. \A k \in 1 .. n : iter[1 .. k] = Take(iter[1 .. k - 1], t[k])
  <2> SUFFICES ASSUME NEW k \in 1 .. n PROVE iter[1 .. k] = Take(iter[1 .. k - 1], t[k])
    OBVIOUS
  <2>1. Max(1 .. k) = k
    BY MaxOfPrefix
  <2>2. (1 .. k) \ {k} = 1 .. k - 1
    OBVIOUS
  <2>3. 1 .. k \in SUBSET (1 .. n)
    BY PrefixIn
  <2>4. k \in 1 .. k
    OBVIOUS
  <2> QED
    BY <1>7, <2>1, <2>2, <2>3, <2>4
<1>9. iter[1 .. 0] = <<>>
  <2>1. 1 .. 0 = {}
    OBVIOUS
  <2>2. {} \in SUBSET (1 .. n)
    OBVIOUS
  <2> QED
    BY <1>7, <2>1, <2>2
<1>10. p[0] = <<>> /\ \A k \in 1 .. n : p[k] = Take(p[k - 1], t[k])
  BY <1>8, <1>9
<1>11. p[n] = ParseTokens(t)
  BY <1>2
<1> HIDE DEF p
<1>12. p \in [0 .. n -> Seq(V)]
  <2> DEFINE X == {k \in 0 .. n : p[k] \in Seq(V)}
  <2>1. 0 \in X
    <3>1. p[0] \in Seq(V) /\ 0 \in 0 .. n
      BY <1>4, <1>10
    <3> QED
      BY <3>1
  <2>2. ASSUME NEW k \in 0 .. n, k < n, k \in X PROVE k + 1 \in X
    <3>1. k + 1 \in 1 .. n /\ (k + 1) - 1 = k /\ k + 1 \in 0 .. n
      BY <2>2
    <3>2. p[k] \in Seq(V) /\ t[k + 1] \in V
      BY <2>2, <3>1
    <3>3. p[k + 1] = Take(p[k], t[k + 1])
      BY <1>10, <3>1
    <3>4. Take(p[k], t[k + 1]) \in Seq(V)
      BY <3>2 DEF Take
    <3> QED
      BY <3>1, <3>3, <3>4
  <2> HIDE DEF X
  <2>3. 0 .. n \subseteq X
    BY <2>1, <2>2, UpTo
  <2> QED
    BY <2>3 DEF X, p
<1>13. ReadInTurn(p, t, n)
  <2> HIDE DEF p
  <2> QED
    BY <1>10 DEF Take, ReadInTurn
<1> HIDE DEF p
<1> QED
  BY <1>11, <1>12, <1>13

Elements(s) == {s[i] : i \in 1 .. Len(s)}

\* The elements of a sequence with one more.
LEMMA ElementsOfAppend ==
    ASSUME NEW V, NEW s \in Seq(V), NEW x \in V
    PROVE  Elements(Append(s, x)) = Elements(s) \cup {x}
<1> DEFINE a == Append(s, x)
           m == Len(s)
<1>1. /\ m \in Nat /\ Len(a) = m + 1 /\ a[m + 1] = x
      /\ \A i \in 1 .. m : a[i] = s[i]
  OBVIOUS
<1> HIDE DEF a, m
<1>2. \A i \in 1 .. m + 1 : i \in 1 .. m \/ i = m + 1
  BY <1>1
<1>3. \A i \in 1 .. m : i \in 1 .. m + 1
  BY <1>1
<1>4. m + 1 \in 1 .. m + 1
  BY <1>1
<1>5. {a[i] : i \in 1 .. m + 1} = {s[i] : i \in 1 .. m} \cup {x}
  BY <1>1, <1>2, <1>3, <1>4
<1> QED
  BY <1>1, <1>5 DEF a, m, Elements

LEMMA TokensNamed ==
    ASSUME NEW V, NEW t \in Seq(V)
    PROVE  /\ ParseTokens(t) \in Seq(V)
           /\ Elements(ParseTokens(t)) = Elements(t) \ {Blank}
<1> DEFINE n == Len(t)
           Read(k) == {t[i] : i \in 1 .. k} \ {Blank}
<1>1. n \in Nat /\ t \in [1 .. n -> V]
  OBVIOUS
<1>read. PICK p \in [0 .. n -> Seq(V)] : ReadInTurn(p, t, n) /\ ParseTokens(t) = p[n]
  <2> HIDE DEF n
  <2> QED
    BY <1>1, ParseTokensFold
<1>2. /\ p[0] = <<>>
      /\ \A k \in 1 .. n : p[k] = IF t[k] = Blank THEN p[k - 1]
                                  ELSE Append(p[k - 1], t[k])
      /\ ParseTokens(t) = p[n]
  BY <1>read DEF ReadInTurn
<1> HIDE DEF n
<1> DEFINE X == {k \in 0 .. n : Elements(p[k]) = Read(k)}
<1>3. 0 \in X
  BY <1>1, <1>2 DEF Elements
<1>4. ASSUME NEW k \in 0 .. n, k < n, k \in X PROVE k + 1 \in X
  <2>1. k + 1 \in 1 .. n /\ (k + 1) - 1 = k /\ k + 1 \in 0 .. n
    BY <1>1, <1>4
  <2>2. p[k] \in Seq(V) /\ t[k + 1] \in V /\ Elements(p[k]) = Read(k)
    BY <1>1, <1>4, <2>1
  <2>3. \A i : i \in 1 .. k + 1 <=> i \in 1 .. k \/ i = k + 1
    OBVIOUS
  <2>4. CASE t[k + 1] = Blank
    <3>1. p[k + 1] = p[k]
      BY <1>2, <2>1, <2>4
    <3>2. Read(k + 1) = Read(k)
      BY <2>3, <2>4
    <3> QED
      BY <2>1, <2>2, <3>1, <3>2
  <2>5. CASE t[k + 1] # Blank
    <3>1. p[k + 1] = Append(p[k], t[k + 1])
      BY <1>2, <2>1, <2>5
    <3>2. Elements(p[k + 1]) = Elements(p[k]) \cup {t[k + 1]}
      BY <2>2, <3>1, ElementsOfAppend
    <3>3. Read(k + 1) = Read(k) \cup {t[k + 1]}
      BY <2>3, <2>5
    <3> HIDE DEF Read
    <3> QED
      BY <2>1, <2>2, <3>2, <3>3
  <2> QED
    BY <2>4, <2>5
<1>5. n \in X
  <2> HIDE DEF X
  <2>1. 0 .. n \subseteq X
    BY <1>1, <1>3, <1>4, UpTo
  <2> QED
    BY <1>1, <2>1
<1>6. Elements(p[n]) = Read(n) /\ p[n] \in Seq(V)
  BY <1>1, <1>5
<1> QED
  BY <1>2, <1>6 DEF n, Elements

\* The gate admits what presents a token that the environment names, and
\* everything when it names none.
LEMMA GateAsksNamed ==
    ASSUME environment \in Environments, auth = ParseTokens(environment.tokens), NEW q
    PROVE  Admitted(auth, q) <=> Named = {} \/ q.token \in Named
<1> DEFINE V == STRING
           t == environment.tokens
           held == Elements(auth)
<1>1. t \in Seq(V)
  BY EnvironmentsAssumption
<1> HIDE DEF V
<1>2. DOMAIN t = 1 .. Len(t)
  BY <1>1
<1>3. auth \in Seq(V) /\ held = Elements(t) \ {Blank}
  <2>1. auth = ParseTokens(t)
    OBVIOUS
  <2> HIDE DEF t
  <2> QED
    BY <1>1, <2>1, TokensNamed
<1>4. Named = held
  BY <1>2, <1>3 DEF Named, Elements
<1>5. DOMAIN auth = 1 .. Len(auth) /\ Len(auth) \in Nat
  BY <1>3
<1>6. auth = <<>> <=> held = {}
  <2>1. auth = <<>> <=> Len(auth) = 0
    BY <1>3
  <2>2. Len(auth) # 0 => auth[1] \in held
    BY <1>5 DEF Elements
  <2>3. Len(auth) = 0 => held = {}
    BY DEF Elements
  <2> QED
    BY <2>1, <2>2, <2>3
<1>7. Valid(auth, q.token) <=> q.token \in held
  BY <1>5 DEF Valid, Elements
<1> QED
  BY <1>4, <1>6, <1>7 DEF Admitted

-----------------------------------------------------------------------------
(***************************************************************************)
(* The invariant is kept, action by action.                                *)
(***************************************************************************)
LEMMA InitInv == Init => Inv
<1> SUFFICES ASSUME Init PROVE Inv
  OBVIOUS
<1>1. Shape
  BY DEF Init, Shape, Whole
<1>2. Configured /\ Ending /\ OrderlyStop
  BY DEF Init, Configured, Ending, OrderlyStop
<1>3. Progress
  BY DEF Init, Progress, Kept, Untouched, Begun, Underway, Recoverable, Ended, Reported
<1> QED
  BY <1>1, <1>2, <1>3 DEF Inv

\* What another connection does, and what the process does once it has its
\* tokens, leaves a connection's progress as it is.
LEMMA KeptStill ==
    ASSUME NEW c, Kept(c), auth' = auth, asked'[c] = asked[c], at'[c] = at[c],
           answer'[c] = answer[c], op'[c] = op[c], response'[c] = response[c],
           logged'[c] = logged[c]
    PROVE  Kept(c)'
<1>1. Untouched(c)' /\ Begun(c)' /\ Underway(c)' /\ Recoverable(c)'
  BY DEF Kept, Untouched, Begun, Underway, Recoverable, After
<1>2. \A q, a, k, w : Left(q, a, k, w)' <=> Left(q, a, k, w)
  BY DEF Left
<1>3. Ended(c)' /\ Reported(c)'
  BY <1>2 DEF Kept, Ended, Reported
<1> QED
  BY <1>1, <1>3 DEF Kept

LEMMA ConfigureInv == Inv /\ Configure => Inv'
<1> SUFFICES ASSUME Inv, Configure PROVE Inv'
  OBVIOUS
<1>1. /\ run = "loading" /\ UNCHANGED <<environment, serve, errCh, signalled, expired>>
      /\ UNCHANGED <<at, asked, answer, op, response, logged>>
      /\ \/ run' = "booting" /\ auth' = ParseTokens(environment.tokens) /\ outcome' = outcome
         \/ run' = "returned" /\ outcome' = "config" /\ auth' = auth
  BY DEF Configure, Load, Return, traffic
<1>2. Shape /\ Configured /\ Progress /\ Ending /\ OrderlyStop
  BY DEF Inv
<1>3. \A c \in Connections : at[c] = "away"
  BY <1>1, <1>2 DEF Configured
<1>4. Shape'
  BY <1>1, <1>2 DEF Shape, Whole
<1>5. Configured' /\ Ending' /\ OrderlyStop'
  BY <1>1, <1>2, <1>3 DEF Configured, Ending, OrderlyStop
<1>6. Progress'
  BY <1>1, <1>2, <1>3
     DEF Progress, Kept, Untouched, Begun, Underway, Recoverable, Ended, Reported
<1> QED
  BY <1>4, <1>5, <1>6 DEF Inv

\* Every other step of the process.
LEMMA ProcessInv ==
    ASSUME Inv, UNCHANGED <<given, traffic>>,
           Listen \/ ServeFailed \/ BeginDrain \/ Drained \/ Overdue \/ Signal \/ Expire
             \/ Serve \/ AcceptFails
    PROVE  Inv'
<1>1. UNCHANGED <<environment, auth, at, asked, answer, op, response, logged>>
  BY DEF given, traffic
<1>2. Shape /\ Configured /\ Progress /\ Ending /\ OrderlyStop
  BY DEF Inv
<1>3. Shape'
  BY <1>1, <1>2 DEF Shape, Whole
<1>4. Progress'
  <2> SUFFICES ASSUME NEW c \in Connections PROVE Kept(c)'
    BY DEF Progress
  <2>1. Kept(c)
    BY <1>2 DEF Progress
  <2> QED
    BY <1>1, <2>1, KeptStill
<1>5. Configured' /\ Ending' /\ OrderlyStop'
  <2>1. CASE Listen
    BY <1>1, <1>2, <2>1 DEF Listen, Return, Configured, Ending, OrderlyStop
  <2>2. CASE ServeFailed
    BY <1>1, <1>2, <2>2 DEF ServeFailed, Return, Configured, Ending, OrderlyStop
  <2>3. CASE BeginDrain
    BY <1>1, <1>2, <2>3 DEF BeginDrain, Configured, Ending, OrderlyStop
  <2>4. CASE Drained
    BY <1>1, <1>2, <2>4 DEF Drained, Return, Configured, Ending, OrderlyStop
  <2>5. CASE Overdue
    BY <1>1, <1>2, <2>5 DEF Overdue, Return, Configured, Ending, OrderlyStop
  <2>6. CASE Signal
    BY <1>1, <1>2, <2>6 DEF Signal, Configured, Ending, OrderlyStop
  <2>7. CASE Expire
    BY <1>1, <1>2, <2>7 DEF Expire, Configured, Ending, OrderlyStop
  <2>8. CASE Serve
    BY <1>1, <1>2, <2>8 DEF Serve, Configured, Ending, OrderlyStop
  <2>9. CASE AcceptFails
    BY <1>1, <1>2, <2>9 DEF AcceptFails, Configured, Ending, OrderlyStop
  <2> QED
    BY <2>1, <2>2, <2>3, <2>4, <2>5, <2>6, <2>7, <2>8, <2>9
<1> QED
  BY <1>3, <1>4, <1>5 DEF Inv

\* A step of one connection: the process and the others stay as they are.
Steps(c) ==
    /\ run # "returned"
    /\ UNCHANGED <<environment, auth, run, outcome, serve, errCh, signalled, expired, asked>>
    /\ Whole(at)' /\ Whole(answer)' /\ Whole(op)' /\ Whole(response)' /\ Whole(logged)'
    /\ \A d \in Connections : d # c =>
         /\ at'[d] = at[d] /\ answer'[d] = answer[d] /\ op'[d] = op[d]
         /\ response'[d] = response[d] /\ logged'[d] = logged[d]
    /\ at[c] = "away" => run = "selecting"
    /\ at[c] # "done" /\ at'[c] # "away"

LEMMA TrafficSteps ==
    ASSUME Shape, NEW c \in Connections, Traffic(c)
    PROVE  Steps(c)
<1>1. Whole(at) /\ Whole(answer) /\ Whole(op) /\ Whole(response) /\ Whole(logged)
  BY DEF Shape
<1>2. /\ run # "returned"
      /\ UNCHANGED <<environment, auth, run, outcome, serve, errCh, signalled, expired, asked>>
      /\ at[c] = "away" => run = "selecting"
      /\ at[c] # "done" /\ at'[c] # "away"
  BY <1>1 DEF Traffic, Accept, CloseOpen, Arrive, Dispatch, Write, Panic, Recover,
              HandlerReturns, Log, Moves, process, given, Whole
<1>3. \E x : at' = [at EXCEPT ![c] = x]
  BY DEF Traffic, Accept, CloseOpen, Arrive, Dispatch, Write, Panic, Recover,
         HandlerReturns, Log, Moves
<1>4. answer' = answer \/ \E x : answer' = [answer EXCEPT ![c] = x]
  BY DEF Traffic, Accept, CloseOpen, Arrive, Dispatch, Write, Panic, Recover,
         HandlerReturns, Log
<1>5. op' = op \/ \E x : op' = [op EXCEPT ![c] = x]
  BY DEF Traffic, Accept, CloseOpen, Arrive, Dispatch, Write, Panic, Recover,
         HandlerReturns, Log
<1>6. response' = response \/ \E x : response' = [response EXCEPT ![c] = x]
  BY DEF Traffic, Accept, CloseOpen, Arrive, Dispatch, Write, Panic, Recover,
         HandlerReturns, Log
<1>7. logged' = logged \/ \E x : logged' = [logged EXCEPT ![c] = x]
  BY DEF Traffic, Accept, CloseOpen, Arrive, Dispatch, Write, Panic, Recover,
         HandlerReturns, Log
<1>8. ASSUME NEW f, NEW g, Whole(f), g = f \/ \E x : g = [f EXCEPT ![c] = x]
      PROVE  Whole(g) /\ \A d \in Connections : d # c => g[d] = f[d]
  BY <1>8 DEF Whole
<1>9. /\ Whole(at)' /\ Whole(answer)' /\ Whole(op)' /\ Whole(response)' /\ Whole(logged)'
      /\ \A d \in Connections : d # c =>
           /\ at'[d] = at[d] /\ answer'[d] = answer[d] /\ op'[d] = op[d]
           /\ response'[d] = response[d] /\ logged'[d] = logged[d]
  BY <1>1, <1>3, <1>4, <1>5, <1>6, <1>7, <1>8 DEF Whole
<1> QED
  BY <1>2, <1>9 DEF Steps

\* The writing of an answer, one operation further.
LEMMA OneMore ==
    ASSUME NEW a, NEW k \in 0 .. Operations - 1
    PROVE  After(a, k + 1) = Written(After(a, k), a, k + 1)
<1>1. k = 0 \/ k = 1 \/ k = 2
  BY DEF Operations
<1> QED
  BY <1>1 DEF After

\* The connection that moves.
LEMMA MoverKept ==
    ASSUME Shape, NEW c \in Connections, Kept(c), Traffic(c)
    PROVE  Kept(c)'
<1>1. /\ at = [x \in Connections |-> at[x]] /\ answer = [x \in Connections |-> answer[x]]
      /\ op = [x \in Connections |-> op[x]] /\ response = [x \in Connections |-> response[x]]
      /\ logged = [x \in Connections |-> logged[x]]
  BY DEF Shape, Whole
<1>2. auth' = auth /\ asked' = asked
  BY TrafficSteps DEF Steps
<1>3. \A q, a, k, w : Left(q, a, k, w)' <=> Left(q, a, k, w)
  BY <1>2 DEF Left
<1>4. CASE Accept(c) \/ CloseOpen(c) \/ Arrive(c)
  BY <1>1, <1>4
     DEF Accept, CloseOpen, Arrive, Moves, Kept, Untouched, Begun, Underway, Recoverable,
         Ended, Reported
<1>5. CASE Dispatch(c)
  <2>1. PICK a \in Answers(auth, asked[c]) : answer' = [answer EXCEPT ![c] = a]
    BY <1>5 DEF Dispatch
  <2>2. /\ at[c] = "arrived" /\ at'[c] = "writing" /\ answer'[c] = a
        /\ op'[c] = op[c] /\ response'[c] = response[c]
    BY <1>1, <1>5, <2>1 DEF Dispatch, Moves
  <2>3. op[c] = 0 /\ response[c] = EmptyResponse
    BY <2>2 DEF Kept, Untouched
  <2>4. After(a, 0) = EmptyResponse
    BY DEF After
  <2> QED
    BY <1>2, <2>2, <2>3, <2>4
       DEF Kept, Untouched, Begun, Underway, Recoverable, Ended, Reported, Operations
<1>6. CASE Write(c)
  <2>1. /\ op[c] < Operations /\ at[c] = "writing" /\ at'[c] = "writing"
        /\ answer'[c] = answer[c] /\ op'[c] = op[c] + 1
        /\ response'[c] = Written(response[c], answer[c], op[c] + 1)
    BY <1>1, <1>6 DEF Write, Moves
  <2>2. /\ answer[c] \in Answers(auth, asked[c]) /\ op[c] \in 0 .. Operations
        /\ response[c] = After(answer[c], op[c])
    BY <2>1 DEF Kept, Begun, Underway
  <2>3. op[c] \in 0 .. Operations - 1 /\ op[c] + 1 \in 0 .. Operations
    BY <2>1, <2>2 DEF Operations
  <2>4. response'[c] = After(answer'[c], op'[c])
    BY <2>1, <2>2, <2>3, OneMore
  <2> QED
    BY <1>2, <2>1, <2>2, <2>3, <2>4
       DEF Kept, Untouched, Begun, Underway, Recoverable, Ended, Reported
<1>7. CASE Panic(c)
  <2>1. /\ Handles(auth, asked[c]) /\ at[c] = "writing" /\ at'[c] = "panicked"
        /\ answer'[c] = answer[c] /\ op'[c] = op[c] /\ response'[c] = response[c]
    BY <1>1, <1>7 DEF Panic, Moves
  <2> QED
    BY <1>2, <2>1 DEF Kept, Untouched, Begun, Underway, Recoverable, Ended, Reported
<1>8. CASE Recover(c)
  <2>1. /\ at[c] = "panicked" /\ at'[c] = "returned" /\ answer'[c] = answer[c]
        /\ op'[c] = op[c] /\ response'[c] = Recovered(response[c])
    BY <1>1, <1>8 DEF Recover, Moves
  <2>2. Left(asked[c], answer[c], op[c], Recovered(response[c]))
    BY <2>1 DEF Left, Kept, Underway, Recoverable
  <2> QED
    BY <1>2, <1>3, <2>1, <2>2
       DEF Kept, Untouched, Begun, Underway, Recoverable, Ended, Reported
<1>9. CASE HandlerReturns(c)
  <2>1. /\ op[c] = Operations /\ at[c] = "writing" /\ at'[c] = "returned"
        /\ answer'[c] = answer[c] /\ op'[c] = op[c] /\ response'[c] = response[c]
    BY <1>1, <1>9 DEF HandlerReturns, Moves
  <2>2. Left(asked[c], answer[c], op[c], response[c])
    BY <2>1 DEF Left, Kept, Underway
  <2> QED
    BY <1>2, <1>3, <2>1, <2>2
       DEF Kept, Untouched, Begun, Underway, Recoverable, Ended, Reported
<1>10. CASE Log(c)
  <2>1. /\ at[c] = "returned" /\ at'[c] = "done" /\ answer'[c] = answer[c]
        /\ op'[c] = op[c] /\ response'[c] = Finished(response[c])
        /\ logged'[c] = Logged(response[c])
    BY <1>1, <1>10 DEF Log, Moves
  <2>2. Left(asked[c], answer[c], op[c], response[c])
    BY <2>1 DEF Kept, Ended
  <2>3. \E w : /\ Left(asked[c], answer[c], op[c], w)
               /\ response'[c] = Finished(w) /\ logged'[c] = Logged(w)
    BY <2>1, <2>2
  <2> QED
    BY <1>2, <1>3, <2>1, <2>3
       DEF Kept, Untouched, Begun, Underway, Recoverable, Ended, Reported
<1> QED
  BY <1>4, <1>5, <1>6, <1>7, <1>8, <1>9, <1>10 DEF Traffic

LEMMA TrafficInv ==
    ASSUME Inv, NEW c \in Connections, Traffic(c)
    PROVE  Inv'
<1>1. Shape /\ Configured /\ Progress /\ Ending /\ OrderlyStop
  BY DEF Inv
<1>2. Steps(c)
  BY <1>1, TrafficSteps
<1>3. Shape'
  BY <1>1, <1>2 DEF Shape, Steps
<1>4. Progress'
  <2> SUFFICES ASSUME NEW d \in Connections PROVE Kept(d)'
    BY DEF Progress
  <2>1. Kept(d)
    BY <1>1 DEF Progress
  <2>2. CASE d = c
    BY <1>1, <2>1, <2>2, MoverKept
  <2>3. CASE d # c
    <3>1. /\ auth' = auth /\ asked'[d] = asked[d] /\ at'[d] = at[d] /\ answer'[d] = answer[d]
          /\ op'[d] = op[d] /\ response'[d] = response[d] /\ logged'[d] = logged[d]
      BY <1>2, <2>3 DEF Steps
    <3> QED
      BY <2>1, <3>1, KeptStill
  <2> QED
    BY <2>2, <2>3
<1>5. Configured'
  BY <1>1, <1>2 DEF Configured, Steps
<1>6. Ending' /\ OrderlyStop'
  BY <1>1, <1>2 DEF Ending, OrderlyStop, Steps
<1> QED
  BY <1>3, <1>4, <1>5, <1>6 DEF Inv

LEMMA Invariance == Spec => []Inv
<1>1. Init => Inv
  BY InitInv
<1>2. Inv /\ [Next]_vars => Inv'
  <2> SUFFICES ASSUME Inv, [Next]_vars PROVE Inv'
    OBVIOUS
  <2>1. CASE Configure
    BY <2>1, ConfigureInv
  <2>2. CASE \/ Listen \/ ServeFailed \/ BeginDrain \/ Drained \/ Overdue \/ Signal \/ Expire
             \/ Serve \/ AcceptFails
    <3>1. UNCHANGED <<given, traffic>>
      BY <2>2 DEF Listen, ServeFailed, BeginDrain, Drained, Overdue, Signal, Expire, Serve,
                  AcceptFails
    <3> QED
      BY <2>2, <3>1, ProcessInv
  <2>3. CASE \E c \in Connections : Traffic(c)
    BY <2>3, TrafficInv
  <2>4. CASE UNCHANGED vars
    <3>1. /\ UNCHANGED <<environment, auth, run, outcome, serve, errCh, signalled, expired>>
          /\ UNCHANGED <<at, asked, answer, op, response, logged>>
      BY <2>4 DEF vars, process, given, traffic
    <3>2. Shape' /\ Configured' /\ Ending' /\ OrderlyStop'
      BY <3>1 DEF Inv, Shape, Whole, Configured, Ending, OrderlyStop
    <3>3. Progress'
      <4> SUFFICES ASSUME NEW c \in Connections PROVE Kept(c)'
        BY DEF Progress
      <4>1. Kept(c)
        BY DEF Inv, Progress
      <4> QED
        BY <3>1, <4>1, KeptStill
    <3> QED
      BY <3>2, <3>3 DEF Inv
  <2> QED
    BY <2>1, <2>2, <2>3, <2>4 DEF Next, Run
<1> QED
  BY <1>1, <1>2, PTL DEF Spec

-----------------------------------------------------------------------------
(***************************************************************************)
(* Theorems.                                                               *)
(***************************************************************************)
\* What is sent on a connection that is done, said once for all of them.
LEMMA DoneFits ==
    ASSUME Inv, NEW c \in Connections, at[c] = "done"
    PROVE  /\ \E code, format, body :
                Fitting(asked[c], op[c], response[c], code, format, body)
           /\ logged[c] = response[c].sent
<1>1. Shape /\ Kept(c)
  BY DEF Inv, Progress
<1>2. IsRequest(asked[c])
  BY <1>1, RequestsAssumption DEF Shape
<1>3. answer[c] \in Answers(auth, asked[c]) /\ op[c] \in 0 .. Operations
  BY <1>1 DEF Kept, Begun
<1>4. PICK w : /\ Left(asked[c], answer[c], op[c], w)
               /\ response[c] = Finished(w) /\ logged[c] = Logged(w)
  BY <1>1 DEF Kept, Reported
<1>5. PICK code, format, body : Fitting(asked[c], op[c], w, code, format, body)
  BY <1>2, <1>3, <1>4, Outcome
<1>6. Finished(w) = w /\ Logged(w) = w.sent
  <2>1. code \in Nat /\ code # 0 /\ Agreed(w, code, format, body)
    BY <1>5 DEF Fitting
  <2> QED
    BY <2>1, RecoveredSent
<1> QED
  BY <1>4, <1>5, <1>6

\* Every request gets one response, in one format and one piece, wherever its
\* handler panicked and whoever answered it.
THEOREM EveryRequestHasOneAnswer == Spec => []OneAnswer
<1>1. Inv => OneAnswer
  <2> SUFFICES ASSUME Inv, NEW c \in Connections, at[c] = "done", NEW w, w = response[c]
               PROVE  /\ Len(w.body) <= 1
                      /\ \A i \in 1 .. Len(w.body) : w.body[i] = w.format
                      /\ w.sent >= 400 /\ asked[c].path # "star" => w.format = "json"
                      /\ w.body = <<>> => \/ asked[c].path \in {"star", "unclean"}
                                          \/ Handles(auth, asked[c])
                      /\ op[c] < 2 => w.sent = 500 /\ w.body = <<"json">>
    BY DEF OneAnswer
  <2>1. PICK code, format, body : Fitting(asked[c], op[c], w, code, format, body)
    BY DoneFits
  <2>2. w.sent = code /\ w.format = format /\ w.body = body
    BY <2>1 DEF Fitting, Agreed
  <2>3. Len(w.body) <= 1 /\ \A i \in 1 .. Len(w.body) : w.body[i] = w.format
    <3>1. body = <<>> \/ body = <<format>>
      BY <2>1 DEF Fitting
    <3>2. CASE body = <<>>
      BY <2>2, <3>2
    <3>3. CASE body = <<format>>
      BY <2>2, <3>3
    <3> QED
      BY <3>1, <3>2, <3>3
  <2> QED
    BY <2>1, <2>2, <2>3 DEF Fitting
<1> QED
  BY <1>1, Invariance, PTL

\* The line in the log has the status that the client was sent.
THEOREM LogIsTrue == Spec => []LogTellsTheStatus
<1>1. Inv => LogTellsTheStatus
  BY DoneFits DEF LogTellsTheStatus
<1> QED
  BY <1>1, Invariance, PTL

\* Run reports an orderly stop only when no request is cut off, a drain that
\* ran over only when the deadline has passed, and a failure to serve only when
\* serving failed by itself.
THEOREM StopIsOrderly == Spec => []OrderlyStop
  BY Invariance, PTL DEF Inv

\* The gate refuses exactly the requests without a token that the environment
\* names, if it names any.
THEOREM TokensAreAskedFor == Spec => []TokensAreAsked
<1>1. Inv => TokensAreAsked
  <2> SUFFICES ASSUME Inv, NEW c \in Connections, at[c] = "done", Gated(asked[c])
               PROVE  response[c].sent = 401 <=> Named # {} /\ asked[c].token \notin Named
    BY DEF TokensAreAsked
  <2>1. PICK code, format, body : Fitting(asked[c], op[c], response[c], code, format, body)
    BY DoneFits
  <2>2. response[c].sent = 401 <=> ~Admitted(auth, asked[c])
    BY <2>1 DEF Fitting, Agreed
  <2>3. environment \in Environments /\ auth = ParseTokens(environment.tokens)
    BY DEF Inv, Shape, Configured
  <2> QED
    BY <2>2, <2>3, GateAsksNamed
<1> QED
  BY <1>1, Invariance, PTL

=============================================================================
