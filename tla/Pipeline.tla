------------------------------ MODULE Pipeline ------------------------------
(***************************************************************************)
(* What stands between net/http and a handler of tariffd (internal/api):   *)
(* the routes, the token gate, and the response writers that wrap one      *)
(* another, muxErrorWriter around statusRecorder around the connection's.  *)
(*                                                                         *)
(* A response is one record.  A body is the sequence of its pieces, each   *)
(* known by its format; an answer is what one writer of a response sets    *)
(* out to send: a Content-Type, a status and a piece.                      *)
(***************************************************************************)
EXTENDS Integers, Sequences

NoFormat == "none"

EmptyResponse ==
    [header      |-> NoFormat,   \* Content-Type in the header map
     wroteHeader |-> FALSE,      \* muxErrorWriter
     intercepted |-> FALSE,
     recorded    |-> 0,          \* statusRecorder
     sent        |-> 0,          \* the connection: status, Content-Type, body
     format      |-> NoFormat,
     body        |-> <<>>]

-----------------------------------------------------------------------------
(***************************************************************************)
(* The writers, from the connection outwards.                              *)
(***************************************************************************)

\* net/http: the first header counts, and a body implies one.
SendHeader(w, code) ==
    IF w.sent # 0 THEN w ELSE [w EXCEPT !.sent = code, !.format = w.header]
Send(w, piece) == [SendHeader(w, 200) EXCEPT !.body = Append(@, piece)]

RecordHeader(w, code) ==
    SendHeader([w EXCEPT !.recorded = IF @ = 0 THEN code ELSE @], code)
RecordWrite(w, piece) ==
    Send([w EXCEPT !.recorded = IF @ = 0 THEN 200 ELSE @], piece)

MuxHeader(w, code) ==
    IF w.wroteHeader THEN w
    ELSE IF code \in {404, 405} /\ w.header # "json"
         THEN RecordWrite(RecordHeader([w EXCEPT !.wroteHeader = TRUE, !.intercepted = TRUE,
                                                 !.header = "json"], code), "json")
         ELSE RecordHeader([w EXCEPT !.wroteHeader = TRUE], code)

\* Write: the text of a mux that was intercepted is swallowed.
MuxWrite(w, piece) ==
    IF w.intercepted THEN w
    ELSE RecordWrite(IF w.wroteHeader THEN w ELSE MuxHeader(w, 200), piece)

\* The operations of an answer: Header().Set, WriteHeader, Write.
Operations == 3

Written(w, answer, op) ==
    IF op = 2 THEN MuxHeader(w, answer.code)
    ELSE IF answer.format = NoFormat THEN w
    ELSE IF op = 1 THEN [w EXCEPT !.header = answer.format]
    ELSE MuxWrite(w, answer.format)

\* Faulty: recovering does not ask whether there is a response already.
RecoveredAlways(w) ==
    RecordWrite(RecordHeader([w EXCEPT !.header = "json"], 500), "json")

\* Faulty: recovering stands outside logging, and writes past the recorder.
RecoveredOutside(w) ==
    IF w.sent # 0 THEN w ELSE Send(SendHeader([w EXCEPT !.header = "json"], 500), "json")

\* recovering: writeJSON on the recorder, unless it has a status.
Recovered(w) ==
    IF w.recorded # 0 THEN w
    ELSE RecordWrite(RecordHeader([w EXCEPT !.header = "json"], 500), "json")

\* logging: the status of the line, after which net/http sends an implied header.
Logged(w)   == IF w.recorded = 0 THEN 200 ELSE w.recorded
Finished(w) == SendHeader(w, 200)

-----------------------------------------------------------------------------
(***************************************************************************)
(* The routes.  Paths are known by what is registered for them; "subtree"  *)
(* is any other path below /v1/, "unclean" one the mux redirects, and      *)
(* "star" the asterisk form, which the mux refuses by itself.              *)
(***************************************************************************)
Paths   == {"healthz", "openapi", "compute", "subtree", "elsewhere", "unclean", "star"}

\* token: what stands after "Bearer", "none" when nothing does.
\* registered: whether the method is the one the path is registered with, or
\* GET where nothing is, which a redirect has a body for.
IsRequest(q) == /\ q.path \in Paths
                /\ q.registered \in BOOLEAN
                /\ q.token \in STRING

Answer(format, code) == [format |-> format, code |-> code]

JSON(code)     == Answer("json", code)
MuxError(code) == Answer("text", code)

\* authenticate, of the tokens that Auth holds, and behind it the mux of the
\* compute endpoints.
Gated(q) == \/ q.path \in {"compute", "subtree"}
            \/ q.path = "openapi" /\ ~q.registered
Valid(auth, token) == \E i \in DOMAIN auth : auth[i] = token
Admitted(auth, q)  == auth = <<>> \/ Valid(auth, q.token)

\* What respondError and the handlers make of a decoded request, or fail to.
HandlerAnswers == {JSON(c) : c \in {200, 400, 413, 500}}

\* Whether a handler of this package runs.
Handles(auth, q) ==
    \/ q.path \in {"healthz", "openapi"} /\ q.registered
    \/ q.path = "compute" /\ q.registered /\ Admitted(auth, q)

Answers(auth, q) ==
    IF Gated(q) /\ ~Admitted(auth, q) THEN {JSON(401)}
    ELSE IF q.path = "compute" /\ q.registered THEN HandlerAnswers
    ELSE IF q.path = "healthz" /\ q.registered THEN {JSON(200)}
    ELSE IF q.path = "openapi" /\ q.registered THEN {Answer("yaml", 200)}
    ELSE IF q.path \in {"compute", "healthz"} THEN {MuxError(405)}
    ELSE IF q.path = "unclean" THEN {Answer(IF q.registered THEN "html" ELSE NoFormat, 301)}
    ELSE IF q.path = "star" THEN {Answer(NoFormat, 400)}
    ELSE {MuxError(404)}

=============================================================================
